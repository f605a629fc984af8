------------------------------- MODULE MCCipherConfig -------------------------------
(***************************************************************************)
(* The cipher configurations of the driver and the SQL statements the      *)
(* driver derives from them (MCCipherConfig.kt and its six subclasses,     *)
(* EncryptionConfig.kt and MCPragma.kt).                                   *)
(*                                                                         *)
(* A cipher configuration is a record [cipher, params].  params is a function *)
(* from the pragma names of MCPragma to integers; a nullable field that is *)
(* null in Kotlin is a name outside the domain.  Enumerations are their    *)
(* ordinals, as TransformEnum writes them, and booleans are 0 and 1.       *)
(* An EncryptionConfig is a record [cipherConfig, hmacCheck, mcLegacyWAL].  *)
(***************************************************************************)
EXTENDS Integers, Sequences, SequencesExt, Functions

SHA1 == 0
SHA512 == 2

\* The entries of f, and those of g that f does not have.
Over(f, g) ==
    [x \in DOMAIN f \cup DOMAIN g |-> IF x \in DOMAIN f THEN f[x] ELSE g[x]]

-----------------------------------------------------------------------------
(* The predefined configurations.                                          *)

ChaCha20Default ==
    [cipher |-> "chacha20",
     params |-> [legacy |-> 0, legacy_page_size |-> 4096, kdf_iter |-> 64007]]

SQLeet ==
    [cipher |-> "chacha20",
     params |-> [legacy |-> 1, legacy_page_size |-> 4096, kdf_iter |-> 12345]]

RC4Default ==
    [cipher |-> "rc4", params |-> [legacy |-> 1, legacy_page_size |-> 0]]

WxAES128Default ==
    [cipher |-> "aes128cbc", params |-> [legacy |-> 0, legacy_page_size |-> 0]]

WxAES256Default ==
    [cipher |-> "aes256cbc",
     params |-> [legacy |-> 0, legacy_page_size |-> 0, kdf_iter |-> 4001]]

\* MCAscon128Config also has a legacyPageSize, but no pragma is made of it.
Ascon128Default ==
    [cipher |-> "ascon128", params |-> [legacy |-> 0, kdf_iter |-> 64007]]

SqlCipherV1 ==
    [cipher |-> "sqlcipher",
     params |-> [legacy |-> 1, legacy_page_size |-> 1024, kdf_iter |-> 4000,
                 fast_kdf_iter |-> 2, hmac_use |-> 0,
                 kdf_algorithm |-> SHA1, hmac_algorithm |-> SHA1]]

SqlCipherV2 ==
    [cipher |-> "sqlcipher",
     params |-> [legacy |-> 2, legacy_page_size |-> 1024, kdf_iter |-> 4000,
                 fast_kdf_iter |-> 2, hmac_use |-> 1, hmac_pgno |-> 1,
                 hmac_salt_mask |-> 58, kdf_algorithm |-> SHA1,
                 hmac_algorithm |-> SHA1]]

SqlCipherV3 ==
    [SqlCipherV2 EXCEPT !.params.legacy = 3, !.params.kdf_iter = 64000]

SqlCipherV4 ==
    [cipher |-> "sqlcipher",
     params |-> [legacy |-> 4, legacy_page_size |-> 4096, kdf_iter |-> 256000,
                 fast_kdf_iter |-> 2, hmac_use |-> 1, hmac_pgno |-> 1,
                 hmac_salt_mask |-> 58, kdf_algorithm |-> SHA512,
                 hmac_algorithm |-> SHA512, plaintext_header_size |-> 0]]

SqlCipherDefault == [SqlCipherV4 EXCEPT !.params.legacy = 0]

\* A configuration whose builder changed some of the parameters of base.
With(base, changes) == [base EXCEPT !.params = Over(changes, @)]

-----------------------------------------------------------------------------
(* applyPragmas: a parameter becomes a pragma when it differs from the      *)
(* predefined configuration of its cipher and legacy version.              *)

\* Mutation: every version of SQLCipher is compared with the default one.
DefaultForNewest(config) ==
    CASE config.cipher = "chacha20" ->
            IF config.params.legacy = 0 THEN ChaCha20Default ELSE SQLeet
      [] config.cipher = "rc4" -> RC4Default
      [] config.cipher = "sqlcipher" -> SqlCipherDefault
      [] config.cipher = "aes128cbc" -> WxAES128Default
      [] config.cipher = "aes256cbc" -> WxAES256Default
      [] OTHER -> Ascon128Default

DefaultFor(config) ==
    CASE config.cipher = "chacha20" ->
            IF config.params.legacy = 0 THEN ChaCha20Default ELSE SQLeet
      [] config.cipher = "rc4" -> RC4Default
      [] config.cipher = "sqlcipher" ->
            CASE config.params.legacy = 0 -> SqlCipherDefault
              [] config.params.legacy = 1 -> SqlCipherV1
              [] config.params.legacy = 2 -> SqlCipherV2
              [] config.params.legacy = 3 -> SqlCipherV3
              [] OTHER -> SqlCipherV4
      [] config.cipher = "aes128cbc" -> WxAES128Default
      [] config.cipher = "aes256cbc" -> WxAES256Default
      [] OTHER -> Ascon128Default

Differs(config, p) ==
    LET default == DefaultFor(config)
    IN  p \notin DOMAIN default.params \/ config.params[p] # default.params[p]

\* The pragmas of the two switches; each is put only when it is not the default.
Switches(enc) ==
    Over(IF enc.hmacCheck THEN << >> ELSE [hmac_check |-> 0],
         IF enc.mcLegacyWAL THEN [mc_legacy_wal |-> 1] ELSE << >>)

\* The pragma map of a configuration: its cipher and its integer pragmas.
\* LEGACY is always put.
ApplyPragmas(enc) ==
    LET config == enc.cipherConfig
    IN  [cipher |-> config.cipher,
         ints   |-> Over(Switches(enc),
                         Restrict(config.params,
                            {p \in DOMAIN config.params :
                                p = "legacy" \/ Differs(config, p)}))]

-----------------------------------------------------------------------------
(* toMCSQLStatements                                                       *)

Select == [op |-> "select"]
JournalDelete == [op |-> "journal_delete"]
CipherStmt(scope, cipher) == [op |-> "cipher", scope |-> scope, cipher |-> cipher]
ParamStmt(scope, name, value) ==
    [op |-> "param", scope |-> scope, name |-> name, value |-> value]
KeyStmt(key) == [op |-> "key", key |-> key]
RekeyStmt(key) == [op |-> "rekey", key |-> key]

\* A pragma that is not in the map makes no statement.
Param(scope, ints, name) ==
    IF name \in DOMAIN ints THEN << ParamStmt(scope, name, ints[name]) >> ELSE << >>

\* In the order of MCPragma.ALL, where cipher is first and key and rekey last.
ParamStatements(scope, ints) ==
    Param(scope, ints, "hmac_check") \o Param(scope, ints, "mc_legacy_wal")
    \o Param(scope, ints, "legacy") \o Param(scope, ints, "legacy_page_size")
    \o Param(scope, ints, "kdf_iter") \o Param(scope, ints, "fast_kdf_iter")
    \o Param(scope, ints, "hmac_use") \o Param(scope, ints, "hmac_pgno")
    \o Param(scope, ints, "hmac_salt_mask") \o Param(scope, ints, "kdf_algorithm")
    \o Param(scope, ints, "hmac_algorithm") \o Param(scope, ints, "plaintext_header_size")

ConfigStatements(scope, pragmas) ==
    << CipherStmt(scope, pragmas.cipher) >> \o ParamStatements(scope, pragmas.ints)

\* Mutation: the key comes before the configuration it is derived with.
KeyStatementsKeyFirst(pragmas, key) ==
    << KeyStmt(key) >> \o ConfigStatements("main", pragmas)

KeyStatements(pragmas, key) ==
    Append(ConfigStatements("main", pragmas), KeyStmt(key))

\* Mutation: the non-transient statements after the rekey are left out.
RekeyStatementsTransientOnly(pragmas, key) ==
    << Select, JournalDelete >>
    \o ConfigStatements("temp", pragmas) \o << RekeyStmt(key) >>

\* Mutation: the journal mode is not reset before the rekey.
RekeyStatementsKeepJournal(pragmas, key) ==
    << Select >>
    \o ConfigStatements("temp", pragmas) \o << RekeyStmt(key) >>
    \o KeyStatements(pragmas, key)

\* Mutation: PRAGMA rekey comes before the configuration it is for.
RekeyStatementsRekeyFirst(pragmas, key) ==
    << Select, JournalDelete, RekeyStmt(key) >>
    \o ConfigStatements("temp", pragmas) \o KeyStatements(pragmas, key)

\* Mutation: MCPragma.ALL ends before rekey, so that no statement is made of it.
RekeyStatementsNoRekey(pragmas, key) ==
    << Select, JournalDelete >>
    \o ConfigStatements("temp", pragmas) \o ConfigStatements("main", pragmas)

RekeyStatements(pragmas, key) ==
    << Select, JournalDelete >>
    \o ConfigStatements("temp", pragmas) \o << RekeyStmt(key) >>
    \o KeyStatements(pragmas, key)

=============================================================================
