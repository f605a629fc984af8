---------------------------------- MODULE MCCodec ----------------------------------
(***************************************************************************)
(* The cipher configuration of one SQLite3MultipleCiphers connection: the  *)
(* cloned parameter table, the pragmas that change it, and the ciphers     *)
(* that key and rekey allocate from it (cipher_common.c, cipher_config.c   *)
(* and the cipher_*.c files inside sqlite3mc.c).                           *)
(*                                                                         *)
(* Every parameter has a value and a default.  A pragma qualified main.    *)
(* writes both, one qualified temp. writes only the value, and reading a   *)
(* parameter to allocate a cipher puts its default back into its value.    *)
(***************************************************************************)
EXTENDS Integers, Sequences, SequencesExt, Functions

MAX_PAGE_SIZE == 65536
MAX_INT == 2147483647

Range3(default, min, max) == [default |-> default, min |-> min, max |-> max]

\* The built-in tables; "global" is commonParams without the cipher.
ParamTable ==
    [global    |-> [hmac_check    |-> Range3(1, 0, 1),
                    mc_legacy_wal |-> Range3(0, 0, 1)],
     aes128cbc |-> [legacy           |-> Range3(0, 0, 1),
                    legacy_page_size |-> Range3(0, 0, MAX_PAGE_SIZE)],
     aes256cbc |-> [legacy           |-> Range3(0, 0, 1),
                    legacy_page_size |-> Range3(0, 0, MAX_PAGE_SIZE),
                    kdf_iter         |-> Range3(4001, 1, MAX_INT)],
     chacha20  |-> [legacy                |-> Range3(0, 0, 1),
                    legacy_page_size      |-> Range3(4096, 0, MAX_PAGE_SIZE),
                    kdf_iter              |-> Range3(64007, 1, MAX_INT),
                    plaintext_header_size |-> Range3(0, 0, 100)],
     sqlcipher |-> [legacy                |-> Range3(0, 0, 4),
                    legacy_page_size      |-> Range3(4096, 0, MAX_PAGE_SIZE),
                    kdf_iter              |-> Range3(256000, 1, MAX_INT),
                    fast_kdf_iter         |-> Range3(2, 1, MAX_INT),
                    hmac_use              |-> Range3(1, 0, 1),
                    hmac_pgno             |-> Range3(1, 0, 2),
                    hmac_salt_mask        |-> Range3(58, 0, 255),
                    kdf_algorithm         |-> Range3(2, 0, 2),
                    hmac_algorithm        |-> Range3(2, 0, 2),
                    hmac_algorithm_compat |-> Range3(1, 0, 1),
                    plaintext_header_size |-> Range3(0, 0, 100)],
     rc4       |-> [legacy           |-> Range3(1, 1, 1),
                    legacy_page_size |-> Range3(0, 0, MAX_PAGE_SIZE)],
     ascon128  |-> [kdf_iter              |-> Range3(64007, 1, MAX_INT),
                    plaintext_header_size |-> Range3(0, 0, 100)]]

Ciphers == DOMAIN ParamTable \ {"global"}

\* Mutation: the table is cloned before the default cipher was initialised.
CloneTableNoCipher ==
    [cipher |-> [value |-> "unknown", default |-> "unknown"],
     params |-> [c \in DOMAIN ParamTable |->
                   [p \in DOMAIN ParamTable[c] |->
                      [value   |-> ParamTable[c][p].default,
                       default |-> ParamTable[c][p].default]]]]

\* sqlite3mcCloneCodecParameterTable: the table of a new connection.
CloneTable ==
    [cipher |-> [value |-> "chacha20", default |-> "chacha20"],
     params |-> [c \in DOMAIN ParamTable |->
                   [p \in DOMAIN ParamTable[c] |->
                      [value   |-> ParamTable[c][p].default,
                       default |-> ParamTable[c][p].default]]]]

-----------------------------------------------------------------------------
(* Pragmas                                                                 *)

IsPageSize(n) == n \in {512, 1024, 2048, 4096, 8192, 16384, 32768, 65536}

CheckParameterValue(c, p, v) ==
    /\ p = "legacy_page_size" /\ v > 0 => IsPageSize(v)
    /\ p = "plaintext_header_size" /\ v > 0 /\ c = "sqlcipher" => v % 16 = 0

AcceptsValue(c, p, v) ==
    /\ p \in DOMAIN ParamTable[c]
    /\ v >= 0
    /\ v \in ParamTable[c][p].min .. ParamTable[c][p].max
    /\ CheckParameterValue(c, p, v)

\* One parameter of one cipher; a value out of range leaves it as it was.
SetParameter(table, scope, c, p, v) ==
    IF AcceptsValue(c, p, v)
    THEN [table EXCEPT !.params[c][p] =
            [value |-> v, default |-> IF scope = "main" THEN v ELSE @.default]]
    ELSE table

\* The parameters that PRAGMA legacy = n of SQLCipher sets along with it.
VersionParams ==
    << << <<"legacy_page_size", 1024>>, <<"kdf_iter", 4000>>, <<"hmac_use", 0>>,
          <<"kdf_algorithm", 0>>, <<"hmac_algorithm", 0>> >>,
       << <<"legacy_page_size", 1024>>, <<"kdf_iter", 4000>>, <<"hmac_use", 1>>,
          <<"kdf_algorithm", 0>>, <<"hmac_algorithm", 0>> >>,
       << <<"legacy_page_size", 1024>>, <<"kdf_iter", 64000>>, <<"hmac_use", 1>>,
          <<"kdf_algorithm", 0>>, <<"hmac_algorithm", 0>> >>,
       << <<"legacy_page_size", 4096>>, <<"kdf_iter", 256000>>, <<"hmac_use", 1>>,
          <<"kdf_algorithm", 2>>, <<"hmac_algorithm", 2>> >> >>

ConfigureSQLCipherVersion(table, scope, version) ==
    LET pvs       == VersionParams[version]
        Set(t, i) == SetParameter(t, scope, "sqlcipher", pvs[i][1], pvs[i][2])
    IN  Set(Set(Set(Set(Set(table, 1), 2), 3), 4), 5)

ConfigCipher(table, scope, c, p, v) ==
    LET versioned == IF c = "sqlcipher" /\ p = "legacy" /\ v \in 1..4
                     THEN ConfigureSQLCipherVersion(table, scope, v)
                     ELSE table
    IN  SetParameter(versioned, scope, c, p, v)

PragmaCipher(table, scope, c) ==
    [table EXCEPT !.cipher.value = c,
                  !.cipher.default = IF scope = "main" THEN c ELSE @]

\* Mutation: main.hmac_check becomes the default of the connection.
PragmaParamHmacDefault(table, scope, p, v) ==
    IF p \in DOMAIN ParamTable.global
    THEN SetParameter(table, scope, "global", p, v)
    ELSE ConfigCipher(table, scope, table.cipher.value, p, v)

\* hmac_check and mc_legacy_wal are never written as defaults, whatever the
\* scope; the other parameters belong to the cipher selected at this moment.
PragmaParam(table, scope, p, v) ==
    IF p \in DOMAIN ParamTable.global
    THEN SetParameter(table, "temp", "global", p, v)
    ELSE ConfigCipher(table, scope, table.cipher.value, p, v)

\* The effect of one configuration statement of the driver on the table.
Configure(table, stmt) ==
    IF stmt.op = "cipher" THEN PragmaCipher(table, stmt.scope, stmt.cipher)
    ELSE PragmaParam(table, stmt.scope, stmt.name, stmt.value)

\* The effect of the statement of one pragma, if there is one.
ConfigureParam(table, scope, ints, p) ==
    IF p \in DOMAIN ints THEN PragmaParam(table, scope, p, ints[p]) ELSE table

\* The effect of all configuration statements, in the order of MCPragma.ALL.
ConfigureAll(table, scope, pragmas) ==
    LET Set(t, p) == ConfigureParam(t, scope, pragmas.ints, p)
        globals   == Set(Set(PragmaCipher(table, scope, pragmas.cipher),
                             "hmac_check"), "mc_legacy_wal")
        derived   == Set(Set(Set(Set(globals, "legacy"), "legacy_page_size"),
                             "kdf_iter"), "fast_kdf_iter")
        salted    == Set(Set(Set(derived, "hmac_use"), "hmac_pgno"), "hmac_salt_mask")
    IN  Set(Set(Set(salted, "kdf_algorithm"), "hmac_algorithm"), "plaintext_header_size")

-----------------------------------------------------------------------------
(* Allocation                                                              *)

\* The parameters that allocating a cipher reads.  SQLCipher reads the
\* plain-text header size only from version 4 on.
ReadParams(table, c) ==
    DOMAIN ParamTable[c]
      \ (IF c = "sqlcipher" /\ table.params[c].legacy.value < 4
         THEN {"plaintext_header_size"} ELSE {})

\* Get...Parameter: the parameters in ps go back to their defaults.
ResetParams(table, c, ps) ==
    [table EXCEPT !.params[c] =
        [p \in DOMAIN @ |->
            [value   |-> IF p \in ps THEN @[p].default ELSE @[p].value,
             default |-> @[p].default]]]

\* The table after sqlite3mcGetCipherType, CodecSetup or SetupWriteCipher
\* and the allocation of the cipher have read what they need.
Consume(table) ==
    LET c == table.cipher.value
        t == [table EXCEPT !.cipher.value = table.cipher.default]
    IN  ResetParams(ResetParams(t, c, ReadParams(table, c)),
                    "global", DOMAIN ParamTable.global)

\* The cipher allocated from the table.
Allocate(table) ==
    LET c == table.cipher.value
        v == [p \in DOMAIN ParamTable[c] |->
                IF p \in ReadParams(table, c) THEN table.params[c][p].value ELSE 0]
    IN  [cipher |-> c,
         params |-> IF c = "chacha20" /\ v.legacy # 0
                    THEN [v EXCEPT !.kdf_iter = 12345] ELSE v]

-----------------------------------------------------------------------------
(* What an allocated cipher does to a file                                 *)

Legacy(alloc) ==
    IF alloc.cipher = "ascon128" THEN 0 ELSE alloc.params.legacy

\* GetPageSize: 0 unless the cipher is in a legacy mode with a page size.
PageSizeOf(alloc) ==
    IF Legacy(alloc) # 0 /\ IsPageSize(alloc.params.legacy_page_size)
    THEN alloc.params.legacy_page_size ELSE 0

Authenticated(alloc) ==
    \/ alloc.cipher \in {"chacha20", "ascon128"}
    \/ alloc.cipher = "sqlcipher" /\ alloc.params.hmac_use = 1

\* The part of an allocated cipher that the bytes of a page depend on: the
\* page size is a property of the file, AES-256 derives its key with a fixed
\* number of iterations, and without an HMAC the HMAC parameters are unused.
Scheme(alloc) ==
    LET unused == {"legacy", "legacy_page_size"}
                  \cup (IF alloc.cipher = "aes256cbc" THEN {"kdf_iter"} ELSE {})
                  \cup (IF alloc.cipher = "sqlcipher" /\ alloc.params.hmac_use = 0
                        THEN {"fast_kdf_iter", "hmac_pgno", "hmac_salt_mask",
                              "hmac_algorithm", "hmac_algorithm_compat"}
                        ELSE {})
    IN  [cipher |-> alloc.cipher,
         legacy |-> Legacy(alloc) # 0,
         params |-> Restrict(alloc.params, DOMAIN alloc.params \ unused)]

=============================================================================
