------------------------------- MODULE ConfigBuilder -------------------------------
(***************************************************************************)
(* The configuration DSL: FilesystemConfig.Builder with its encryption and *)
(* encryptionMigrations blocks, EncryptionConfig.Builder, the builders of  *)
(* the six ciphers and what they check.  The application calls the         *)
(* builders' functions in any order the DSL admits, builds, and may go on  *)
(* from what it built (FilesystemConfig.new).                              *)
(*                                                                         *)
(* A nullable value is a set with at most one element.  "asked" is history: *)
(* what the application asked for, whatever the builders made of it.       *)
(***************************************************************************)
EXTENDS MCCipherConfig, MCCodec

\* What an application may call: records with the fields
\*   presets     configurations that an Options function starts from
\*   inherited   configurations passed as "other"
\*   setters     << parameter, {value} >>, or << parameter, {} >> for null
\*   calls       bounds: [setters, selections, blocks]
CONSTANT Applications

ASSUME BoundsAssumption ==
    \A a \in Applications : a.calls \in [{"setters", "selections", "blocks"} -> Nat]

VARIABLES
    app,        \* the application
    scope,      \* the innermost open block
    fs,         \* FilesystemConfig.Builder: [encryption, migrations]
    migrations, \* EncryptionMigrationConfig.Builder.migrations, in insertion order
    enc,        \* EncryptionConfig.Builder: [cipherConfig, hmacCheck, mcLegacyWAL]
    cipher,     \* a cipher's Builder: [config, outer, assigns]
    built,      \* the FilesystemConfig, once there is one
    asked,      \* [selected, encryption, declared]
    verdict,    \* the last call of a setter: [cipher, param, value, accepted]
    left        \* calls left: [setters, selections, blocks]

vars == << app, scope, fs, migrations, enc, cipher, built, asked, verdict, left >>

-----------------------------------------------------------------------------
(* The builders of the ciphers                                             *)

\* Mutation: only the range of a page size is checked.
CheckLegacyPageSizeRangeOnly(n) == n = 0 \/ n \in 512 .. MAX_PAGE_SIZE

CheckLegacyPageSize(n) ==
    n = 0 \/ (n \in 512 .. MAX_PAGE_SIZE /\ MAX_PAGE_SIZE % n = 0)

CheckKdfIter(n) == n > 0

\* The require calls of a setter.
Requires(c, p, n) ==
    CASE p = "legacy" -> n \in 0 .. (IF c = "sqlcipher" THEN 4 ELSE 1)
      [] p = "legacy_page_size" -> CheckLegacyPageSize(n)
      [] p \in {"kdf_iter", "fast_kdf_iter"} -> CheckKdfIter(n)
      [] p = "hmac_salt_mask" -> n >= 0
      [] p = "plaintext_header_size" -> n \in 0 .. 100 /\ n % 16 = 0
      [] OTHER -> TRUE

\* The parameters a builder has setters for; RC4 and Ascon fix legacy.
SettableOf(c) ==
    DOMAIN DefaultFor([cipher |-> c, params |-> [legacy |-> 0]]).params
        \ (IF c \in {"rc4", "ascon128"} THEN {"legacy"} ELSE {})

Nullable == {"hmac_pgno", "hmac_salt_mask", "plaintext_header_size"}

\* The values of the Kotlin type of a setter's argument: a Boolean, an ordinal,
\* a Byte or an Int.
IsValueOf(p, n) ==
    /\ n \in -MAX_INT - 1 .. MAX_INT
    /\ p = "hmac_use" => n \in 0 .. 1
    /\ p \in {"hmac_pgno", "kdf_algorithm", "hmac_algorithm"} => n \in 0 .. 2
    /\ p = "hmac_salt_mask" => n \in -128 .. 127

\* A configuration as the builders make it: null only where a field may be, and
\* every value the one that was fixed or one that a setter accepts.
IsConfiguration(config) ==
    \E c \in Ciphers : \E Q \in SUBSET (SettableOf(c) \cup {"legacy"}) :
        /\ config \in [cipher : {c}, params : [Q -> Int]]
        /\ (SettableOf(c) \cup {"legacy"}) \ Nullable \subseteq Q
        /\ \A p \in Q \cap SettableOf(c) :
              IsValueOf(p, config.params[p]) /\ Requires(c, p, config.params[p])
        /\ \A p \in Q \ SettableOf(c) : config.params[p] = DefaultFor(config).params[p]

ASSUME ApplicationAssumption ==
    \A a \in Applications :
        /\ \A config \in a.presets \cup a.inherited : IsConfiguration(config)
        /\ \A s \in a.setters :
              \A m, n \in s[2] : IsValueOf(s[1], n) /\ m = n

SetField(config, p, value) ==
    [config EXCEPT !.params =
        IF value = {} THEN Restrict(@, DOMAIN @ \ {p})
        ELSE Over([q \in {p} |-> CHOOSE n \in value : TRUE], @)]

\* The fields of the SQLCipher version that are null whatever was set.
NullIn(legacy) ==
    (IF legacy = 1 THEN {"hmac_pgno", "hmac_salt_mask"} ELSE {})
    \cup (IF legacy \in 1 .. 3 THEN {"plaintext_header_size"} ELSE {})

\* build(): SQLCipher's nullable fields fall back to their defaults.
BuildCipher(config) ==
    IF config.cipher # "sqlcipher" THEN config
    ELSE LET full == Over(config.params,
                          [hmac_pgno |-> 1, hmac_salt_mask |-> 58,
                           plaintext_header_size |-> 0])
         IN  [config EXCEPT !.params =
                Restrict(full, DOMAIN full \ NullIn(full.legacy))]

-----------------------------------------------------------------------------
NewEncryption == [cipherConfig |-> {}, hmacCheck |-> TRUE, mcLegacyWAL |-> FALSE]
NoCipher == [config |-> ChaCha20Default, outer |-> "none", assigns |-> FALSE]

\* EncryptionConfig.Builder.build: nothing without a cipher.
BuildEncryption(e) == {[e EXCEPT !.cipherConfig = c] : c \in e.cipherConfig}

EncryptionDefault == [NewEncryption EXCEPT !.cipherConfig = ChaCha20Default]

Init ==
    /\ scope = "filesystem"
    /\ fs = [encryption |-> {}, migrations |-> {}]
    /\ migrations = << >>
    /\ enc = NewEncryption
    /\ cipher = NoCipher
    /\ built = {}
    /\ asked = [selected |-> {}, encryption |-> {}, declared |-> << >>]
    /\ verdict = {}
    /\ app \in Applications
    /\ left = app.calls

\* A block opens with a fresh EncryptionConfig.Builder.
OpenBlock(from, to) ==
    /\ scope = from /\ left.blocks > 0
    /\ scope' = to
    /\ left' = [left EXCEPT !.blocks = @ - 1]
    /\ enc' = NewEncryption
    /\ UNCHANGED << fs, cipher, built, verdict >>

\* encryption { ... }
OpenEncryption ==
    /\ OpenBlock("filesystem", "encryption")
    /\ asked' = [asked EXCEPT !.selected = {}]
    /\ UNCHANGED migrations

\* encryptionMigrations { ... }: the second one replaces the first.
OpenMigrations ==
    /\ OpenBlock("filesystem", "migrations")
    /\ migrations' = << >>
    /\ asked' = [asked EXCEPT !.declared = << >>]

\* migrationFrom { ... }
OpenMigration ==
    /\ OpenBlock("migrations", "migration")
    /\ asked' = [asked EXCEPT !.selected = {}]
    /\ UNCHANGED migrations

\* A cipher's builder starts from config.
OpenCipher(config, assigns) ==
    /\ scope \in {"encryption", "migration"} /\ left.selections > 0
    /\ scope' = "cipher"
    /\ cipher' = [config |-> config, outer |-> scope, assigns |-> assigns]
    /\ left' = [left EXCEPT !.selections = @ - 1]
    /\ UNCHANGED << fs, migrations, enc, built, asked, verdict >>

\* chaCha20 { default { ... } } and the other Options functions.
SelectPreset == \E config \in app.presets : OpenCipher(config, TRUE)

\* Mutation: rc4(other) forgets the configuration it built, too.
SelectInheritedNotRC4 ==
    \E config \in app.inherited :
        OpenCipher(config, config.cipher \notin {"ascon128", "rc4"})

\* chaCha20(other) { ... }: what ascon128(other) builds is not kept.
SelectInherited ==
    \E config \in app.inherited : OpenCipher(config, config.cipher # "ascon128")

\* Mutation: the setter of one builder is there in all of them.
SetParamOfAny ==
    \E s \in app.setters :
        /\ scope = "cipher" /\ left.setters > 0
        /\ s[2] = {} => s[1] \in Nullable
        /\ \A n \in s[2] : Requires(cipher.config.cipher, s[1], n)
        /\ cipher' = [cipher EXCEPT !.config = SetField(@, s[1], s[2])]
        /\ verdict' = {[cipher |-> cipher.config.cipher, param |-> s[1],
                        value |-> s[2], accepted |-> TRUE]}
        /\ left' = [left EXCEPT !.setters = @ - 1]
        /\ UNCHANGED << scope, fs, migrations, enc, built, asked >>

\* A setter that passes its checks.
SetParam ==
    \E s \in app.setters :
        /\ scope = "cipher" /\ left.setters > 0
        /\ s[1] \in SettableOf(cipher.config.cipher)
        /\ s[2] = {} => s[1] \in Nullable
        /\ \A n \in s[2] : Requires(cipher.config.cipher, s[1], n)
        /\ cipher' = [cipher EXCEPT !.config = SetField(@, s[1], s[2])]
        /\ verdict' = {[cipher |-> cipher.config.cipher, param |-> s[1],
                        value |-> s[2], accepted |-> TRUE]}
        /\ left' = [left EXCEPT !.setters = @ - 1]
        /\ UNCHANGED << scope, fs, migrations, enc, built, asked >>

\* A setter that throws IllegalArgumentException, out of the whole DSL.
RejectParam ==
    \E s \in app.setters :
        /\ scope = "cipher" /\ left.setters > 0
        /\ s[1] \in SettableOf(cipher.config.cipher)
        /\ \E n \in s[2] : ~Requires(cipher.config.cipher, s[1], n)
        /\ verdict' = {[cipher |-> cipher.config.cipher, param |-> s[1],
                        value |-> s[2], accepted |-> FALSE]}
        /\ scope' = "rejected"
        /\ UNCHANGED << fs, migrations, enc, cipher, built, asked, left >>

\* default(), v1(), sqleet(), ... inside the builder set every field.
ResetFields ==
    /\ scope = "cipher" /\ left.setters > 0
    /\ \E config \in app.presets :
         /\ config.cipher = cipher.config.cipher
         /\ cipher' = [cipher EXCEPT !.config = config]
    /\ left' = [left EXCEPT !.setters = @ - 1]
    /\ UNCHANGED << scope, fs, migrations, enc, built, asked, verdict >>

\* The cipher's block ends: build() and setCipher or the assignment.
CloseCipher ==
    /\ scope = "cipher"
    /\ LET config == BuildCipher(cipher.config)
       IN  /\ enc' = [enc EXCEPT !.cipherConfig =
                         IF cipher.assigns THEN {config} ELSE @]
           /\ asked' = [asked EXCEPT !.selected = {config}]
    /\ scope' = cipher.outer
    /\ cipher' = NoCipher
    /\ UNCHANGED << fs, migrations, built, verdict, left >>

\* hmacCheck(value), mcLegacyWAL(value)
SetSwitches ==
    /\ scope \in {"encryption", "migration"} /\ left.selections > 0
    /\ \E h, w \in BOOLEAN : enc' = [enc EXCEPT !.hmacCheck = h, !.mcLegacyWAL = w]
    /\ left' = [left EXCEPT !.selections = @ - 1]
    /\ UNCHANGED << scope, fs, migrations, cipher, built, asked, verdict >>

CloseEncryption ==
    /\ scope = "encryption"
    /\ fs' = [fs EXCEPT !.encryption = BuildEncryption(enc)]
    /\ asked' = [asked EXCEPT !.encryption = asked.selected]
    /\ scope' = "filesystem"
    /\ UNCHANGED << migrations, enc, cipher, built, verdict, left >>

\* equals of EncryptionMigration (the note does not count), EncryptionConfig
\* and MCCipherConfig.
SameMigration(m, n) ==
    /\ m.hmacCheck = n.hmacCheck /\ m.mcLegacyWAL = n.mcLegacyWAL
    /\ m.cipherConfig.cipher = n.cipherConfig.cipher
    /\ m.cipherConfig.params = n.cipherConfig.params

\* Mutation: an equal migration that was there already moves to the end.
CloseMigrationToEnd ==
    /\ scope = "migration"
    /\ \/ \E m \in BuildEncryption(enc) :
            /\ migrations' = Append(SelectSeq(migrations, LAMBDA n : ~SameMigration(n, m)), m)
            /\ asked' = [asked EXCEPT !.declared = Append(@, m)]
       \/ BuildEncryption(enc) = {} /\ UNCHANGED << migrations, asked >>
    /\ scope' = "migrations"
    /\ UNCHANGED << fs, enc, cipher, built, verdict, left >>

\* buildMigration, and add to the insertion-ordered set.
CloseMigration ==
    /\ scope = "migration"
    /\ \/ \E m \in BuildEncryption(enc) :
            /\ migrations' = IF \E i \in DOMAIN migrations : SameMigration(migrations[i], m)
                             THEN migrations
                             ELSE Append(migrations, m)
            /\ asked' = [asked EXCEPT !.declared = Append(@, m)]
       \/ BuildEncryption(enc) = {} /\ UNCHANGED << migrations, asked >>
    /\ scope' = "migrations"
    /\ UNCHANGED << fs, enc, cipher, built, verdict, left >>

\* Without a migration the config is null.
CloseMigrations ==
    /\ scope = "migrations"
    /\ fs' = [fs EXCEPT !.migrations =
                 IF migrations = << >> THEN {} ELSE {migrations}]
    /\ scope' = "filesystem"
    /\ UNCHANGED << migrations, enc, cipher, built, asked, verdict, left >>

\* encryption(null) and encryptionMigrations(null)
RemoveEncryption ==
    /\ scope = "filesystem" /\ left.blocks > 0
    /\ fs' = [fs EXCEPT !.encryption = {}]
    /\ asked' = [asked EXCEPT !.encryption = {}]
    /\ left' = [left EXCEPT !.blocks = @ - 1]
    /\ UNCHANGED << scope, migrations, enc, cipher, built, verdict >>

RemoveMigrations ==
    /\ scope = "filesystem" /\ left.blocks > 0
    /\ fs' = [fs EXCEPT !.migrations = {}]
    /\ asked' = [asked EXCEPT !.declared = << >>]
    /\ left' = [left EXCEPT !.blocks = @ - 1]
    /\ UNCHANGED << scope, migrations, enc, cipher, built, verdict >>

Build ==
    /\ scope = "filesystem"
    /\ built' = {[encryption |-> IF fs.encryption = {} THEN {EncryptionDefault}
                                 ELSE fs.encryption,
                  migrations |-> fs.migrations]}
    /\ scope' = "built"
    /\ UNCHANGED << fs, migrations, enc, cipher, asked, verdict, left >>

\* FilesystemConfig.new { ... }: a builder that starts from what was built.
NewFromBuilt ==
    /\ scope = "built" /\ left.blocks > 0
    /\ \E b \in built : fs' = b
    /\ left' = [left EXCEPT !.blocks = @ - 1]
    /\ scope' = "filesystem"
    /\ UNCHANGED << migrations, enc, cipher, built, asked, verdict >>

Call ==
    \/ OpenEncryption \/ OpenMigrations \/ OpenMigration
    \/ SelectPreset \/ SelectInherited
    \/ SetParam \/ RejectParam \/ ResetFields \/ CloseCipher \/ SetSwitches
    \/ CloseEncryption \/ CloseMigration \/ CloseMigrations
    \/ RemoveEncryption \/ RemoveMigrations \/ Build \/ NewFromBuilt

Next == Call /\ UNCHANGED app

Spec == Init /\ [][Next]_vars

-----------------------------------------------------------------------------
(* Properties                                                              *)

\* Every parameter of a configuration under construction is one of its cipher.
TypeOK ==
    /\ scope \in {"filesystem", "encryption", "migrations", "migration",
                  "cipher", "built", "rejected"}
    /\ cipher.config.cipher \in Ciphers
    /\ DOMAIN cipher.config.params \subseteq
          SettableOf(cipher.config.cipher) \cup {"legacy"}

\* The EncryptionConfigs of the FilesystemConfig that was built.
BuiltConfigs ==
    UNION {b.encryption \cup UNION {ToSet(ms) : ms \in b.migrations} : b \in built}

\* The cipher selected last is the one in effect (EncryptionConfig.kt: "Will
\* override all above configs as it comes last").
LastSelectionWins ==
    scope = "built" =>
        \A b \in built, config \in asked.encryption :
            \E e \in b.encryption : e.cipherConfig = config

\* The migrations are those declared, each once, in the order in which they
\* were first declared: createActual walks through them backwards, from the
\* newest to the oldest.
MigrationsAsDeclared ==
    scope = "built" =>
        \A ms \in UNION {b.migrations : b \in built} :
            /\ ToSet(ms) = ToSet(asked.declared)
            /\ IsInjective(ms)
            /\ \A i, j \in DOMAIN ms : i < j =>
                 \E k \in DOMAIN asked.declared :
                    /\ asked.declared[k] = ms[i]
                    /\ \A l \in 1 .. k : asked.declared[l] # ms[j]

\* A setter refuses exactly the values that sqlite3mc would silently ignore:
\* no value passes the builder and is then dropped by sqlite3mc_config_cipher,
\* which would open the file with the default in its place.
BoundsAgree ==
    \A v \in verdict : \A n \in v.value :
        v.accepted <=> AcceptsValue(v.cipher, v.param, n)

\* Parameters that a cipher does not read or overrides: sqleet's iteration
\* count is fixed and SQLCipher has a plain-text header from version 4 on only.
WithoutEffect(config) ==
    CASE config.cipher = "chacha20" /\ config.params.legacy # 0 -> {"kdf_iter"}
      [] config.cipher = "sqlcipher" /\ config.params.legacy # 4 ->
            {"plaintext_header_size"}
      [] config.cipher = "ascon128" -> {"legacy"}
      [] OTHER -> {}

\* A new connection that executes the statements of a built configuration
\* derives its key and its pages with exactly the parameters configured,
\* although the statements name only what differs from a predefined version.
ConfigTakesEffect ==
    \A e \in BuiltConfigs :
        LET config == e.cipherConfig
            used   == Allocate(ConfigureAll(CloneTable, "main", ApplyPragmas(e)))
        IN  /\ used.cipher = config.cipher
            /\ \A p \in DOMAIN config.params \ WithoutEffect(config) :
                   used.params[p] = config.params[p]
=============================================================================
