----------------------------- MODULE CipherConfigProofs -----------------------------
(***************************************************************************)
(* What the configuration statements of the driver do to the parameter     *)
(* table of a connection, for every cipher configuration.                  *)
(*                                                                         *)
(* Settled(config, k, base) is the closed form: the values of the          *)
(* parameters of the cipher of config after the first k pragmas, in the    *)
(* order of MCPragma.ALL, were executed on a table that held base.         *)
(***************************************************************************)
EXTENDS MCCipherConfig, MCCodec, SequenceTheorems, TLAPS

\* The integer pragmas in the order of MCPragma.ALL.
Names ==
    << "hmac_check", "mc_legacy_wal", "legacy", "legacy_page_size", "kdf_iter",
       "fast_kdf_iter", "hmac_use", "hmac_pgno", "hmac_salt_mask",
       "kdf_algorithm", "hmac_algorithm", "plaintext_header_size" >>

Told(k) == {Names[i] : i \in 1 .. k}

SwitchNames == {"hmac_check", "mc_legacy_wal"}

Params(c) == DOMAIN ParamTable[c]

\* The value and the default of one parameter.
Val(t, c, p) == t.params[c][p].value
Default(t, c, p) == t.params[c][p].default

\* A parameter table of the shape that sqlite3mcCloneCodecParameterTable makes.
IsTable(t) ==
    /\ t = [cipher |-> t.cipher, params |-> t.params]
    /\ t.cipher \in [value : Ciphers, default : Ciphers]
    /\ t.params = [c \in DOMAIN ParamTable |-> t.params[c]]
    /\ \A c \in DOMAIN ParamTable :
          t.params[c] \in [Params(c) -> [value : Int, default : Int]]

\* The values and the defaults of the parameters of a cipher.
Values(t, c) == [p \in Params(c) |-> Val(t, c, p)]
Defaults(t, c) == [p \in Params(c) |-> Default(t, c, p)]
BuiltIn(c) == [p \in Params(c) |-> ParamTable[c][p].default]

\* A cipher configuration and an EncryptionConfig as the builders make them.
IsConfig(config) ==
    /\ config.cipher \in Ciphers
    /\ DOMAIN config.params \subseteq Params(config.cipher) \cup {"legacy"}
    /\ \A p \in DOMAIN config.params : config.params[p] \in Int

IsEncryption(enc) ==
    /\ IsConfig(enc.cipherConfig)
    /\ enc.hmacCheck \in BOOLEAN
    /\ enc.mcLegacyWAL \in BOOLEAN

\* The parameters that become pragmas.
Kept(config) == {p \in DOMAIN config.params : p = "legacy" \/ Differs(config, p)}

\* The parameters that PRAGMA legacy sets along with it, and to what.
VersionNames ==
    {"legacy_page_size", "kdf_iter", "hmac_use", "kdf_algorithm", "hmac_algorithm"}

VersionValue(v, p) ==
    IF p = "legacy_page_size" THEN VersionParams[v][1][2]
    ELSE IF p = "kdf_iter" THEN VersionParams[v][2][2]
    ELSE IF p = "hmac_use" THEN VersionParams[v][3][2]
    ELSE IF p = "kdf_algorithm" THEN VersionParams[v][4][2]
    ELSE VersionParams[v][5][2]

Versioned(config) ==
    /\ config.cipher = "sqlcipher"
    /\ "legacy" \in DOMAIN config.params
    /\ config.params.legacy \in 1 .. 4

Settled(config, k, base) ==
    [p \in Params(config.cipher) |->
        IF p \in Told(k) \cap Kept(config)
           /\ AcceptsValue(config.cipher, p, config.params[p])
        THEN config.params[p]
        ELSE IF k >= 3 /\ Versioned(config) /\ p \in VersionNames
        THEN VersionValue(config.params.legacy, p)
        ELSE base[p]]

\* A table on which the first k statements of enc were executed, from vals and
\* defs: a statement that is qualified temp. leaves the defaults alone.
Configuring(t, scope, enc, k, vals, defs) ==
    LET cfg == enc.cipherConfig
        c   == cfg.cipher
    IN  /\ IsTable(t)
        /\ t.cipher.value = c
        /\ scope = "main" => t.cipher.default = c
        /\ \A p \in Params(c) :
              /\ Val(t, c, p) = Settled(cfg, k, vals)[p]
              /\ Default(t, c, p) = IF scope = "main" THEN Settled(cfg, k, defs)[p]
                                    ELSE defs[p]

\* The parameters of the ciphers other than c are in u what they were in t.
SameElsewhere(t, u, c) ==
    \A d \in Ciphers \ {c} : \A q \in Params(d) :
        Val(u, d, q) = Val(t, d, q) /\ Default(u, d, q) = Default(t, d, q)

\* The two switches have their built-in defaults, whatever their values.
SwitchDefaults(t) ==
    /\ Default(t, "global", "hmac_check") = 1
    /\ Default(t, "global", "mc_legacy_wal") = 0

\* After k statements of enc the switches are what enc says, as far as it got.
Switched(t, enc, k) ==
    /\ Val(t, "global", "hmac_check") = IF k >= 1 /\ ~enc.hmacCheck THEN 0 ELSE 1
    /\ Val(t, "global", "mc_legacy_wal") = IF k >= 2 /\ enc.mcLegacyWAL THEN 1 ELSE 0

\* The statements of ints that follow the first k pragmas, and then rest.
Next1(scope, ints, k, i, rest) ==
    IF k < i /\ Names[i] \in DOMAIN ints
    THEN << ParamStmt(scope, Names[i], ints[Names[i]]) >> \o rest
    ELSE rest

Steps(scope, ints, k, rest) ==
    LET N(i, tail) == Next1(scope, ints, k, i, tail)
    IN  N(1, N(2, N(3, N(4, N(5, N(6, N(7, N(8, N(9, N(10, N(11, N(12, rest))))))))))))

-----------------------------------------------------------------------------
(* The built-in parameter tables                                           *)

\* The ciphers that sqlite3mc is built with.
LEMMA CipherNames ==
    /\ Ciphers = {"aes128cbc", "aes256cbc", "chacha20", "sqlcipher", "rc4", "ascon128"}
    /\ DOMAIN ParamTable = Ciphers \cup {"global"}
    /\ "global" \notin Ciphers
<1>1. DOMAIN ParamTable = {"global", "aes128cbc", "aes256cbc", "chacha20",
                           "sqlcipher", "rc4", "ascon128"}
    BY DEF ParamTable
<1> QED  BY <1>1 DEF Ciphers

\* The parameters that belong to no cipher are the two switches.
LEMMA GlobalParams == Params("global") = SwitchNames
BY SMT DEF Params, SwitchNames, ParamTable, Range3

\* No parameter of a cipher has the name of a switch, and each has an
\* integer default.
LEMMA CipherParams ==
    ASSUME NEW c \in Ciphers
    PROVE  /\ Params(c) \cap SwitchNames = {}
           /\ \A p \in Params(c) : ParamTable[c][p].default \in Int
<1> USE DEF Params, SwitchNames, ParamTable, Range3, MAX_INT, MAX_PAGE_SIZE
<1>1. CASE c = "aes128cbc"
  BY <1>1, SMT
<1>2. CASE c = "aes256cbc"
  BY <1>2, SMT
<1>3. CASE c = "chacha20"
  BY <1>3, SMT
<1>4. CASE c = "sqlcipher"
  BY <1>4, SMT
<1>5. CASE c = "rc4"
  BY <1>5, SMT
<1>6. CASE c = "ascon128"
  BY <1>6, SMT
<1> QED  BY CipherNames, <1>1, <1>2, <1>3, <1>4, <1>5, <1>6

\* The built-in values of the switches.
LEMMA GlobalDefaults ==
    /\ ParamTable["global"]["hmac_check"].default = 1
    /\ ParamTable["global"]["mc_legacy_wal"].default = 0
BY SMT DEF ParamTable, Range3

-----------------------------------------------------------------------------
(* SetParameter                                                            *)

\* sqlite3mc_config_cipher changes one parameter, if it accepts the value:
\* the value itself and, qualified main., its default.
LEMMA SetParameterEffect ==
    ASSUME NEW t, IsTable(t), NEW scope \in {"main", "temp"},
           NEW c \in DOMAIN ParamTable, NEW p, NEW v \in Int
    PROVE  LET u == SetParameter(t, scope, c, p, v)
           IN  /\ IsTable(u)
               /\ u.cipher = t.cipher
               /\ \A d \in DOMAIN ParamTable : \A q \in Params(d) :
                    /\ Val(u, d, q) = IF d = c /\ q = p /\ AcceptsValue(c, p, v)
                                      THEN v ELSE Val(t, d, q)
                    /\ Default(u, d, q) = IF d = c /\ q = p /\ AcceptsValue(c, p, v)
                                             /\ scope = "main"
                                          THEN v ELSE Default(t, d, q)
<1> DEFINE u == SetParameter(t, scope, c, p, v)
<1>1. CASE ~AcceptsValue(c, p, v)
  BY <1>1 DEF SetParameter
<1>2. CASE AcceptsValue(c, p, v)
  <2> DEFINE e == [value |-> v,
                   default |-> IF scope = "main" THEN v ELSE t.params[c][p].default]
  <2>1. p \in Params(c)
    BY <1>2 DEF AcceptsValue, Params
  <2>2. u = [t EXCEPT !.params[c][p] = e]
    BY <1>2 DEF SetParameter
  <2>3. t.params[c] \in [Params(c) -> [value : Int, default : Int]]
    BY DEF IsTable
  <2>4. e \in [value : Int, default : Int]
    BY <2>1, <2>3
  <2> HIDE DEF e
  <2> DEFINE f == [t.params EXCEPT ![c] = [@ EXCEPT ![p] = e]]
  <2>5. u = [cipher |-> t.cipher, params |-> f]
    BY <2>2 DEF IsTable
  <2>6. /\ f = [d \in DOMAIN ParamTable |-> f[d]]
        /\ \A d \in DOMAIN ParamTable : d # c => f[d] = t.params[d]
        /\ f[c] = [t.params[c] EXCEPT ![p] = e]
    BY DEF IsTable
  <2>7. /\ f[c] \in [Params(c) -> [value : Int, default : Int]]
        /\ \A q \in Params(c) : f[c][q] = IF q = p THEN e ELSE t.params[c][q]
    BY <2>1, <2>3, <2>4, <2>6
  <2> HIDE DEF f, u
  <2>8. IsTable(u)
    BY <2>5, <2>6, <2>7 DEF IsTable
  <2>9. e.value = v /\ e.default = IF scope = "main" THEN v ELSE Default(t, c, p)
    BY DEF e, Default
  <2>10. \A d \in DOMAIN ParamTable : \A q \in Params(d) :
            u.params[d][q] = IF d = c /\ q = p THEN e ELSE t.params[d][q]
    BY <2>5, <2>6, <2>7
  <2> QED  BY <1>2, <2>5, <2>8, <2>9, <2>10 DEF Val, Default, u
<1> QED  BY <1>1, <1>2

-----------------------------------------------------------------------------
(* PRAGMA legacy = 1 .. 4 of SQLCipher                                      *)

\* Every value of sqlite3mcConfigureSQLCipherVersion is in the range of its
\* parameter.
LEMMA VersionValuesAccepted ==
    /\ \A n \in {1024, 4096} : AcceptsValue("sqlcipher", "legacy_page_size", n)
    /\ \A n \in {4000, 64000, 256000} : AcceptsValue("sqlcipher", "kdf_iter", n)
    /\ \A n \in {0, 1} : AcceptsValue("sqlcipher", "hmac_use", n)
    /\ \A n \in {0, 2} : AcceptsValue("sqlcipher", "kdf_algorithm", n)
    /\ \A n \in {0, 2} : AcceptsValue("sqlcipher", "hmac_algorithm", n)
<1> DEFINE T == ParamTable["sqlcipher"]
<1>1. /\ T.legacy_page_size.min = 0 /\ T.legacy_page_size.max = 65536
      /\ T.kdf_iter.min = 1 /\ T.kdf_iter.max = 2147483647
      /\ T.hmac_use.min = 0 /\ T.hmac_use.max = 1
      /\ T.kdf_algorithm.min = 0 /\ T.kdf_algorithm.max = 2
      /\ T.hmac_algorithm.min = 0 /\ T.hmac_algorithm.max = 2
      /\ VersionNames \subseteq DOMAIN T
  BY SMT DEF ParamTable, Range3, MAX_INT, MAX_PAGE_SIZE, VersionNames
<1> HIDE DEF T
<1>2. \A p, n : AcceptsValue("sqlcipher", p, n) <=>
          /\ p \in DOMAIN T /\ n >= 0 /\ n \in T[p].min .. T[p].max
          /\ CheckParameterValue("sqlcipher", p, n)
  BY DEF AcceptsValue, T
<1>3. \A n : IsPageSize(n) => CheckParameterValue("sqlcipher", "legacy_page_size", n)
  BY DEF CheckParameterValue
<1>4. \A n : \A p \in VersionNames \ {"legacy_page_size"} :
          CheckParameterValue("sqlcipher", p, n)
  BY DEF CheckParameterValue, VersionNames
<1>5. IsPageSize(1024) /\ IsPageSize(4096)
  BY DEF IsPageSize
<1> QED  BY <1>1, <1>2, <1>3, <1>4, <1>5, SMT DEF VersionNames

\* So each of its five calls takes effect.
LEMMA VersionAccepted ==
    ASSUME NEW v \in 1 .. 4, NEW i \in 1 .. 5
    PROVE  /\ VersionParams[v][i][2] \in Int
           /\ VersionParams[v][i][1] =
                << "legacy_page_size", "kdf_iter", "hmac_use", "kdf_algorithm",
                   "hmac_algorithm" >>[i]
           /\ AcceptsValue("sqlcipher", VersionParams[v][i][1], VersionParams[v][i][2])
<1>1. CASE v = 1
  BY <1>1, VersionValuesAccepted, SMT DEF VersionParams
<1>2. CASE v = 2
  BY <1>2, VersionValuesAccepted, SMT DEF VersionParams
<1>3. CASE v = 3
  BY <1>3, VersionValuesAccepted, SMT DEF VersionParams
<1>4. CASE v = 4
  BY <1>4, VersionValuesAccepted, SMT DEF VersionParams
<1> QED  BY <1>1, <1>2, <1>3, <1>4

\* The four versions are values of legacy.
LEMMA LegacyAccepted ==
    ASSUME NEW v \in 1 .. 4
    PROVE  AcceptsValue("sqlcipher", "legacy", v)
BY SMT DEF AcceptsValue, ParamTable, Range3, CheckParameterValue

\* ConfigureSQLCipherVersion sets the five parameters and leaves the others.
LEMMA VersionEffect ==
    ASSUME NEW t, IsTable(t), NEW scope \in {"main", "temp"}, NEW v \in 1 .. 4
    PROVE  LET u == ConfigureSQLCipherVersion(t, scope, v)
           IN  /\ IsTable(u)
               /\ u.cipher = t.cipher
               /\ \A d \in DOMAIN ParamTable : \A q \in Params(d) :
                    /\ Val(u, d, q) = IF d = "sqlcipher" /\ q \in VersionNames
                                      THEN VersionValue(v, q) ELSE Val(t, d, q)
                    /\ Default(u, d, q) = IF d = "sqlcipher" /\ q \in VersionNames
                                             /\ scope = "main"
                                          THEN VersionValue(v, q) ELSE Default(t, d, q)
<1> DEFINE Set(w, i) == SetParameter(w, scope, "sqlcipher", VersionParams[v][i][1],
                                     VersionParams[v][i][2])
           t1 == Set(t, 1)
           t2 == Set(t1, 2)
           t3 == Set(t2, 3)
           t4 == Set(t3, 4)
           t5 == Set(t4, 5)
           Is(i) == << "legacy_page_size", "kdf_iter", "hmac_use", "kdf_algorithm",
                       "hmac_algorithm" >>[i]
           Changed(w, x, i) ==
              /\ IsTable(x)
              /\ x.cipher = w.cipher
              /\ \A d \in DOMAIN ParamTable : \A q \in Params(d) :
                   /\ Val(x, d, q) = IF d = "sqlcipher" /\ q = Is(i)
                                     THEN VersionParams[v][i][2] ELSE Val(w, d, q)
                   /\ Default(x, d, q) = IF d = "sqlcipher" /\ q = Is(i) /\ scope = "main"
                                         THEN VersionParams[v][i][2] ELSE Default(w, d, q)
<1>1. ASSUME NEW w, IsTable(w), NEW i \in 1 .. 5
      PROVE  Changed(w, Set(w, i), i)
  <2>1. "sqlcipher" \in DOMAIN ParamTable
    BY CipherNames
  <2>2. /\ VersionParams[v][i][2] \in Int
        /\ VersionParams[v][i][1] = Is(i)
        /\ AcceptsValue("sqlcipher", VersionParams[v][i][1], VersionParams[v][i][2])
    BY VersionAccepted
  <2> HIDE DEF Is
  <2> DEFINE p == VersionParams[v][i][1]
             n == VersionParams[v][i][2]
  <2> HIDE DEF p, n
  <2>3. p = Is(i) /\ n \in Int /\ AcceptsValue("sqlcipher", p, n)
    BY <2>2 DEF p, n
  <2>4. Changed(w, SetParameter(w, scope, "sqlcipher", p, n), i)
    <3>1. n = VersionParams[v][i][2]
      BY DEF n
    <3> QED  BY <1>1, <2>1, <2>3, <3>1, SetParameterEffect
  <2> QED  BY <2>4 DEF p, n
<1> HIDE DEF Set
<1>2. Changed(t, t1, 1) /\ Changed(t1, t2, 2) /\ Changed(t2, t3, 3)
      /\ Changed(t3, t4, 4) /\ Changed(t4, t5, 5)
  BY <1>1
<1>3. ConfigureSQLCipherVersion(t, scope, v) = t5
  BY DEF ConfigureSQLCipherVersion, Set
<1>4. /\ Is(1) = "legacy_page_size" /\ Is(2) = "kdf_iter" /\ Is(3) = "hmac_use"
      /\ Is(4) = "kdf_algorithm" /\ Is(5) = "hmac_algorithm"
  OBVIOUS
<1> HIDE DEF t1, t2, t3, t4, t5, Is
<1> QED  BY <1>2, <1>3, <1>4 DEF VersionNames, VersionValue

-----------------------------------------------------------------------------
(* One pragma                                                              *)

\* The effect of a pragma of the selected cipher.
LEMMA PragmaParamEffect ==
    ASSUME NEW t, IsTable(t), NEW scope \in {"main", "temp"},
           NEW n, n \notin SwitchNames, NEW v \in Int
    PROVE  LET u   == PragmaParam(t, scope, n, v)
               c   == t.cipher.value
               all == c = "sqlcipher" /\ n = "legacy" /\ v \in 1 .. 4
           IN  /\ IsTable(u)
               /\ u.cipher = t.cipher
               /\ \A d \in DOMAIN ParamTable : \A q \in Params(d) :
                    /\ Val(u, d, q) = IF d = c /\ q = n /\ AcceptsValue(c, n, v) THEN v
                                      ELSE IF d = c /\ all /\ q \in VersionNames
                                      THEN VersionValue(v, q) ELSE Val(t, d, q)
                    /\ Default(u, d, q) = IF scope # "main" THEN Default(t, d, q)
                                          ELSE IF d = c /\ q = n /\ AcceptsValue(c, n, v)
                                          THEN v
                                          ELSE IF d = c /\ all /\ q \in VersionNames
                                          THEN VersionValue(v, q) ELSE Default(t, d, q)
<1> DEFINE c   == t.cipher.value
           all == c = "sqlcipher" /\ n = "legacy" /\ v \in 1 .. 4
           w   == IF all THEN ConfigureSQLCipherVersion(t, scope, v) ELSE t
           u   == SetParameter(w, scope, c, n, v)
<1>1. PragmaParam(t, scope, n, v) = u
  <2>1. n \notin DOMAIN ParamTable.global
    BY GlobalParams DEF Params
  <2> QED  BY <2>1 DEF PragmaParam, ConfigCipher
<1>2. c \in Ciphers /\ c \in DOMAIN ParamTable
  BY CipherNames DEF IsTable
<1> HIDE DEF c, w
<1>3. /\ IsTable(w)
      /\ w.cipher = t.cipher
      /\ \A d \in DOMAIN ParamTable : \A q \in Params(d) :
           /\ Val(w, d, q) = IF d = c /\ all /\ q \in VersionNames
                             THEN VersionValue(v, q) ELSE Val(t, d, q)
           /\ Default(w, d, q) = IF scope # "main" THEN Default(t, d, q)
                                 ELSE IF d = c /\ all /\ q \in VersionNames
                                 THEN VersionValue(v, q) ELSE Default(t, d, q)
  <2>1. CASE all
    BY <2>1, VersionEffect DEF w
  <2>2. CASE ~all
    BY <2>2 DEF w
  <2> QED  BY <2>1, <2>2
<1> HIDE DEF all
<1>4. /\ IsTable(u)
      /\ u.cipher = w.cipher
      /\ \A d \in DOMAIN ParamTable : \A q \in Params(d) :
           /\ Val(u, d, q) = IF d = c /\ q = n /\ AcceptsValue(c, n, v)
                             THEN v ELSE Val(w, d, q)
           /\ Default(u, d, q) = IF d = c /\ q = n /\ AcceptsValue(c, n, v)
                                    /\ scope = "main"
                                 THEN v ELSE Default(w, d, q)
  BY <1>2, <1>3, SetParameterEffect
<1> HIDE DEF u
<1>5. /\ IsTable(u)
      /\ u.cipher = t.cipher
      /\ \A d \in DOMAIN ParamTable : \A q \in Params(d) :
           /\ Val(u, d, q) = IF d = c /\ q = n /\ AcceptsValue(c, n, v) THEN v
                             ELSE IF d = c /\ all /\ q \in VersionNames
                             THEN VersionValue(v, q) ELSE Val(t, d, q)
           /\ Default(u, d, q) = IF scope # "main" THEN Default(t, d, q)
                                 ELSE IF d = c /\ q = n /\ AcceptsValue(c, n, v)
                                 THEN v
                                 ELSE IF d = c /\ all /\ q \in VersionNames
                                 THEN VersionValue(v, q) ELSE Default(t, d, q)
  BY <1>3, <1>4
<1> QED  BY <1>1, <1>5 DEF c, all

\* The two switches are accepted, and never become the default.
LEMMA SwitchEffect ==
    ASSUME NEW t, IsTable(t), NEW scope, NEW n \in SwitchNames, NEW v \in {0, 1}
    PROVE  LET u == PragmaParam(t, scope, n, v)
           IN  /\ IsTable(u)
               /\ u.cipher = t.cipher
               /\ \A d \in DOMAIN ParamTable : \A q \in Params(d) :
                    /\ Val(u, d, q) = IF d = "global" /\ q = n THEN v ELSE Val(t, d, q)
                    /\ Default(u, d, q) = Default(t, d, q)
<1> DEFINE u == SetParameter(t, "temp", "global", n, v)
<1>1. PragmaParam(t, scope, n, v) = u
  BY GlobalParams DEF PragmaParam, Params
<1>2. AcceptsValue("global", n, v)
  BY SMT DEF AcceptsValue, SwitchNames, ParamTable, Range3, CheckParameterValue
<1>3. "global" \in DOMAIN ParamTable
  BY CipherNames
<1> HIDE DEF u
<1>4. /\ IsTable(u)
      /\ u.cipher = t.cipher
      /\ \A d \in DOMAIN ParamTable : \A q \in Params(d) :
           /\ Val(u, d, q) = IF d = "global" /\ q = n THEN v ELSE Val(t, d, q)
           /\ Default(u, d, q) = Default(t, d, q)
  BY <1>2, <1>3, SetParameterEffect DEF u
<1> QED  BY <1>1, <1>4

-----------------------------------------------------------------------------
(* The pragma map of a configuration                                       *)

\* The order of MCPragma.ALL: switches first, then legacy; no name occurs
\* twice.
LEMMA NamesInOrder ==
    /\ \A i \in 1 .. 12 : Names[i] \in SwitchNames <=> i <= 2
    /\ \A i \in 1 .. 12 : Names[i] = "legacy" <=> i = 3
    /\ Names[1] = "hmac_check" /\ Names[2] = "mc_legacy_wal" /\ Names[3] = "legacy"
    /\ \A i, j \in 1 .. 12 : Names[i] = Names[j] => i = j
BY SMT DEF Names, SwitchNames

\* One more pragma was executed.
LEMMA ToldNext ==
    ASSUME NEW k \in 0 .. 11
    PROVE  /\ Told(k + 1) = Told(k) \cup {Names[k + 1]}
           /\ Names[k + 1] \notin Told(k)
<1>1. 1 .. k + 1 = 1 .. k \cup {k + 1}
  OBVIOUS
<1> QED  BY <1>1, NamesInOrder DEF Told

\* What applyPragmas puts in the map: the kept parameters with their values,
\* and each switch if it differs from its default.
LEMMA PragmaMap ==
    ASSUME NEW enc, IsEncryption(enc)
    PROVE  LET ints == ApplyPragmas(enc).ints
               cfg  == enc.cipherConfig
           IN  /\ ApplyPragmas(enc).cipher = cfg.cipher
               /\ \A n : n \notin SwitchNames => (n \in DOMAIN ints <=> n \in Kept(cfg))
               /\ \A n \in Kept(cfg) : n \notin SwitchNames /\ ints[n] = cfg.params[n]
               /\ "hmac_check" \in DOMAIN ints <=> ~enc.hmacCheck
               /\ ~enc.hmacCheck => ints["hmac_check"] = 0
               /\ "mc_legacy_wal" \in DOMAIN ints <=> enc.mcLegacyWAL
               /\ enc.mcLegacyWAL => ints["mc_legacy_wal"] = 1
<1> DEFINE cfg == enc.cipherConfig
           own == Restrict(cfg.params, Kept(cfg))
           sw  == Switches(enc)
<1>1. ApplyPragmas(enc) = [cipher |-> cfg.cipher, ints |-> Over(sw, own)]
  BY DEF ApplyPragmas, Kept
<1>2. /\ DOMAIN own = Kept(cfg)
      /\ \A n \in Kept(cfg) : own[n] = cfg.params[n]
  BY DEF Restrict
<1>3. /\ DOMAIN sw \subseteq SwitchNames
      /\ "hmac_check" \in DOMAIN sw <=> ~enc.hmacCheck
      /\ "mc_legacy_wal" \in DOMAIN sw <=> enc.mcLegacyWAL
      /\ ~enc.hmacCheck => sw["hmac_check"] = 0
      /\ enc.mcLegacyWAL => sw["mc_legacy_wal"] = 1
  <2> DEFINE f == IF enc.hmacCheck THEN << >> ELSE [hmac_check |-> 0]
             g == IF enc.mcLegacyWAL THEN [mc_legacy_wal |-> 1] ELSE << >>
  <2>1. /\ DOMAIN sw = DOMAIN f \cup DOMAIN g
        /\ \A n \in DOMAIN f : sw[n] = f[n]
        /\ \A n \in DOMAIN g \ DOMAIN f : sw[n] = g[n]
    <3> HIDE DEF f, g
    <3>1. sw = Over(f, g)
      BY DEF Switches, f, g
    <3> HIDE DEF sw
    <3> QED  BY <3>1 DEF Over
  <2> HIDE DEF sw
  <2>2. CASE enc.hmacCheck /\ enc.mcLegacyWAL
    <3>1. DOMAIN f = {} /\ g = [mc_legacy_wal |-> 1] /\ DOMAIN g = {"mc_legacy_wal"}
      BY <2>2
    <3> QED  BY <2>1, <2>2, <3>1 DEF SwitchNames
  <2>3. CASE enc.hmacCheck /\ ~enc.mcLegacyWAL
    <3>1. DOMAIN f = {} /\ DOMAIN g = {}
      BY <2>3
    <3> QED  BY <2>1, <2>3, <3>1 DEF SwitchNames
  <2>4. CASE ~enc.hmacCheck /\ enc.mcLegacyWAL
    <3>1. /\ f = [hmac_check |-> 0] /\ DOMAIN f = {"hmac_check"}
          /\ g = [mc_legacy_wal |-> 1] /\ DOMAIN g = {"mc_legacy_wal"}
      BY <2>4
    <3> QED  BY <2>1, <2>4, <3>1 DEF SwitchNames
  <2>5. CASE ~enc.hmacCheck /\ ~enc.mcLegacyWAL
    <3>1. f = [hmac_check |-> 0] /\ DOMAIN f = {"hmac_check"} /\ DOMAIN g = {}
      BY <2>5
    <3> QED  BY <2>1, <2>5, <3>1 DEF SwitchNames
  <2> QED  BY <2>2, <2>3, <2>4, <2>5
<1>4. \A n \in Kept(cfg) : n \notin SwitchNames
  BY CipherParams DEF Kept, IsEncryption, IsConfig, SwitchNames
<1> HIDE DEF cfg, own, sw
<1>5. /\ DOMAIN Over(sw, own) = DOMAIN sw \cup DOMAIN own
      /\ \A n \in DOMAIN sw : Over(sw, own)[n] = sw[n]
      /\ \A n \in DOMAIN own \ DOMAIN sw : Over(sw, own)[n] = own[n]
  BY DEF Over
<1> DEFINE ints == Over(sw, own)
<1>6. \A n \in SwitchNames : /\ n \in DOMAIN ints <=> n \in DOMAIN sw
                             /\ n \in DOMAIN sw => ints[n] = sw[n]
  BY <1>2, <1>4, <1>5
<1>7. "hmac_check" \in SwitchNames /\ "mc_legacy_wal" \in SwitchNames
  BY DEF SwitchNames
<1>8. /\ \A n : n \notin SwitchNames => (n \in DOMAIN ints <=> n \in Kept(cfg))
      /\ \A n \in Kept(cfg) : n \notin SwitchNames /\ ints[n] = cfg.params[n]
  BY <1>2, <1>3, <1>4, <1>5
<1> HIDE DEF ints
<1>9. ApplyPragmas(enc).ints = ints /\ ApplyPragmas(enc).cipher = cfg.cipher
  BY <1>1 DEF ints
<1> HIDE DEF sw
<1> QED  BY <1>3, <1>6, <1>7, <1>8, <1>9 DEF cfg

-----------------------------------------------------------------------------
(* One statement of a configuration                                        *)

\* The closed form follows each pragma, whether there is a statement for it or not.
LEMMA SettledNext ==
    ASSUME NEW cfg, IsConfig(cfg), NEW k \in 0 .. 11, NEW base,
           NEW p \in Params(cfg.cipher)
    PROVE  LET c == cfg.cipher
               n == Names[k + 1]
               v == cfg.params[n]
           IN  Settled(cfg, k + 1, base)[p] =
                 IF n \in Kept(cfg) /\ p = n /\ AcceptsValue(c, n, v) THEN v
                 ELSE IF n = "legacy" /\ Versioned(cfg) /\ p \in VersionNames
                 THEN VersionValue(cfg.params.legacy, p)
                 ELSE Settled(cfg, k, base)[p]
<1> DEFINE n == Names[k + 1]
           Own(i) == p \in Told(i) \cap Kept(cfg)
                     /\ AcceptsValue(cfg.cipher, p, cfg.params[p])
           All(i) == i >= 3 /\ Versioned(cfg) /\ p \in VersionNames
<1>1. \A i \in 0 .. 12 : Settled(cfg, i, base)[p] =
          IF Own(i) THEN cfg.params[p]
          ELSE IF All(i) THEN VersionValue(cfg.params.legacy, p) ELSE base[p]
  BY DEF Settled
<1>2. Told(k + 1) = Told(k) \cup {n} /\ n \notin Told(k)
  BY ToldNext
<1>3. n = "legacy" <=> k = 2
  BY NamesInOrder
<1>4. Own(k + 1) <=> Own(k) \/ (n \in Kept(cfg) /\ p = n /\ AcceptsValue(cfg.cipher, n, cfg.params[n]))
  BY <1>2
<1>5. All(k + 1) <=> All(k) \/ (n = "legacy" /\ Versioned(cfg) /\ p \in VersionNames)
  BY <1>3
<1>6. n = "legacy" /\ p \in VersionNames => ~Own(k)
  <2>1. ASSUME n = "legacy" PROVE Told(k) = {"hmac_check", "mc_legacy_wal"}
    <3>1. k = 2 /\ 1 .. k = {1, 2}
      BY <2>1, <1>3
    <3> QED  BY <3>1, NamesInOrder DEF Told
  <2> QED  BY <2>1 DEF VersionNames
<1> HIDE DEF Own, All, n
<1>7. k \in 0 .. 12 /\ k + 1 \in 0 .. 12
  OBVIOUS
<1> QED  BY <1>1, <1>4, <1>5, <1>6, <1>7 DEF n, Own

\* One pragma more: if it is in the map its statement is executed, and the
\* table is that of k + 1 statements.
LEMMA ParamStep ==
    ASSUME NEW t, NEW scope \in {"main", "temp"}, NEW enc, IsEncryption(enc),
           NEW k \in 0 .. 11, NEW vals, NEW defs,
           Configuring(t, scope, enc, k, vals, defs)
    PROVE  LET u == ConfigureParam(t, scope, ApplyPragmas(enc).ints, Names[k + 1])
           IN  /\ Configuring(u, scope, enc, k + 1, vals, defs)
               /\ u.cipher = t.cipher
               /\ SameElsewhere(t, u, enc.cipherConfig.cipher)
               /\ SwitchDefaults(t) => SwitchDefaults(u)
               /\ Switched(t, enc, k) => Switched(u, enc, k + 1)
<1> DEFINE cfg  == enc.cipherConfig
           c    == cfg.cipher
           n    == Names[k + 1]
           ints == ApplyPragmas(enc).ints
           u    == ConfigureParam(t, scope, ints, n)
<1>1. IsConfig(cfg) /\ c \in Ciphers /\ c \in DOMAIN ParamTable /\ c # "global"
  BY CipherNames DEF IsEncryption, IsConfig
<1>2. /\ IsTable(t) /\ t.cipher.value = c
      /\ scope = "main" => t.cipher.default = c
      /\ \A p \in Params(c) :
            /\ Val(t, c, p) = Settled(cfg, k, vals)[p]
            /\ Default(t, c, p) = IF scope = "main" THEN Settled(cfg, k, defs)[p]
                                  ELSE defs[p]
  BY DEF Configuring
<1>3. \A base : \A p \in Params(c) :
          Settled(cfg, k + 1, base)[p] =
             IF n \in Kept(cfg) /\ p = n /\ AcceptsValue(c, n, cfg.params[n])
             THEN cfg.params[n]
             ELSE IF n = "legacy" /\ Versioned(cfg) /\ p \in VersionNames
             THEN VersionValue(cfg.params.legacy, p)
             ELSE Settled(cfg, k, base)[p]
  BY <1>1, SettledNext
<1>4. n = "legacy" /\ Versioned(cfg) => n \in Kept(cfg)
  BY DEF Versioned, Kept
<1> HIDE DEF n, ints
<1>5. /\ "global" \in DOMAIN ParamTable
      /\ "hmac_check" \in Params("global") /\ "mc_legacy_wal" \in Params("global")
  BY CipherNames, GlobalParams DEF SwitchNames
<1>6. CASE n \notin DOMAIN ints
  <2>1. u = t
    BY <1>6 DEF ConfigureParam
  <2>2. n \notin SwitchNames => n \notin Kept(cfg)
    BY <1>6, PragmaMap DEF ints
  <2>3. n \in SwitchNames => n \notin Params(c) /\ n # "legacy"
    BY <1>1, CipherParams DEF SwitchNames
  <2>4. \A base : \A p \in Params(c) :
            Settled(cfg, k + 1, base)[p] = Settled(cfg, k, base)[p]
    BY <1>3, <1>4, <2>2, <2>3
  <2>5. Configuring(u, scope, enc, k + 1, vals, defs)
    BY <1>2, <2>1, <2>4 DEF Configuring
  <2>6. Switched(t, enc, k) => Switched(t, enc, k + 1)
    <3>1. k = 0 => enc.hmacCheck
      BY <1>6, PragmaMap, NamesInOrder DEF ints, n
    <3>2. k = 1 => ~enc.mcLegacyWAL
      BY <1>6, PragmaMap, NamesInOrder DEF ints, n
    <3>3. CASE k = 0
      BY <3>1, <3>3 DEF Switched
    <3>4. CASE k = 1
      BY <3>2, <3>4 DEF Switched
    <3>5. CASE k >= 2
      BY <3>5 DEF Switched
    <3> QED  BY <3>3, <3>4, <3>5
  <2> QED  BY <2>1, <2>5, <2>6 DEF SameElsewhere, n, ints
<1>7. CASE n \in DOMAIN ints /\ n \in SwitchNames
  <2> DEFINE v == ints[n]
  <2>1. /\ v \in {0, 1}
        /\ n = "hmac_check" => ~enc.hmacCheck /\ v = 0 /\ k = 0
        /\ n = "mc_legacy_wal" => enc.mcLegacyWAL /\ v = 1 /\ k = 1
    <3>1. k <= 1 /\ (n = "hmac_check" <=> k = 0) /\ (n = "mc_legacy_wal" <=> k = 1)
      BY <1>7, NamesInOrder DEF n
    <3>2. n = "hmac_check" => ~enc.hmacCheck /\ v = 0
      BY <1>7, PragmaMap DEF ints
    <3>3. n = "mc_legacy_wal" => enc.mcLegacyWAL /\ v = 1
      BY <1>7, PragmaMap DEF ints
    <3> QED  BY <1>7, <3>1, <3>2, <3>3 DEF SwitchNames
  <2> HIDE DEF v
  <2>2. u = PragmaParam(t, scope, n, v)
    BY <1>7 DEF ConfigureParam, v
  <2> HIDE DEF u
  <2>3. /\ IsTable(u)
        /\ u.cipher = t.cipher
        /\ \A d \in DOMAIN ParamTable : \A q \in Params(d) :
             /\ Val(u, d, q) = IF d = "global" /\ q = n THEN v ELSE Val(t, d, q)
             /\ Default(u, d, q) = Default(t, d, q)
    BY <1>2, <1>7, <2>1, <2>2, SwitchEffect
  <2>4. \A base : \A p \in Params(c) :
            Settled(cfg, k + 1, base)[p] = Settled(cfg, k, base)[p]
    BY <1>1, <1>3, <1>7, CipherParams DEF SwitchNames
  <2>5. Configuring(u, scope, enc, k + 1, vals, defs)
    BY <1>1, <1>2, <2>3, <2>4 DEF Configuring
  <2>6. SameElsewhere(t, u, c)
    BY <2>3, CipherNames DEF SameElsewhere
  <2>7. SwitchDefaults(t) => SwitchDefaults(u)
    BY <1>5, <2>3 DEF SwitchDefaults
  <2>8. Switched(t, enc, k) => Switched(u, enc, k + 1)
    <3>1. CASE n = "hmac_check"
      <4>1. /\ Val(u, "global", "hmac_check") = 0
            /\ Val(u, "global", "mc_legacy_wal") = Val(t, "global", "mc_legacy_wal")
        BY <1>5, <2>1, <2>3, <3>1
      <4> QED  BY <2>1, <3>1, <4>1 DEF Switched
    <3>2. CASE n = "mc_legacy_wal"
      <4>1. /\ Val(u, "global", "mc_legacy_wal") = 1
            /\ Val(u, "global", "hmac_check") = Val(t, "global", "hmac_check")
        BY <1>5, <2>1, <2>3, <3>2
      <4> QED  BY <2>1, <3>2, <4>1 DEF Switched
    <3> QED  BY <1>7, <3>1, <3>2 DEF SwitchNames
  <2> QED  BY <2>3, <2>5, <2>6, <2>7, <2>8 DEF u, n, ints
<1>8. CASE n \in DOMAIN ints /\ n \notin SwitchNames
  <2> DEFINE v == cfg.params[n]
  <2>1. n \in Kept(cfg) /\ ints[n] = v /\ v \in Int
    <3>1. n \in Kept(cfg) /\ ints[n] = v
      BY <1>8, PragmaMap DEF ints
    <3> QED  BY <1>1, <3>1 DEF IsConfig, Kept
  <2>2. Versioned(cfg) /\ n = "legacy" <=> c = "sqlcipher" /\ n = "legacy" /\ v \in 1 .. 4
    BY <2>1 DEF Versioned, Kept
  <2> HIDE DEF v
  <2>3. u = PragmaParam(t, scope, n, v)
    BY <1>8, <2>1 DEF ConfigureParam
  <2> HIDE DEF u
  <2>4. /\ IsTable(u)
        /\ u.cipher = t.cipher
        /\ \A d \in DOMAIN ParamTable : \A q \in Params(d) :
             /\ Val(u, d, q) = IF d = c /\ q = n /\ AcceptsValue(c, n, v) THEN v
                               ELSE IF d = c /\ Versioned(cfg) /\ n = "legacy" /\ q \in VersionNames
                               THEN VersionValue(v, q) ELSE Val(t, d, q)
             /\ Default(u, d, q) = IF scope # "main" THEN Default(t, d, q)
                                   ELSE IF d = c /\ q = n /\ AcceptsValue(c, n, v)
                                   THEN v
                                   ELSE IF d = c /\ Versioned(cfg) /\ n = "legacy" /\ q \in VersionNames
                                   THEN VersionValue(v, q) ELSE Default(t, d, q)
    BY <1>2, <1>8, <2>1, <2>2, <2>3, PragmaParamEffect
  <2>5. n = "legacy" => v = cfg.params.legacy
    BY DEF v
  <2>6. /\ \A p \in Params(c) : Val(u, c, p) = Settled(cfg, k + 1, vals)[p]
        /\ \A p \in Params(c) : Default(u, c, p) = IF scope = "main" THEN Settled(cfg, k + 1, defs)[p]
                                                   ELSE defs[p]
    BY <1>1, <1>2, <1>3, <2>1, <2>4, <2>5 DEF v
  <2>7. Configuring(u, scope, enc, k + 1, vals, defs)
    BY <1>2, <2>4, <2>6 DEF Configuring
  <2>8. SameElsewhere(t, u, c)
    BY <2>4, CipherNames DEF SameElsewhere
  <2>9. SwitchDefaults(t) => SwitchDefaults(u)
    BY <1>1, <1>5, <2>4 DEF SwitchDefaults
  <2>10. Switched(t, enc, k) => Switched(u, enc, k + 1)
    <3>1. k >= 2
      BY <1>8, NamesInOrder DEF n
    <3>2. /\ Val(u, "global", "mc_legacy_wal") = Val(t, "global", "mc_legacy_wal")
          /\ Val(u, "global", "hmac_check") = Val(t, "global", "hmac_check")
      BY <1>1, <1>5, <2>4
    <3> QED  BY <3>1, <3>2 DEF Switched
  <2> QED  BY <2>4, <2>7, <2>8, <2>9, <2>10 DEF u, n, ints
<1> QED  BY <1>6, <1>7, <1>8

-----------------------------------------------------------------------------
(* All statements of a configuration                                       *)

\* Before the first pragma the table holds what it held.
LEMMA SettledAtStart ==
    ASSUME NEW cfg, NEW base, NEW p \in Params(cfg.cipher)
    PROVE  Settled(cfg, 0, base)[p] = base[p]
<1>1. Told(0) = {}
  BY DEF Told
<1> QED  BY <1>1 DEF Settled

\* A new connection has the built-in parameters, with switches and defaults.
LEMMA FreshTable ==
    /\ IsTable(CloneTable)
    /\ \A c \in Ciphers : \A p \in Params(c) :
          Val(CloneTable, c, p) = BuiltIn(c)[p] /\ Default(CloneTable, c, p) = BuiltIn(c)[p]
    /\ SwitchDefaults(CloneTable)
    /\ \A enc : Switched(CloneTable, enc, 0)
<1> DEFINE start == [cipher |-> [value |-> "chacha20", default |-> "chacha20"],
                     params |-> [c \in DOMAIN ParamTable |->
                                   [p \in Params(c) |->
                                      [value   |-> ParamTable[c][p].default,
                                       default |-> ParamTable[c][p].default]]]]
<1>1. CloneTable = start
  BY DEF CloneTable, Params
<1>2. \A c \in DOMAIN ParamTable : \A p \in Params(c) :
          /\ start.params[c][p].value = ParamTable[c][p].default
          /\ start.params[c][p].default = ParamTable[c][p].default
  OBVIOUS
<1>3. \A c \in DOMAIN ParamTable : \A p \in Params(c) : ParamTable[c][p].default \in Int
  BY CipherNames, CipherParams, GlobalParams, GlobalDefaults DEF SwitchNames
<1>4. IsTable(start)
  <2>1. \A c \in DOMAIN ParamTable :
            start.params[c] \in [Params(c) -> [value : Int, default : Int]]
    BY <1>3
  <2>2. start.cipher \in [value : Ciphers, default : Ciphers]
    BY CipherNames
  <2> QED  BY <2>1, <2>2 DEF IsTable
<1>5. /\ "global" \in DOMAIN ParamTable
      /\ "hmac_check" \in Params("global") /\ "mc_legacy_wal" \in Params("global")
  BY CipherNames, GlobalParams DEF SwitchNames
<1>6. \A c \in Ciphers : c \in DOMAIN ParamTable
  BY CipherNames
<1> HIDE DEF start
<1>7. SwitchDefaults(start) /\ \A enc : Switched(start, enc, 0)
  BY <1>2, <1>5, GlobalDefaults DEF SwitchDefaults, Switched, Val, Default
<1> QED  BY <1>1, <1>2, <1>4, <1>6, <1>7 DEF Val, Default, BuiltIn

\* PRAGMA cipher begins a configuration and changes no parameter.
LEMMA CipherStep ==
    ASSUME NEW t, IsTable(t), NEW scope \in {"main", "temp"},
           NEW enc, IsEncryption(enc), NEW vals, NEW defs,
           \A p \in Params(enc.cipherConfig.cipher) :
              /\ Val(t, enc.cipherConfig.cipher, p) = vals[p]
              /\ Default(t, enc.cipherConfig.cipher, p) = defs[p]
    PROVE  LET u == PragmaCipher(t, scope, enc.cipherConfig.cipher)
           IN  /\ Configuring(u, scope, enc, 0, vals, defs)
               /\ u.cipher.default \in {t.cipher.default, enc.cipherConfig.cipher}
               /\ SameElsewhere(t, u, enc.cipherConfig.cipher)
               /\ SwitchDefaults(t) => SwitchDefaults(u)
               /\ Switched(t, enc, 0) => Switched(u, enc, 0)
<1> DEFINE cfg == enc.cipherConfig
           c   == cfg.cipher
           u   == PragmaCipher(t, scope, c)
<1>1. c \in Ciphers
  BY DEF IsEncryption, IsConfig
<1>2. t.cipher = [value |-> t.cipher.value, default |-> t.cipher.default]
      /\ t.cipher.default \in Ciphers
  BY DEF IsTable
<1>3. /\ u = [cipher |-> u.cipher, params |-> t.params]
      /\ u.cipher = [value |-> c,
                     default |-> IF scope = "main" THEN c ELSE t.cipher.default]
  <2> DEFINE a == t.cipher.value
             b == t.cipher.default
             f == t.params
  <2>1. t = [cipher |-> [value |-> a, default |-> b], params |-> f]
    BY <1>2 DEF IsTable
  <2>2. u = [t EXCEPT !.cipher.value = c,
                      !.cipher.default = IF scope = "main" THEN c ELSE b]
    <3>1. CASE scope = "main"
      BY <2>1, <3>1 DEF PragmaCipher
    <3>2. CASE scope # "main"
      BY <2>1, <3>2 DEF PragmaCipher
    <3> QED  BY <3>1, <3>2
  <2> DEFINE e == IF scope = "main" THEN c ELSE b
  <2> HIDE DEF a, b, f, u, e
  <2>3. u = [cipher |-> [value |-> c, default |-> e], params |-> f]
    BY <2>1, <2>2 DEF e
  <2> QED  BY <2>3 DEF e, b, f
<1> HIDE DEF u
<1>4. u.params = t.params
  BY <1>3
<1>5. /\ u.cipher \in [value : Ciphers, default : Ciphers]
      /\ u.cipher.value = c /\ scope = "main" => u.cipher.default = c
      /\ u.cipher.default \in {t.cipher.default, c}
  BY <1>1, <1>2, <1>3
<1>6. IsTable(u)
  BY <1>3, <1>4, <1>5 DEF IsTable
<1>7. \A d, q : Val(u, d, q) = Val(t, d, q) /\ Default(u, d, q) = Default(t, d, q)
  BY <1>4 DEF Val, Default
<1>8. \A p \in Params(c) : Settled(cfg, 0, vals)[p] = vals[p] /\ Settled(cfg, 0, defs)[p] = defs[p]
  BY SettledAtStart
<1>9. Configuring(u, scope, enc, 0, vals, defs)
  BY <1>3, <1>5, <1>6, <1>7, <1>8 DEF Configuring
<1> QED  BY <1>5, <1>7, <1>9 DEF SameElsewhere, SwitchDefaults, Switched, u

\* The statements of a configuration leave the closed form, and leave other
\* ciphers alone.
LEMMA ConfigureAllEffect ==
    ASSUME NEW t, IsTable(t), NEW scope \in {"main", "temp"},
           NEW enc, IsEncryption(enc), NEW vals, NEW defs,
           \A p \in Params(enc.cipherConfig.cipher) :
              /\ Val(t, enc.cipherConfig.cipher, p) = vals[p]
              /\ Default(t, enc.cipherConfig.cipher, p) = defs[p]
    PROVE  LET u == ConfigureAll(t, scope, ApplyPragmas(enc))
           IN  /\ Configuring(u, scope, enc, 12, vals, defs)
               /\ SameElsewhere(t, u, enc.cipherConfig.cipher)
               /\ SwitchDefaults(t) => SwitchDefaults(u)
               /\ Switched(t, enc, 0) => Switched(u, enc, 12)
<1> DEFINE c    == enc.cipherConfig.cipher
           ints == ApplyPragmas(enc).ints
           Good(w, k) == /\ Configuring(w, scope, enc, k, vals, defs)
                         /\ SameElsewhere(t, w, c)
                         /\ SwitchDefaults(t) => SwitchDefaults(w)
                         /\ Switched(t, enc, 0) => Switched(w, enc, k)
           Set(w, p) == ConfigureParam(w, scope, ints, p)
           t0 == PragmaCipher(t, scope, c)
<1>1. Good(t0, 0)
  BY CipherStep
<1>2. ASSUME NEW w, NEW k \in 0 .. 11, Good(w, k)
      PROVE  Good(Set(w, Names[k + 1]), k + 1)
  <2> DEFINE u == Set(w, Names[k + 1])
  <2>1. /\ Configuring(u, scope, enc, k + 1, vals, defs)
        /\ SameElsewhere(w, u, c)
        /\ SwitchDefaults(w) => SwitchDefaults(u)
        /\ Switched(w, enc, k) => Switched(u, enc, k + 1)
    BY <1>2, ParamStep
  <2> HIDE DEF u
  <2>2. SameElsewhere(t, u, c)
    BY <1>2, <2>1 DEF SameElsewhere
  <2> QED  BY <1>2, <2>1, <2>2 DEF u
<1> DEFINE t1  == Set(t0, "hmac_check")
           t2  == Set(t1, "mc_legacy_wal")
           t3  == Set(t2, "legacy")
           t4  == Set(t3, "legacy_page_size")
           t5  == Set(t4, "kdf_iter")
           t6  == Set(t5, "fast_kdf_iter")
           t7  == Set(t6, "hmac_use")
           t8  == Set(t7, "hmac_pgno")
           t9  == Set(t8, "hmac_salt_mask")
           t10 == Set(t9, "kdf_algorithm")
           t11 == Set(t10, "hmac_algorithm")
           t12 == Set(t11, "plaintext_header_size")
<1>3. ConfigureAll(t, scope, ApplyPragmas(enc)) = t12
  BY PragmaMap DEF ConfigureAll
<1> HIDE DEF Good, Set, t0
<1>4. /\ Names[0 + 1] = "hmac_check" /\ Names[1 + 1] = "mc_legacy_wal"
      /\ Names[2 + 1] = "legacy" /\ Names[3 + 1] = "legacy_page_size"
      /\ Names[4 + 1] = "kdf_iter" /\ Names[5 + 1] = "fast_kdf_iter"
      /\ Names[6 + 1] = "hmac_use" /\ Names[7 + 1] = "hmac_pgno"
      /\ Names[8 + 1] = "hmac_salt_mask" /\ Names[9 + 1] = "kdf_algorithm"
      /\ Names[10 + 1] = "hmac_algorithm" /\ Names[11 + 1] = "plaintext_header_size"
  BY DEF Names
<1>5. Good(t1, 1) /\ Good(t2, 2) /\ Good(t3, 3)
  BY <1>1, <1>2, <1>4
<1> HIDE DEF t3
<1>6. Good(t4, 4) /\ Good(t5, 5) /\ Good(t6, 6)
  BY <1>2, <1>4, <1>5
<1> HIDE DEF t6
<1>7. Good(t7, 7) /\ Good(t8, 8) /\ Good(t9, 9)
  BY <1>2, <1>4, <1>6
<1> HIDE DEF t9
<1>8. Good(t10, 10) /\ Good(t11, 11) /\ Good(t12, 12)
  BY <1>2, <1>4, <1>7
<1> QED  BY <1>3, <1>8 DEF Good

-----------------------------------------------------------------------------
(* Allocating a cipher                                                      *)

\* Reading parameters resets them to their defaults and changes no default.
LEMMA ResetEffect ==
    ASSUME NEW t, IsTable(t), NEW c \in DOMAIN ParamTable, NEW ps
    PROVE  LET u == ResetParams(t, c, ps)
           IN  /\ IsTable(u)
               /\ u.cipher = t.cipher
               /\ \A d \in DOMAIN ParamTable : \A q \in Params(d) :
                    /\ Val(u, d, q) = IF d = c /\ q \in ps THEN Default(t, d, q)
                                      ELSE Val(t, d, q)
                    /\ Default(u, d, q) = Default(t, d, q)
<1> DEFINE u == ResetParams(t, c, ps)
           g == t.params[c]
           e(p) == [value |-> IF p \in ps THEN g[p].default ELSE g[p].value,
                    default |-> g[p].default]
           f == [t.params EXCEPT ![c] = [p \in Params(c) |-> e(p)]]
<1>1. g \in [Params(c) -> [value : Int, default : Int]]
  BY DEF IsTable
<1>2. u = [cipher |-> t.cipher, params |-> f]
  <2> DEFINE H(D) == [p \in D |-> e(p)]
  <2>1. u = [t EXCEPT !.params[c] = H(DOMAIN g)]
    BY DEF ResetParams
  <2>2. DOMAIN g = Params(c)
    BY <1>1
  <2> HIDE DEF H, u, e, g
  <2>3. u = [cipher |-> t.cipher, params |-> [t.params EXCEPT ![c] = H(Params(c))]]
    BY <2>1, <2>2 DEF IsTable
  <2> QED  BY <2>3 DEF H
<1>3. \A p \in Params(c) : /\ e(p) \in [value : Int, default : Int]
                           /\ e(p).value = IF p \in ps THEN g[p].default ELSE g[p].value
                           /\ e(p).default = g[p].default
  BY <1>1
<1>4. /\ f = [d \in DOMAIN ParamTable |-> f[d]]
      /\ \A d \in DOMAIN ParamTable : d # c => f[d] = t.params[d]
      /\ f[c] = [p \in Params(c) |-> e(p)]
  BY DEF IsTable
<1> HIDE DEF u, f, e
<1>5. IsTable(u)
  <2>1. f[c] \in [Params(c) -> [value : Int, default : Int]]
    BY <1>3, <1>4
  <2> QED  BY <1>2, <1>4, <2>1 DEF IsTable
<1>6. \A q \in Params(c) : f[c][q] = e(q)
  BY <1>4
<1>7. \A d \in DOMAIN ParamTable : \A q \in Params(d) :
         /\ Val(u, d, q) = IF d = c /\ q \in ps THEN Default(t, d, q) ELSE Val(t, d, q)
         /\ Default(u, d, q) = Default(t, d, q)
  BY <1>2, <1>3, <1>4, <1>6 DEF Val, Default
<1> QED  BY <1>2, <1>5, <1>7 DEF u

\* After a cipher was allocated, what it read and the switches are at their
\* defaults.
LEMMA ConsumeEffect ==
    ASSUME NEW t, IsTable(t)
    PROVE  LET u == Consume(t)
               c == t.cipher.value
           IN  /\ IsTable(u)
               /\ u.cipher = [value |-> t.cipher.default, default |-> t.cipher.default]
               /\ \A d \in Ciphers : \A q \in Params(d) :
                    /\ Val(u, d, q) = IF d = c /\ q \in ReadParams(t, c)
                                      THEN Default(t, d, q) ELSE Val(t, d, q)
                    /\ Default(u, d, q) = Default(t, d, q)
               /\ SwitchDefaults(t) =>
                    /\ SwitchDefaults(u)
                    /\ \A enc : Switched(u, enc, 0)
<1> DEFINE c == t.cipher.value
           b == t.cipher.default
           w == [t EXCEPT !.cipher.value = b]
           x == ResetParams(w, c, ReadParams(t, c))
           u == ResetParams(x, "global", DOMAIN ParamTable.global)
<1>1. Consume(t) = u
  BY DEF Consume
<1>2. c \in Ciphers /\ c \in DOMAIN ParamTable /\ c # "global" /\ "global" \in DOMAIN ParamTable
  BY CipherNames DEF IsTable
<1>3. /\ IsTable(w) /\ w.params = t.params
      /\ w.cipher = [value |-> b, default |-> b]
  <2>1. w = [cipher |-> [value |-> b, default |-> b], params |-> t.params]
    <3>1. t = [cipher |-> [value |-> c, default |-> b], params |-> t.params]
      BY DEF IsTable
    <3> DEFINE f == t.params
    <3> HIDE DEF b, c, f
    <3>2. t = [cipher |-> [value |-> c, default |-> b], params |-> f]
      BY <3>1 DEF f
    <3>3. w = [cipher |-> [value |-> b, default |-> b], params |-> f]
      BY <3>2
    <3> QED  BY <3>3 DEF f
  <2>2. b \in Ciphers
    BY DEF IsTable
  <2> HIDE DEF w, b
  <2>3. w.params = t.params /\ w.cipher = [value |-> b, default |-> b]
    BY <2>1
  <2> QED  BY <2>1, <2>2, <2>3 DEF IsTable
<1> HIDE DEF w, b
<1>4. \A d, q : Val(w, d, q) = Val(t, d, q) /\ Default(w, d, q) = Default(t, d, q)
  BY <1>3 DEF Val, Default
<1>5. /\ IsTable(x)
      /\ x.cipher = w.cipher
      /\ \A d \in DOMAIN ParamTable : \A q \in Params(d) :
           /\ Val(x, d, q) = IF d = c /\ q \in ReadParams(t, c) THEN Default(w, d, q)
                             ELSE Val(w, d, q)
           /\ Default(x, d, q) = Default(w, d, q)
  BY <1>2, <1>3, ResetEffect
<1> HIDE DEF x
<1>6. /\ IsTable(u)
      /\ u.cipher = x.cipher
      /\ \A d \in DOMAIN ParamTable : \A q \in Params(d) :
           /\ Val(u, d, q) = IF d = "global" /\ q \in DOMAIN ParamTable.global
                             THEN Default(x, d, q) ELSE Val(x, d, q)
           /\ Default(u, d, q) = Default(x, d, q)
  BY <1>2, <1>5, ResetEffect
<1> HIDE DEF u, c
<1>7. \A d \in Ciphers : d \in DOMAIN ParamTable /\ d # "global"
  BY CipherNames
<1>8. \A d \in Ciphers : \A q \in Params(d) :
         /\ Val(u, d, q) = IF d = c /\ q \in ReadParams(t, c) THEN Default(t, d, q)
                           ELSE Val(t, d, q)
         /\ Default(u, d, q) = Default(t, d, q)
  BY <1>4, <1>5, <1>6, <1>7
<1>9. \A q \in SwitchNames : Val(u, "global", q) = Default(t, "global", q)
                             /\ Default(u, "global", q) = Default(t, "global", q)
  BY <1>2, <1>4, <1>5, <1>6, GlobalParams DEF Params
<1>10. SwitchDefaults(t) => SwitchDefaults(u) /\ \A enc : Switched(u, enc, 0)
  BY <1>9 DEF SwitchDefaults, Switched, SwitchNames
<1> QED  BY <1>1, <1>3, <1>5, <1>6, <1>8, <1>10 DEF b, c

\* An allocated cipher depends only on the parameters that are read.
LEMMA SameCipher ==
    ASSUME NEW t, NEW u, NEW c \in Ciphers,
           t.cipher.value = c, u.cipher.value = c,
           ReadParams(t, c) = ReadParams(u, c),
           \A p \in ReadParams(t, c) : Val(t, c, p) = Val(u, c, p)
    PROVE  Allocate(t) = Allocate(u)
<1> DEFINE v(w) == [p \in DOMAIN ParamTable[c] |->
                      IF p \in ReadParams(w, c) THEN w.params[c][p].value ELSE 0]
<1>1. v(t) = v(u)
  BY DEF Val
<1>2. \A w : w.cipher.value = c =>
        Allocate(w) = [cipher |-> c,
                       params |-> IF c = "chacha20" /\ v(w).legacy # 0
                                  THEN [v(w) EXCEPT !.kdf_iter = 12345] ELSE v(w)]
  BY DEF Allocate
<1> HIDE DEF v
<1> QED  BY <1>1, <1>2

\* What is read depends on nothing but the legacy version.
LEMMA SameParamsRead ==
    ASSUME NEW t, NEW u, NEW c \in Ciphers,
           c = "sqlcipher" => Val(t, c, "legacy") = Val(u, c, "legacy")
    PROVE  ReadParams(t, c) = ReadParams(u, c)
BY DEF ReadParams, Val

\* A cipher reads parameters of its own, legacy always.
LEMMA ReadsOwnParams ==
    ASSUME NEW t, NEW c
    PROVE  /\ ReadParams(t, c) \subseteq Params(c)
           /\ "legacy" \in Params(c) => "legacy" \in ReadParams(t, c)
BY DEF ReadParams, Params

\* SQLCipher has the parameter that decides which others it reads.
LEMMA SqlCipherHasLegacy == "legacy" \in Params("sqlcipher")
BY SMT DEF Params, ParamTable, Range3

-----------------------------------------------------------------------------
(* The list of statements                                                   *)

\* Behind the last pragma, nothing but the rest is left.
LEMMA StepsEnd ==
    ASSUME NEW scope, NEW ints, NEW rest
    PROVE  Steps(scope, ints, 12, rest) = rest
<1>1. \A tail : \A i \in 1 .. 12 : Next1(scope, ints, 12, i, tail) = tail
  BY DEF Next1
<1> QED  BY <1>1 DEF Steps

\* The statements that follow k pragmas begin with the next pragma that is
\* in the map.
LEMMA StepsNext ==
    ASSUME NEW scope, NEW ints, NEW rest, NEW k \in 0 .. 11
    PROVE  Steps(scope, ints, k, rest) =
             IF Names[k + 1] \in DOMAIN ints
             THEN << ParamStmt(scope, Names[k + 1], ints[Names[k + 1]]) >>
                  \o Steps(scope, ints, k + 1, rest)
             ELSE Steps(scope, ints, k + 1, rest)
<1> DEFINE N(l, i, tail) == Next1(scope, ints, l, i, tail)
           S(l) == N(l, 1, N(l, 2, N(l, 3, N(l, 4, N(l, 5, N(l, 6, N(l, 7, N(l, 8,
                   N(l, 9, N(l, 10, N(l, 11, N(l, 12, rest))))))))))))
           One(tail) == IF Names[k + 1] \in DOMAIN ints
                        THEN << ParamStmt(scope, Names[k + 1], ints[Names[k + 1]]) >> \o tail
                        ELSE tail
<1>1. \A tail : \A i \in 1 .. 12 : i < k + 1 => N(k, i, tail) = tail /\ N(k + 1, i, tail) = tail
  BY DEF Next1
<1>2. \A tail : N(k, k + 1, tail) = One(tail) /\ N(k + 1, k + 1, tail) = tail
  BY DEF Next1
<1>3. \A tail : \A i \in 1 .. 12 : i > k + 1 => N(k, i, tail) = N(k + 1, i, tail)
  BY DEF Next1
<1> HIDE DEF N, One
<1>4. S(k) = One(S(k + 1))
  <2>0. CASE k = 0
    BY <2>0, <1>1, <1>2, <1>3
  <2>1. CASE k = 1
    BY <2>1, <1>1, <1>2, <1>3
  <2>2. CASE k = 2
    BY <2>2, <1>1, <1>2, <1>3
  <2>3. CASE k = 3
    BY <2>3, <1>1, <1>2, <1>3
  <2>4. CASE k = 4
    BY <2>4, <1>1, <1>2, <1>3
  <2>5. CASE k = 5
    BY <2>5, <1>1, <1>2, <1>3
  <2>6. CASE k = 6
    BY <2>6, <1>1, <1>2, <1>3
  <2>7. CASE k = 7
    BY <2>7, <1>1, <1>2, <1>3
  <2>8. CASE k = 8
    BY <2>8, <1>1, <1>2, <1>3
  <2>9. CASE k = 9
    BY <2>9, <1>1, <1>2, <1>3
  <2>10. CASE k = 10
    BY <2>10, <1>1, <1>2, <1>3
  <2>11. CASE k = 11
    BY <2>11, <1>1, <1>2, <1>3
  <2> QED  BY <2>0, <2>1, <2>2, <2>3, <2>4, <2>5, <2>6, <2>7, <2>8, <2>9, <2>10, <2>11
<1>5. \A l : Steps(scope, ints, l, rest) = S(l)
  BY DEF Steps, N
<1> HIDE DEF S
<1> QED  BY <1>4, <1>5 DEF One

\* Executing the first statement of a list leaves the others.
LEMMA FirstStatement ==
    ASSUME NEW S, NEW x \in S, NEW s \in Seq(S)
    PROVE  /\ << x >> \o s \in Seq(S)
           /\ << x >> \o s # << >>
           /\ Head(<< x >> \o s) = x
           /\ Tail(<< x >> \o s) = s
<1>1. << x >> \in Seq(S) /\ Len(<< x >>) = 1 /\ << x >>[1] = x
  OBVIOUS
<1> DEFINE f == << x >>
           r == f \o s
<1>2. /\ r \in Seq(S) /\ Len(r) = 1 + Len(s)
      /\ \A i \in 1 .. 1 + Len(s) : r[i] = IF i <= 1 THEN x ELSE s[i - 1]
  BY <1>1, ConcatProperties
<1> HIDE DEF f, r
<1>3. Len(s) \in Nat /\ r # << >>
  BY <1>2
<1>4. Head(r) = x
  BY <1>2, <1>3
<1>5. /\ Tail(r) \in Seq(S) /\ Len(Tail(r)) = Len(s)
      /\ \A i \in 1 .. Len(s) : Tail(r)[i] = s[i]
  BY <1>2, <1>3, HeadTailProperties
<1>6. Tail(r) = s
  BY <1>5, SeqEqual
<1> QED  BY <1>2, <1>3, <1>4, <1>6 DEF r, f

\* Concatenation, opaque to the provers.
Cat(a, b) == a \o b

\* Concatenation, under a name of its own, makes a list of the same
\* statements.
LEMMA CatIsSeq ==
    ASSUME NEW S, NEW a \in Seq(S), NEW b \in Seq(S)
    PROVE  Cat(a, b) \in Seq(S)
BY ConcatProperties DEF Cat

\* Concatenations may be regrouped.
LEMMA CatAssociative ==
    ASSUME NEW S, NEW a \in Seq(S), NEW b \in Seq(S), NEW r \in Seq(S)
    PROVE  Cat(Cat(a, b), r) = Cat(a, Cat(b, r))
<1>1. (a \o b) \o r = a \o (b \o r)
  BY ConcatAssociative
<1> QED  BY <1>1 DEF Cat

\* What the driver sends for a configuration, followed by rest.
Sent(scope, pragmas, rest) ==
    << CipherStmt(scope, pragmas.cipher) >> \o Steps(scope, pragmas.ints, 0, rest)

\* toMCSQLStatements makes the list that Steps describes from its beginning.
LEMMA ConfigStatementsInOrder ==
    ASSUME NEW S, NEW scope, NEW pragmas, NEW rest, rest \in Seq(S),
           CipherStmt(scope, pragmas.cipher) \in S,
           \A i \in 1 .. 12 : Names[i] \in DOMAIN pragmas.ints =>
              ParamStmt(scope, Names[i], pragmas.ints[Names[i]]) \in S
    PROVE  /\ ConfigStatements(scope, pragmas) \in Seq(S)
           /\ Steps(scope, pragmas.ints, 0, rest) \in Seq(S)
           /\ Cat(ConfigStatements(scope, pragmas), rest) = Sent(scope, pragmas, rest)
<1> DEFINE ints == pragmas.ints
           P(i) == Param(scope, ints, Names[i])
           N(i, tail) == Next1(scope, ints, 0, i, tail)
           C == << CipherStmt(scope, pragmas.cipher) >>
           all == P(1) \o P(2) \o P(3) \o P(4) \o P(5) \o P(6) \o P(7) \o P(8)
                  \o P(9) \o P(10) \o P(11) \o P(12)
<1>1. \A i \in 1 .. 12 : P(i) \in Seq(S)
  <2> TAKE i \in 1 .. 12
  <2>1. CASE Names[i] \in DOMAIN ints
    BY <2>1 DEF Param
  <2>2. CASE Names[i] \notin DOMAIN ints
    BY <2>2 DEF Param
  <2> QED  BY <2>1, <2>2
<1>2. \A i \in 1 .. 12 : \A tail \in Seq(S) : N(i, tail) = P(i) \o tail /\ N(i, tail) \in Seq(S)
  <2> TAKE i \in 1 .. 12
  <2> TAKE tail \in Seq(S)
  <2>1. CASE Names[i] \in DOMAIN ints
    <3>1. N(i, tail) = P(i) \o tail
      BY <2>1 DEF Next1, Param
    <3> HIDE DEF P
    <3> QED  BY <1>1, <3>1, ConcatProperties
  <2>2. CASE Names[i] \notin DOMAIN ints
    BY <2>2, ConcatEmptySeq DEF Next1, Param
  <2> QED  BY <2>1, <2>2
<1>3. C \in Seq(S)
  OBVIOUS
<1>4. Names[1] = "hmac_check" /\ Names[2] = "mc_legacy_wal" /\ Names[3] = "legacy"
      /\ Names[4] = "legacy_page_size" /\ Names[5] = "kdf_iter"
      /\ Names[6] = "fast_kdf_iter" /\ Names[7] = "hmac_use" /\ Names[8] = "hmac_pgno"
      /\ Names[9] = "hmac_salt_mask" /\ Names[10] = "kdf_algorithm"
      /\ Names[11] = "hmac_algorithm" /\ Names[12] = "plaintext_header_size"
  BY DEF Names
<1> DEFINE L1 == P(1)
           L2 == Cat(L1, P(2))
           L3 == Cat(L2, P(3))
           L4 == Cat(L3, P(4))
           L5 == Cat(L4, P(5))
           L6 == Cat(L5, P(6))
           L7 == Cat(L6, P(7))
           L8 == Cat(L7, P(8))
           L9 == Cat(L8, P(9))
           L10 == Cat(L9, P(10))
           L11 == Cat(L10, P(11))
           L12 == Cat(L11, P(12))
           R12 == N(12, rest)
           R11 == N(11, R12)
           R10 == N(10, R11)
           R9 == N(9, R10)
           R8 == N(8, R9)
           R7 == N(7, R8)
           R6 == N(6, R7)
           R5 == N(5, R6)
           R4 == N(4, R5)
           R3 == N(3, R4)
           R2 == N(2, R3)
           R1 == N(1, R2)
<1>5. ParamStatements(scope, ints) = L12
  BY <1>4 DEF ParamStatements, Cat
<1>6. Steps(scope, ints, 0, rest) = R1
  BY DEF Steps
<1>7. ConfigStatements(scope, pragmas) = Cat(C, L12)
  BY <1>5 DEF ConfigStatements, Cat
<1>8. \A i \in 1 .. 12 : \A tail \in Seq(S) : N(i, tail) = Cat(P(i), tail) /\ N(i, tail) \in Seq(S)
  BY <1>2 DEF Cat
<1> HIDE DEF P, N, C
<1>9. ASSUME NEW i \in 1 .. 12, NEW l \in Seq(S)
      PROVE  Cat(l, P(i)) \in Seq(S)
  BY <1>1, <1>9, CatIsSeq
<1>10. ASSUME NEW q \in Seq(S), NEW l \in Seq(S), NEW r \in Seq(S)
       PROVE  Cat(Cat(l, q), r) = Cat(l, Cat(q, r))
  BY CatAssociative
<1>11. ASSUME NEW i \in 1 .. 12, NEW l \in Seq(S), NEW r \in Seq(S)
       PROVE  Cat(Cat(l, P(i)), r) = Cat(l, N(i, r))
  <2> DEFINE q == P(i)
  <2>1. q \in Seq(S)
    BY <1>1
  <2>2. N(i, r) = Cat(q, r)
    BY <1>8
  <2> HIDE DEF q
  <2>3. Cat(Cat(l, q), r) = Cat(l, Cat(q, r))
    BY <2>1, <1>10
  <2> QED  BY <2>2, <2>3 DEF q
<1>12. L1 \in Seq(S) /\ L2 \in Seq(S) /\ L3 \in Seq(S) /\ L4 \in Seq(S)
  <2>1. L1 \in Seq(S)
    BY <1>1
  <2> HIDE DEF L1
  <2> QED  BY <1>9, <2>1
<1>13. L5 \in Seq(S) /\ L6 \in Seq(S) /\ L7 \in Seq(S) /\ L8 \in Seq(S)
  <2> HIDE DEF L4
  <2> QED  BY <1>9, <1>12
<1>14. L9 \in Seq(S) /\ L10 \in Seq(S) /\ L11 \in Seq(S) /\ L12 \in Seq(S)
  <2> HIDE DEF L8
  <2> QED  BY <1>9, <1>13
<1>15. R12 \in Seq(S) /\ R11 \in Seq(S) /\ R10 \in Seq(S) /\ R9 \in Seq(S)
  BY <1>8
<1>16. R8 \in Seq(S) /\ R7 \in Seq(S) /\ R6 \in Seq(S) /\ R5 \in Seq(S)
  <2> HIDE DEF R9
  <2> QED  BY <1>8, <1>15
<1>17. R4 \in Seq(S) /\ R3 \in Seq(S) /\ R2 \in Seq(S) /\ R1 \in Seq(S)
  <2> HIDE DEF R5
  <2> QED  BY <1>8, <1>16
<1>18. Cat(L12, rest) = Cat(L8, R9)
  <2>1. Cat(L12, rest) = Cat(L11, R12)
    <3> HIDE DEF L11
    <3> QED  BY <1>11, <1>14
  <2>2. Cat(L11, R12) = Cat(L10, R11)
    <3> HIDE DEF L10, R12
    <3> QED  BY <1>11, <1>14, <1>15
  <2>3. Cat(L10, R11) = Cat(L9, R10)
    <3> HIDE DEF L9, R11
    <3> QED  BY <1>11, <1>14, <1>15
  <2>4. Cat(L9, R10) = Cat(L8, R9)
    <3> HIDE DEF L8, R10
    <3> QED  BY <1>11, <1>13, <1>15
  <2> HIDE DEF L12, L11, L10, L9, L8, R12, R11, R10, R9
  <2> QED  BY <2>1, <2>2, <2>3, <2>4
<1>19. Cat(L8, R9) = Cat(L4, R5)
  <2>1. Cat(L8, R9) = Cat(L7, R8)
    <3> HIDE DEF L7, R9
    <3> QED  BY <1>11, <1>13, <1>15
  <2>2. Cat(L7, R8) = Cat(L6, R7)
    <3> HIDE DEF L6, R8
    <3> QED  BY <1>11, <1>13, <1>16
  <2>3. Cat(L6, R7) = Cat(L5, R6)
    <3> HIDE DEF L5, R7
    <3> QED  BY <1>11, <1>13, <1>16
  <2>4. Cat(L5, R6) = Cat(L4, R5)
    <3> HIDE DEF L4, R6
    <3> QED  BY <1>11, <1>12, <1>16
  <2> HIDE DEF L8, L7, L6, L5, L4, R9, R8, R7, R6, R5
  <2> QED  BY <2>1, <2>2, <2>3, <2>4
<1>20. Cat(L4, R5) = R1
  <2>1. Cat(L4, R5) = Cat(L3, R4)
    <3> HIDE DEF L3, R5
    <3> QED  BY <1>11, <1>12, <1>16
  <2>2. Cat(L3, R4) = Cat(L2, R3)
    <3> HIDE DEF L2, R4
    <3> QED  BY <1>11, <1>12, <1>17
  <2>3. Cat(L2, R3) = Cat(L1, R2)
    <3> HIDE DEF L1, R3
    <3> QED  BY <1>11, <1>12, <1>17
  <2>4. Cat(L1, R2) = R1
    <3> HIDE DEF R2
    <3> QED  BY <1>8, <1>17
  <2> HIDE DEF L4, L3, L2, L1, R5, R4, R3, R2, R1
  <2> QED  BY <2>1, <2>2, <2>3, <2>4
<1>21. Cat(L12, rest) = R1
  BY <1>18, <1>19, <1>20
<1>22. Cat(Cat(C, L12), rest) = Cat(C, R1)
  <2> HIDE DEF L12, R1
  <2> QED  BY <1>3, <1>10, <1>14, <1>21
<1>23. Cat(C, L12) \in Seq(S)
  <2> HIDE DEF L12
  <2> QED  BY <1>3, <1>14, CatIsSeq
<1> HIDE DEF L12, R1
<1> QED  BY <1>6, <1>7, <1>17, <1>22, <1>23 DEF Cat, C, Sent

-----------------------------------------------------------------------------
(* A connection in the middle of the statements of a configuration         *)

\* Either the next statement of the list is one of the configuration, and it
\* takes the table one pragma further, or all of them were executed.
Advanced(t, scope, enc, vals, defs, clean, rest, list, j) ==
    LET ints == ApplyPragmas(enc).ints
        stmt == ParamStmt(scope, Names[j + 1], ints[Names[j + 1]])
        u    == Configure(t, stmt)
    IN  /\ list = << stmt >> \o Steps(scope, ints, j + 1, rest)
        /\ Names[j + 1] \in DOMAIN ints
        /\ Configuring(u, scope, enc, j + 1, vals, defs)
        /\ u.cipher = t.cipher
        /\ SameElsewhere(t, u, enc.cipherConfig.cipher)
        /\ SwitchDefaults(t) => SwitchDefaults(u)
        /\ clean => Switched(u, enc, j + 1)

OneFurther(t, scope, enc, vals, defs, clean, rest, list) ==
    \/ /\ list = rest
       /\ Configuring(t, scope, enc, 12, vals, defs)
       /\ clean => Switched(t, enc, 12)
    \/ \E j \in 0 .. 11 : Advanced(t, scope, enc, vals, defs, clean, rest, list, j)

\* A connection in the middle of a configuration is behind its last
\* statement, or the next one is a parameter whose execution brings it one
\* further.
LEMMA NextStatement ==
    ASSUME NEW t, NEW scope \in {"main", "temp"}, NEW enc, IsEncryption(enc),
           NEW vals, NEW defs, NEW rest, NEW todo, NEW clean \in BOOLEAN,
           NEW k \in 0 .. 12,
           todo = Steps(scope, ApplyPragmas(enc).ints, k, rest),
           Configuring(t, scope, enc, k, vals, defs),
           clean => Switched(t, enc, k)
    PROVE  OneFurther(t, scope, enc, vals, defs, clean, rest, todo)
<1> DEFINE ints == ApplyPragmas(enc).ints
           stmt(j) == ParamStmt(scope, Names[j + 1], ints[Names[j + 1]])
           u(j) == Configure(t, stmt(j))
           Here(j) == /\ todo = Steps(scope, ints, j, rest)
                      /\ Configuring(t, scope, enc, j, vals, defs)
                      /\ clean => Switched(t, enc, j)
           Step(j) == Advanced(t, scope, enc, vals, defs, clean, rest, todo, j)
           Done12 == \/ Here(12)
                     \/ \E j \in 0 .. 11 : Step(j)
<1>1. \A j \in 0 .. 11 : Here(j) => Step(j) \/ Here(j + 1)
  <2> SUFFICES ASSUME NEW j \in 0 .. 11, Here(j) PROVE Step(j) \/ Here(j + 1)
    OBVIOUS
  <2> DEFINE w == ConfigureParam(t, scope, ints, Names[j + 1])
  <2>1. /\ Configuring(w, scope, enc, j + 1, vals, defs)
        /\ w.cipher = t.cipher
        /\ SameElsewhere(t, w, enc.cipherConfig.cipher)
        /\ SwitchDefaults(t) => SwitchDefaults(w)
        /\ clean => Switched(w, enc, j + 1)
    BY ParamStep
  <2>2. todo = IF Names[j + 1] \in DOMAIN ints
               THEN << stmt(j) >> \o Steps(scope, ints, j + 1, rest)
               ELSE Steps(scope, ints, j + 1, rest)
    BY StepsNext
  <2>3. CASE Names[j + 1] \in DOMAIN ints
    <3>1. w = u(j)
      BY <2>3 DEF ConfigureParam, Configure, ParamStmt
    <3> QED  BY <2>1, <2>2, <2>3, <3>1 DEF Advanced
  <2>4. CASE Names[j + 1] \notin DOMAIN ints
    <3>1. w = t
      BY <2>4 DEF ConfigureParam
    <3> QED  BY <2>1, <2>2, <2>4, <3>1
  <2> QED  BY <2>3, <2>4
<1>2. Here(k)
  OBVIOUS
<1>3. Here(12) => todo = rest
  BY StepsEnd
<1> HIDE DEF Here, Step
<1>11. Here(11) => Done12
  BY <1>1
<1>10. Here(10) => Done12
  BY <1>1, <1>11
<1>9. Here(9) => Done12
  BY <1>1, <1>10
<1>8. Here(8) => Done12
  BY <1>1, <1>9
<1>7. Here(7) => Done12
  BY <1>1, <1>8
<1>6. Here(6) => Done12
  BY <1>1, <1>7
<1>5. Here(5) => Done12
  BY <1>1, <1>6
<1>4. Here(4) => Done12
  BY <1>1, <1>5
<1>13. Here(3) => Done12
  BY <1>1, <1>4
<1>14. Here(2) => Done12
  BY <1>1, <1>13
<1>15. Here(1) => Done12
  BY <1>1, <1>14
<1>16. Here(0) => Done12
  BY <1>1, <1>15
<1>17. Done12
  BY <1>2, <1>4, <1>5, <1>6, <1>7, <1>8, <1>9, <1>10, <1>11, <1>13, <1>14, <1>15, <1>16
<1>18. CASE Here(12)
  BY <1>3, <1>18 DEF Here, OneFurther
<1>19. CASE \E j \in 0 .. 11 : Step(j)
  BY <1>19 DEF Step, OneFurther
<1> QED  BY <1>17, <1>18, <1>19

\* What is left of a list of statements is one.
LEMMA StepsAreStatements ==
    ASSUME NEW S, NEW scope, NEW ints, NEW rest \in Seq(S), NEW k \in 0 .. 12,
           \A i \in 1 .. 12 : Names[i] \in DOMAIN ints =>
              ParamStmt(scope, Names[i], ints[Names[i]]) \in S
    PROVE  Steps(scope, ints, k, rest) \in Seq(S)
<1> DEFINE Ok(l) == Steps(scope, ints, l, rest) \in Seq(S)
<1>1. Ok(12)
  BY StepsEnd
<1>2. ASSUME NEW l \in 0 .. 11, Ok(l + 1) PROVE Ok(l)
  <2> DEFINE tail == Steps(scope, ints, l + 1, rest)
             x    == ParamStmt(scope, Names[l + 1], ints[Names[l + 1]])
  <2>1. Steps(scope, ints, l, rest) = IF Names[l + 1] \in DOMAIN ints
                                      THEN << x >> \o tail ELSE tail
    BY StepsNext
  <2>2. Names[l + 1] \in DOMAIN ints => x \in S
    OBVIOUS
  <2>3. tail \in Seq(S)
    BY <1>2
  <2> HIDE DEF x, tail
  <2>4. Names[l + 1] \in DOMAIN ints => << x >> \o tail \in Seq(S)
    BY <2>2, <2>3, FirstStatement
  <2> QED  BY <2>1, <2>3, <2>4
<1> HIDE DEF Ok
<1>3. Ok(11)
  <2>1. 11 \in 0 .. 11 /\ 11 + 1 = 12
    OBVIOUS
  <2> QED  BY <1>1, <1>2, <2>1
<1>4. Ok(10)
  <2>1. 10 \in 0 .. 11 /\ 10 + 1 = 11
    OBVIOUS
  <2> QED  BY <1>3, <1>2, <2>1
<1>5. Ok(9)
  <2>1. 9 \in 0 .. 11 /\ 9 + 1 = 10
    OBVIOUS
  <2> QED  BY <1>4, <1>2, <2>1
<1>6. Ok(8)
  <2>1. 8 \in 0 .. 11 /\ 8 + 1 = 9
    OBVIOUS
  <2> QED  BY <1>5, <1>2, <2>1
<1>7. Ok(7)
  <2>1. 7 \in 0 .. 11 /\ 7 + 1 = 8
    OBVIOUS
  <2> QED  BY <1>6, <1>2, <2>1
<1>8. Ok(6)
  <2>1. 6 \in 0 .. 11 /\ 6 + 1 = 7
    OBVIOUS
  <2> QED  BY <1>7, <1>2, <2>1
<1>9. Ok(5)
  <2>1. 5 \in 0 .. 11 /\ 5 + 1 = 6
    OBVIOUS
  <2> QED  BY <1>8, <1>2, <2>1
<1>10. Ok(4)
  <2>1. 4 \in 0 .. 11 /\ 4 + 1 = 5
    OBVIOUS
  <2> QED  BY <1>9, <1>2, <2>1
<1>11. Ok(3)
  <2>1. 3 \in 0 .. 11 /\ 3 + 1 = 4
    OBVIOUS
  <2> QED  BY <1>10, <1>2, <2>1
<1>12. Ok(2)
  <2>1. 2 \in 0 .. 11 /\ 2 + 1 = 3
    OBVIOUS
  <2> QED  BY <1>11, <1>2, <2>1
<1>13. Ok(1)
  <2>1. 1 \in 0 .. 11 /\ 1 + 1 = 2
    OBVIOUS
  <2> QED  BY <1>12, <1>2, <2>1
<1>14. Ok(0)
  <2>1. 0 \in 0 .. 11 /\ 0 + 1 = 1
    OBVIOUS
  <2> QED  BY <1>13, <1>2, <2>1
<1>15. \A l \in 0 .. 12 : Ok(l)
  BY <1>1, <1>3, <1>4, <1>5, <1>6, <1>7, <1>8, <1>9, <1>10, <1>11, <1>12, <1>13, <1>14
<1> QED  BY <1>15 DEF Ok
=============================================================================
