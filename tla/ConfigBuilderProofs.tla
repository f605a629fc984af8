------------------------ MODULE ConfigBuilderProofs ------------------------
(***************************************************************************)
(* Proofs about the configuration DSL.                                     *)
(***************************************************************************)
EXTENDS ConfigBuilder, CipherConfigProofs

-----------------------------------------------------------------------------
(* The parameters of each cipher                                           *)

\* What the builders of each cipher have setters for.
LEMMA SettableNames ==
    /\ SettableOf("chacha20") = {"legacy", "legacy_page_size", "kdf_iter"}
    /\ SettableOf("rc4") = {"legacy_page_size"}
    /\ SettableOf("aes128cbc") = {"legacy", "legacy_page_size"}
    /\ SettableOf("aes256cbc") = {"legacy", "legacy_page_size", "kdf_iter"}
    /\ SettableOf("ascon128") = {"kdf_iter"}
    /\ SettableOf("sqlcipher") =
          {"legacy", "legacy_page_size", "kdf_iter", "fast_kdf_iter", "hmac_use",
           "hmac_pgno", "hmac_salt_mask", "kdf_algorithm", "hmac_algorithm",
           "plaintext_header_size"}
  <1>1. SettableOf("chacha20") = {"legacy", "legacy_page_size", "kdf_iter"}
    BY DEF SettableOf, DefaultFor, ChaCha20Default
  <1>2. SettableOf("rc4") = {"legacy_page_size"}
    BY DEF SettableOf, DefaultFor, RC4Default
  <1>3. SettableOf("aes128cbc") = {"legacy", "legacy_page_size"}
    BY DEF SettableOf, DefaultFor, WxAES128Default
  <1>4. SettableOf("aes256cbc") = {"legacy", "legacy_page_size", "kdf_iter"}
    BY DEF SettableOf, DefaultFor, WxAES256Default
  <1>5. SettableOf("ascon128") = {"kdf_iter"}
    BY DEF SettableOf, DefaultFor, Ascon128Default
  <1>6. SettableOf("sqlcipher") =
          {"legacy", "legacy_page_size", "kdf_iter", "fast_kdf_iter", "hmac_use",
           "hmac_pgno", "hmac_salt_mask", "kdf_algorithm", "hmac_algorithm",
           "plaintext_header_size"}
    BY DEF SettableOf, DefaultFor, SqlCipherDefault, SqlCipherV4
  <1> QED
    BY <1>1, <1>2, <1>3, <1>4, <1>5, <1>6

-----------------------------------------------------------------------------
(* Page sizes.  A divisor of 65536 that is at least 512 has a quotient of  *)
(* at most 128; the quotients that are whole numbers are the powers of two. *)

Quotients ==
    {1, 2, 3, 4, 5, 6, 7, 8, 9, 10, 11, 12, 13, 14, 15, 16, 17, 18, 19,
     20, 21, 22, 23, 24, 25, 26, 27, 28, 29, 30, 31, 32, 33, 34, 35, 36,
     37, 38, 39, 40, 41, 42, 43, 44, 45, 46, 47, 48, 49, 50, 51, 52, 53,
     54, 55, 56, 57, 58, 59, 60, 61, 62, 63, 64, 65, 66, 67, 68, 69, 70,
     71, 72, 73, 74, 75, 76, 77, 78, 79, 80, 81, 82, 83, 84, 85, 86, 87,
     88, 89, 90, 91, 92, 93, 94, 95, 96, 97, 98, 99, 100, 101, 102, 103,
     104, 105, 106, 107, 108, 109, 110, 111, 112, 113, 114, 115, 116, 117,
     118, 119, 120, 121, 122, 123, 124, 125, 126, 127, 128}

Product(M, n, q) == M = n * q

LEMMA DivisorHasQuotient ==
    ASSUME NEW M \in Int, NEW n \in Int, n > 0, M % n = 0
    PROVE  \E q \in Int : Product(M, n, q)
  <1> DEFINE q == M \div n
  <1>1. M = n * q + (M % n)
    BY SMT
  <1>2. q \in Int
    BY SMT
  <1> HIDE DEF q
  <1>3. Product(M, n, q)
    BY <1>1, <1>2 DEF Product
  <1> QED
    BY <1>2, <1>3, Zenon

LEMMA QuotientPositive ==
    ASSUME NEW n \in Int, NEW q \in Int, n >= 512, n * q = 65536
    PROVE  q >= 1
  BY SMT

LEMMA QuotientBounded ==
    ASSUME NEW n \in Int, NEW q \in Int, n >= 512, n * q = 65536
    PROVE  q <= 128
  <1>1. ASSUME q >= 129
        PROVE  FALSE
    <2>1. n * 129 <= n * q
      BY <1>1, SMT
    <2> QED
      BY <2>1, SMT
  <1> QED
    BY <1>1

LEMMA QuotientListed ==
    ASSUME NEW q \in Int, q >= 1, q <= 128
    PROVE  q \in Quotients
  BY SMT DEF Quotients

LEMMA QuotientIsPower ==
    ASSUME NEW n \in Int, NEW q \in Quotients, q * n = 65536
    PROVE  q \in {1, 2, 4, 8, 16, 32, 64, 128}
  BY SMT DEF Quotients

LEMMA QuotientOfPower ==
    ASSUME NEW n \in Int, NEW q \in {1, 2, 4, 8, 16, 32, 64, 128}, q * n = 65536
    PROVE  n \in {512, 1024, 2048, 4096, 8192, 16384, 32768, 65536}
  BY SMT

LEMMA DivisorIsPageSize ==
    ASSUME NEW n \in Int, n >= 512, NEW q \in Int, Product(65536, n, q)
    PROVE  IsPageSize(n)
  <1>1. n * q = 65536 /\ q * n = 65536
    BY SMT DEF Product
  <1>2. q >= 1
    BY <1>1, QuotientPositive
  <1>3. q <= 128
    BY <1>1, QuotientBounded
  <1>4. q \in Quotients
    BY <1>2, <1>3, QuotientListed
  <1>5. q \in {1, 2, 4, 8, 16, 32, 64, 128}
    BY <1>1, <1>4, QuotientIsPower
  <1>6. n \in {512, 1024, 2048, 4096, 8192, 16384, 32768, 65536}
    BY <1>1, <1>5, QuotientOfPower
  <1> QED
    BY <1>6 DEF IsPageSize

\* checkLegacyPageSize of the builders admits what sqlite3mc calls a page size.
LEMMA PageSizesAgree ==
    ASSUME NEW n \in Int
    PROVE  CheckLegacyPageSize(n) <=> n = 0 \/ IsPageSize(n)
  <1>1. ASSUME CheckLegacyPageSize(n), n # 0
        PROVE  IsPageSize(n)
    <2>1. n \in 512 .. MAX_PAGE_SIZE
      BY <1>1, Zenon DEF CheckLegacyPageSize
    <2>2. MAX_PAGE_SIZE % n = 0
      BY <1>1, Zenon DEF CheckLegacyPageSize
    <2>3. n >= 512 /\ n > 0 /\ MAX_PAGE_SIZE \in Int
      BY <2>1 DEF MAX_PAGE_SIZE
    <2>4. PICK q \in Int : Product(MAX_PAGE_SIZE, n, q)
      BY <2>2, <2>3, DivisorHasQuotient, Zenon
    <2>5. Product(65536, n, q)
      BY <2>4 DEF MAX_PAGE_SIZE
    <2> QED
      BY <2>3, <2>5, DivisorIsPageSize
  <1>2. ASSUME IsPageSize(n)
        PROVE  n \in 512 .. MAX_PAGE_SIZE /\ MAX_PAGE_SIZE % n = 0
    BY <1>2, SMT DEF IsPageSize, MAX_PAGE_SIZE
  <1> QED
    BY <1>1, <1>2 DEF CheckLegacyPageSize

-----------------------------------------------------------------------------
(* The checks of the setters                                               *)

\* The range that sqlite3mc has for a parameter that a builder can set.
LEMMA Ranges ==
    ASSUME NEW c \in Ciphers, NEW p \in SettableOf(c)
    PROVE  /\ p \in DOMAIN ParamTable[c]
           /\ p \in {"legacy", "legacy_page_size", "kdf_iter", "fast_kdf_iter", "hmac_use",
                     "hmac_pgno", "hmac_salt_mask", "kdf_algorithm", "hmac_algorithm",
                     "plaintext_header_size"}
           /\ p = "plaintext_header_size" => c = "sqlcipher"
           /\ ParamTable[c][p].min = IF p \in {"kdf_iter", "fast_kdf_iter"} THEN 1 ELSE 0
           /\ p = "legacy" => ParamTable[c][p].max = IF c = "sqlcipher" THEN 4 ELSE 1
           /\ p = "legacy_page_size" => ParamTable[c][p].max = MAX_PAGE_SIZE
           /\ p \in {"kdf_iter", "fast_kdf_iter"} => ParamTable[c][p].max = MAX_INT
           /\ p = "hmac_use" => ParamTable[c][p].max = 1
           /\ p \in {"hmac_pgno", "kdf_algorithm", "hmac_algorithm"} =>
                 ParamTable[c][p].max = 2
           /\ p = "hmac_salt_mask" => ParamTable[c][p].max = 255
           /\ p = "plaintext_header_size" => ParamTable[c][p].max = 100
  <1>1. CASE c = "chacha20"
    BY <1>1, SettableNames DEF ParamTable, Range3
  <1>2. CASE c = "rc4"
    BY <1>2, SettableNames DEF ParamTable, Range3
  <1>3. CASE c = "aes128cbc"
    BY <1>3, SettableNames DEF ParamTable, Range3
  <1>4. CASE c = "aes256cbc"
    BY <1>4, SettableNames DEF ParamTable, Range3
  <1>5. CASE c = "ascon128"
    BY <1>5, SettableNames DEF ParamTable, Range3
  <1>6. CASE c = "sqlcipher"
    BY <1>6, SettableNames DEF ParamTable, Range3
  <1> QED
    BY <1>1, <1>2, <1>3, <1>4, <1>5, <1>6, CipherNames

\* A setter passes exactly the values that sqlite3mc accepts.
LEMMA ChecksAgree ==
    ASSUME NEW c \in Ciphers, NEW p \in SettableOf(c), NEW n, IsValueOf(p, n)
    PROVE  Requires(c, p, n) <=> AcceptsValue(c, p, n)
  <1>1. n \in Int /\ MAX_INT \in Int /\ MAX_PAGE_SIZE \in Int
    <2>1. MAX_INT \in Int /\ MAX_PAGE_SIZE \in Int
      BY SMT DEF MAX_INT, MAX_PAGE_SIZE
    <2> QED
      BY <2>1, SMT DEF IsValueOf
  <1>2. ParamTable[c][p].min \in Int /\ ParamTable[c][p].max \in Int
    BY <1>1, Ranges
  <1>3. AcceptsValue(c, p, n) <=>
          /\ n >= 0 /\ n >= ParamTable[c][p].min /\ n <= ParamTable[c][p].max
          /\ CheckParameterValue(c, p, n)
    BY <1>1, <1>2, Ranges DEF AcceptsValue
  <1>4. CASE p = "legacy"
    BY <1>1, <1>3, <1>4, Ranges DEF Requires, CheckParameterValue
  <1>5. CASE p = "legacy_page_size"
    <2>1. Requires(c, p, n) <=> n = 0 \/ IsPageSize(n)
      BY <1>1, <1>5, PageSizesAgree DEF Requires
    <2>2. CheckParameterValue(c, p, n) <=> (n > 0 => IsPageSize(n))
      BY <1>5, Zenon DEF CheckParameterValue
    <2>3. AcceptsValue(c, p, n) <=> n >= 0 /\ n <= 65536 /\ CheckParameterValue(c, p, n)
      BY <1>1, <1>3, <1>5, Ranges DEF MAX_PAGE_SIZE
    <2>4. IsPageSize(n) => n > 0 /\ n >= 0 /\ n <= 65536
      BY SMT DEF IsPageSize
    <2>5. CASE n > 0
      <3>1. n >= 0 /\ n # 0
        BY <1>1, <2>5
      <3> QED
        BY <2>1, <2>2, <2>3, <2>4, <2>5, <3>1
    <2>6. CASE n = 0
      <3>1. n >= 0 /\ n <= 65536 /\ ~(n > 0)
        BY <2>6
      <3> QED
        BY <2>1, <2>2, <2>3, <2>6, <3>1
    <2>7. CASE n < 0
      <3>1. ~(n >= 0) /\ n # 0
        BY <1>1, <2>7
      <3> QED
        BY <2>1, <2>3, <2>4, <3>1
    <2> QED
      BY <1>1, <2>5, <2>6, <2>7
  <1>6. CASE p \in {"kdf_iter", "fast_kdf_iter"}
    <2>1. n <= MAX_INT
      BY <1>1, SMT DEF IsValueOf
    <2> QED
      BY <1>1, <1>3, <1>6, <2>1, Ranges, SMT DEF Requires, CheckKdfIter, CheckParameterValue
  <1>7. CASE p \in {"hmac_use", "hmac_pgno", "kdf_algorithm", "hmac_algorithm",
                    "hmac_salt_mask"}
    BY <1>1, <1>3, <1>7, Ranges DEF Requires, CheckParameterValue, IsValueOf
  <1>8. CASE p = "plaintext_header_size"
    BY <1>1, <1>3, <1>8, Ranges DEF Requires, CheckParameterValue
  <1> QED
    BY <1>4, <1>5, <1>6, <1>7, <1>8, Ranges

-----------------------------------------------------------------------------
(* Sets of configurations                                                  *)

\* A value that a setter accepts, or the fixed legacy of RC4 and Ascon.
Valid(c, p, n) ==
    IF p \in SettableOf(c) THEN IsValueOf(p, n) /\ Requires(c, p, n)
    ELSE n = IF c = "rc4" THEN 1 ELSE 0

Required(c) == (SettableOf(c) \cup {"legacy"}) \ Nullable

ParamMaps(c) ==
    {f \in UNION {[Q -> Int] : Q \in SUBSET (SettableOf(c) \cup {"legacy"})} :
        /\ Required(c) \subseteq DOMAIN f
        /\ \A p \in DOMAIN f : Valid(c, p, f[p])}

Configurations == UNION {[cipher : {c}, params : ParamMaps(c)] : c \in Ciphers}

Encryptions == [cipherConfig : Configurations, hmacCheck : BOOLEAN, mcLegacyWAL : BOOLEAN]

EncryptionBuilders ==
    [cipherConfig : SUBSET Configurations, hmacCheck : BOOLEAN, mcLegacyWAL : BOOLEAN]

FilesystemConfigs == [encryption : SUBSET Encryptions, migrations : SUBSET Seq(Encryptions)]

LEMMA ConfigurationFields ==
    ASSUME NEW config \in Configurations
    PROVE  /\ config.cipher \in Ciphers
           /\ config.params \in ParamMaps(config.cipher)
           /\ config = [cipher |-> config.cipher, params |-> config.params]
  <1>1. PICK c \in Ciphers : config \in [cipher : {c}, params : ParamMaps(c)]
    BY DEF Configurations
  <1> QED
    BY <1>1

\* Numbers that fit a Kotlin Int.
LEMMA SmallValues ==
    ASSUME NEW n \in Int, n >= 0, n <= 65536
    PROVE  n \in -MAX_INT - 1 .. MAX_INT
  <1>1. MAX_INT \in Int /\ MAX_INT >= 65536
    BY SMT DEF MAX_INT
  <1> HIDE DEF MAX_INT
  <1>2. -MAX_INT \in Int /\ -MAX_INT <= 0
    BY <1>1, SMT
  <1>3. -MAX_INT - 1 \in Int /\ -MAX_INT - 1 <= 0
    BY <1>2, SMT
  <1> QED
    BY <1>1, <1>3, SMT

LEMMA MakeConfiguration ==
    ASSUME NEW c \in Ciphers, NEW f \in ParamMaps(c)
    PROVE  [cipher |-> c, params |-> f] \in Configurations
  <1>1. [cipher |-> c, params |-> f] \in [cipher : {c}, params : ParamMaps(c)]
    OBVIOUS
  <1> QED
    BY <1>1 DEF Configurations

LEMMA ParamMapFields ==
    ASSUME NEW c, NEW f \in ParamMaps(c)
    PROVE  /\ DOMAIN f \subseteq SettableOf(c) \cup {"legacy"}
           /\ \A x \in DOMAIN f : f[x] \in Int
           /\ f = [x \in DOMAIN f |-> f[x]]
           /\ Required(c) \subseteq DOMAIN f
           /\ \A p \in DOMAIN f : Valid(c, p, f[p])
  <1>1. PICK Q \in SUBSET (SettableOf(c) \cup {"legacy"}) : f \in [Q -> Int]
    BY DEF ParamMaps
  <1>2. Required(c) \subseteq DOMAIN f /\ \A p \in DOMAIN f : Valid(c, p, f[p])
    BY DEF ParamMaps
  <1> QED
    BY <1>1, <1>2

LEMMA MakeParamMap ==
    ASSUME NEW c, NEW Q \in SUBSET (SettableOf(c) \cup {"legacy"}), NEW f \in [Q -> Int],
           Required(c) \subseteq Q, \A p \in Q : Valid(c, p, f[p])
    PROVE  f \in ParamMaps(c)
  BY DEF ParamMaps

LEMMA ConfigurationSet ==
    ASSUME NEW config, IsConfiguration(config)
    PROVE  config \in Configurations
  <1> DEFINE In(c, Q) ==
        /\ config \in [cipher : {c}, params : [Q -> Int]]
        /\ (SettableOf(c) \cup {"legacy"}) \ Nullable \subseteq Q
        /\ \A p \in Q \cap SettableOf(c) :
              IsValueOf(p, config.params[p]) /\ Requires(c, p, config.params[p])
        /\ \A p \in Q \ SettableOf(c) : config.params[p] = DefaultFor(config).params[p]
  <1>1. PICK c \in Ciphers : \E Q \in SUBSET (SettableOf(c) \cup {"legacy"}) : In(c, Q)
    BY DEF IsConfiguration
  <1>2. PICK Q \in SUBSET (SettableOf(c) \cup {"legacy"}) : In(c, Q)
    BY <1>1
  <1>3. config.cipher = c /\ config.params \in [Q -> Int]
        /\ config = [cipher |-> c, params |-> config.params]
    BY <1>2
  <1>4. ASSUME NEW p \in Q PROVE Valid(c, p, config.params[p])
    <2>1. CASE p \in SettableOf(c)
      BY <1>2, <2>1 DEF Valid
    <2>2. CASE p \notin SettableOf(c)
      <3>1. p = "legacy" /\ c \in {"rc4", "ascon128"}
        BY <1>1, <2>2, CipherNames, SettableNames
      <3>2. config.params[p] = DefaultFor(config).params[p]
        BY <1>2, <2>2
      <3>3. DefaultFor(config).params["legacy"] = IF c = "rc4" THEN 1 ELSE 0
        BY <1>3, <3>1 DEF DefaultFor, RC4Default, Ascon128Default
      <3> QED
        BY <2>2, <3>1, <3>2, <3>3 DEF Valid
    <2> QED
      BY <2>1, <2>2
  <1>5. config.params \in ParamMaps(c)
    BY <1>2, <1>3, <1>4, MakeParamMap DEF Required
  <1> QED
    BY <1>3, <1>5, MakeConfiguration

\* A setter changes one parameter of the cipher it belongs to.
LEMMA SetFieldType ==
    ASSUME NEW config \in Configurations, NEW p \in SettableOf(config.cipher), NEW value,
           value = {} => p \in Nullable,
           \A n \in value : n \in Int /\ Valid(config.cipher, p, n)
    PROVE  SetField(config, p, value) \in Configurations
  <1> DEFINE f == config.params
             c == config.cipher
             g == IF value = {} THEN Restrict(f, DOMAIN f \ {p})
                  ELSE Over([q \in {p} |-> CHOOSE n \in value : TRUE], f)
  <1>1. /\ c \in Ciphers /\ f \in ParamMaps(c)
        /\ config = [cipher |-> c, params |-> f]
    BY ConfigurationFields
  <1>2. /\ DOMAIN f \subseteq SettableOf(c) \cup {"legacy"}
        /\ \A x \in DOMAIN f : f[x] \in Int
        /\ Required(c) \subseteq DOMAIN f /\ \A x \in DOMAIN f : Valid(c, x, f[x])
    BY <1>1, ParamMapFields
  <1>3. g \in ParamMaps(c)
    <2>1. CASE value = {}
      <3>1. Restrict(f, DOMAIN f \ {p}) \in [DOMAIN f \ {p} -> Int]
        BY <1>2 DEF Restrict
      <3>2. Required(c) \subseteq DOMAIN f \ {p}
        BY <1>2, <2>1 DEF Required
      <3>3. \A x \in DOMAIN f \ {p} : Valid(c, x, Restrict(f, DOMAIN f \ {p})[x])
        BY <1>2 DEF Restrict
      <3> QED
        BY <1>2, <2>1, <3>1, <3>2, <3>3, MakeParamMap
    <2>2. CASE value # {}
      <3> DEFINE n == CHOOSE n \in value : TRUE
      <3>1. n \in Int /\ Valid(c, p, n)
        BY <2>2
      <3> HIDE DEF n
      <3>2. Over([q \in {p} |-> n], f) \in [{p} \cup DOMAIN f -> Int]
        BY <1>2, <3>1 DEF Over
      <3>3. {p} \cup DOMAIN f \in SUBSET (SettableOf(c) \cup {"legacy"})
        BY <1>2
      <3>6. \A x \in {p} \cup DOMAIN f : Valid(c, x, Over([q \in {p} |-> n], f)[x])
        BY <1>2, <3>1 DEF Over
      <3>4. Over([q \in {p} |-> n], f) \in ParamMaps(c)
        BY <1>2, <3>2, <3>3, <3>6, MakeParamMap
      <3>5. g = Over([q \in {p} |-> n], f)
        BY <2>2 DEF n
      <3> QED
        BY <3>4, <3>5
    <2> QED
      BY <2>1, <2>2
  <1> HIDE DEF g
  <1>4. SetField(config, p, value) = [config EXCEPT !.params = g]
    BY DEF SetField, g
  <1>5. [config EXCEPT !.params = g] = [cipher |-> c, params |-> g]
    BY <1>1
  <1> QED
    BY <1>1, <1>3, <1>4, <1>5, MakeConfiguration

\* build() makes a configuration of the same cipher.
LEMMA BuildCipherType ==
    ASSUME NEW config \in Configurations
    PROVE  BuildCipher(config) \in Configurations
  <1> DEFINE f == config.params
             c == config.cipher
             fallback == [hmac_pgno |-> 1, hmac_salt_mask |-> 58, plaintext_header_size |-> 0]
             full == Over(f, fallback)
             g == Restrict(full, DOMAIN full \ NullIn(full.legacy))
  <1>1. /\ c \in Ciphers /\ f \in ParamMaps(c)
        /\ config = [cipher |-> c, params |-> f]
    BY ConfigurationFields
  <1>2. CASE c # "sqlcipher"
    BY <1>2 DEF BuildCipher
  <1>3. CASE c = "sqlcipher"
    <2>1. /\ DOMAIN f \subseteq SettableOf(c) \cup {"legacy"}
          /\ \A x \in DOMAIN f : f[x] \in Int
          /\ Required(c) \subseteq DOMAIN f /\ \A x \in DOMAIN f : Valid(c, x, f[x])
      BY <1>1, ParamMapFields
    <2>2. DOMAIN fallback \subseteq SettableOf(c) /\ \A x \in DOMAIN fallback : fallback[x] \in Int
      BY <1>3, SettableNames
    <2>8. \A x \in DOMAIN fallback : Valid(c, x, fallback[x])
      <3>1. /\ IsValueOf("hmac_pgno", 1) /\ IsValueOf("hmac_salt_mask", 58)
            /\ IsValueOf("plaintext_header_size", 0)
        <4>1. \A n \in {0, 1, 58} : n \in -MAX_INT - 1 .. MAX_INT
          <5>1. SUFFICES ASSUME NEW n \in {0, 1, 58}
                         PROVE  n \in -MAX_INT - 1 .. MAX_INT
            OBVIOUS
          <5>2. n \in Int /\ n >= 0 /\ n <= 65536
            BY SMT
          <5> QED
            BY <5>2, SmallValues
        <4>2. 1 \in 0 .. 2 /\ 58 \in -128 .. 127
          BY SMT
        <4> QED
          BY <4>1, <4>2 DEF IsValueOf
      <3>2. 0 % 16 = 0 /\ 0 \in 0 .. 100 /\ 58 >= 0
        BY SMT
      <3>3. /\ Requires("sqlcipher", "hmac_pgno", 1) /\ Requires("sqlcipher", "hmac_salt_mask", 58)
            /\ Requires("sqlcipher", "plaintext_header_size", 0)
        BY <3>2, Zenon DEF Requires
      <3> QED
        BY <1>3, <3>1, <3>3, SettableNames DEF Valid
    <2> HIDE DEF fallback
    <2>3. /\ DOMAIN full \subseteq SettableOf(c) \cup {"legacy"}
          /\ \A x \in DOMAIN full : full[x] \in Int
          /\ Required(c) \subseteq DOMAIN full /\ \A x \in DOMAIN full : Valid(c, x, full[x])
      BY <2>1, <2>2, <2>8 DEF Over
    <2> HIDE DEF full
    <2>4. g \in [DOMAIN full \ NullIn(full.legacy) -> Int]
      BY <2>3 DEF Restrict
    <2>9. Required(c) \subseteq DOMAIN full \ NullIn(full.legacy)
      BY <2>3 DEF Required, Nullable, NullIn
    <2>10. \A x \in DOMAIN full \ NullIn(full.legacy) : Valid(c, x, g[x])
      BY <2>3 DEF Restrict
    <2>5. g \in ParamMaps(c)
      BY <2>3, <2>4, <2>9, <2>10, MakeParamMap
    <2> HIDE DEF g
    <2>6. BuildCipher(config) = [config EXCEPT !.params = g]
      BY <1>3 DEF BuildCipher, g, full, fallback
    <2>7. [config EXCEPT !.params = g] = [cipher |-> c, params |-> g]
      BY <1>1
    <2> QED
      BY <1>1, <2>5, <2>6, <2>7, MakeConfiguration
  <1> QED
    BY <1>2, <1>3

LEMMA BuildEncryptionType ==
    ASSUME NEW e \in EncryptionBuilders
    PROVE  /\ BuildEncryption(e) \subseteq Encryptions
           /\ \A c \in e.cipherConfig : \E m \in BuildEncryption(e) : m.cipherConfig = c
  <1>1. ASSUME NEW c \in e.cipherConfig
        PROVE  /\ [e EXCEPT !.cipherConfig = c] \in Encryptions
               /\ [e EXCEPT !.cipherConfig = c].cipherConfig = c
    BY DEF EncryptionBuilders, Encryptions
  <1> QED
    BY <1>1 DEF BuildEncryption

LEMMA DefaultType ==
    /\ ChaCha20Default \in Configurations
    /\ EncryptionDefault \in Encryptions
    /\ NewEncryption \in EncryptionBuilders
  <1>1. ChaCha20Default.params \in [{"legacy", "legacy_page_size", "kdf_iter"} -> Int]
    BY DEF ChaCha20Default
  <1>5. \A p \in {"legacy", "legacy_page_size", "kdf_iter"} :
           Valid("chacha20", p, ChaCha20Default.params[p])
    <2>1. ChaCha20Default.params = [legacy |-> 0, legacy_page_size |-> 4096, kdf_iter |-> 64007]
      BY DEF ChaCha20Default
    <2>2. /\ IsValueOf("legacy", 0) /\ IsValueOf("legacy_page_size", 4096)
          /\ IsValueOf("kdf_iter", 64007)
      <3>1. \A n \in {0, 4096, 64007} : n \in -MAX_INT - 1 .. MAX_INT
        <4>1. SUFFICES ASSUME NEW n \in {0, 4096, 64007}
                       PROVE  n \in -MAX_INT - 1 .. MAX_INT
          OBVIOUS
        <4>2. n \in Int /\ n >= 0 /\ n <= 65536
          BY SMT
        <4> QED
          BY <4>2, SmallValues
      <3> QED
        BY <3>1 DEF IsValueOf
    <2>3. Requires("chacha20", "legacy", 0)
      BY DEF Requires
    <2>4. CheckLegacyPageSize(4096) /\ CheckKdfIter(64007)
      BY SMT DEF CheckLegacyPageSize, CheckKdfIter, MAX_PAGE_SIZE
    <2>5. /\ Requires("chacha20", "legacy_page_size", 4096)
          /\ Requires("chacha20", "kdf_iter", 64007)
      BY <2>4 DEF Requires
    <2> QED
      BY <2>1, <2>2, <2>3, <2>5, SettableNames DEF Valid
  <1>2. "chacha20" \in Ciphers /\ ChaCha20Default.params \in ParamMaps("chacha20")
    BY <1>1, <1>5, CipherNames, SettableNames, MakeParamMap DEF Required
  <1>3. ChaCha20Default = [cipher |-> "chacha20", params |-> ChaCha20Default.params]
    BY DEF ChaCha20Default
  <1>4. ChaCha20Default \in Configurations
    BY <1>2, <1>3, MakeConfiguration
  <1> QED
    BY <1>4 DEF EncryptionDefault, NewEncryption, Encryptions, EncryptionBuilders

-----------------------------------------------------------------------------
(* The effect of a configuration                                           *)

\* Every configuration sets legacy; that of SQLCipher is one of its versions.
LEMMA LegacyIsSet ==
    ASSUME NEW config \in Configurations
    PROVE  /\ "legacy" \in DOMAIN config.params
           /\ config.params.legacy \in Int
           /\ config.cipher = "sqlcipher" => config.params.legacy \in 0 .. 4
           /\ config.cipher \in {"chacha20", "aes128cbc", "aes256cbc"} =>
                 config.params.legacy \in 0 .. 1
           /\ config.cipher = "rc4" => config.params.legacy = 1
  <1> DEFINE c == config.cipher
             f == config.params
  <1>1. c \in Ciphers /\ f \in ParamMaps(c)
    BY ConfigurationFields
  <1>2. "legacy" \in DOMAIN f
    BY <1>1, ParamMapFields DEF Required, Nullable
  <1>3. f["legacy"] \in Int /\ Valid(c, "legacy", f["legacy"])
    BY <1>1, <1>2, ParamMapFields
  <1>4. c \in {"sqlcipher", "chacha20", "aes128cbc", "aes256cbc"} =>
          Requires(c, "legacy", f["legacy"])
    BY <1>3, SettableNames DEF Valid
  <1>5. c = "rc4" => f["legacy"] = 1
    BY <1>3, SettableNames DEF Valid
  <1> QED
    BY <1>2, <1>3, <1>4, <1>5 DEF Requires

\* What a predefined configuration has for a parameter is what a new connection
\* has for it once it was told the cipher and the legacy version.
LEMMA PredefinedValues ==
    ASSUME NEW config \in Configurations, NEW p \in DOMAIN DefaultFor(config).params,
           p # "legacy", p \notin WithoutEffect(config)
    PROVE  DefaultFor(config).params[p] =
             IF Versioned(config) /\ p \in VersionNames
             THEN VersionValue(config.params.legacy, p)
             ELSE ParamTable[config.cipher][p].default
  <1>1. config.cipher \in Ciphers
    BY ConfigurationFields
  <1>2. CASE config.cipher = "chacha20"
    <2>1. config.params.legacy = 0 \/ p # "kdf_iter"
      BY <1>2 DEF WithoutEffect
    <2> QED
      BY <1>2, <2>1, SMT
         DEF DefaultFor, ChaCha20Default, SQLeet, Versioned, ParamTable, Range3
  <1>3. CASE config.cipher = "rc4"
    BY <1>3, SMT DEF DefaultFor, RC4Default, Versioned, ParamTable, Range3
  <1>4. CASE config.cipher = "aes128cbc"
    BY <1>4, SMT DEF DefaultFor, WxAES128Default, Versioned, ParamTable, Range3
  <1>5. CASE config.cipher = "aes256cbc"
    BY <1>5, SMT DEF DefaultFor, WxAES256Default, Versioned, ParamTable, Range3
  <1>6. CASE config.cipher = "ascon128"
    BY <1>6, SMT DEF DefaultFor, Ascon128Default, Versioned, ParamTable, Range3
  <1>7. CASE config.cipher = "sqlcipher"
    <2>1. config.params.legacy \in 0 .. 4 /\ "legacy" \in DOMAIN config.params
      BY <1>7, LegacyIsSet
    <2> USE DEF DefaultFor, Versioned, VersionNames, VersionValue, VersionParams,
                ParamTable, Range3, SHA1, SHA512
    <2>2. CASE config.params.legacy = 0
      BY <1>7, <2>2, SMT DEF SqlCipherDefault, SqlCipherV4
    <2>3. CASE config.params.legacy = 1
      BY <1>7, <2>1, <2>3, SMT DEF SqlCipherV1
    <2>4. CASE config.params.legacy = 2
      BY <1>7, <2>1, <2>4, SMT DEF SqlCipherV2
    <2>5. CASE config.params.legacy = 3
      <3> DEFINE f == [legacy |-> 2, legacy_page_size |-> 1024, kdf_iter |-> 4000,
                       fast_kdf_iter |-> 2, hmac_use |-> 1, hmac_pgno |-> 1,
                       hmac_salt_mask |-> 58, kdf_algorithm |-> 0, hmac_algorithm |-> 0]
      <3>1. SqlCipherV3.params = [f EXCEPT !.legacy = 3, !.kdf_iter = 64000]
        <4>1. SqlCipherV2 = [cipher |-> "sqlcipher", params |-> f]
          BY SMT DEF SqlCipherV2
        <4> HIDE DEF f
        <4> QED
          BY <4>1, SMT DEF SqlCipherV3
      <3>2. DefaultFor(config).params = SqlCipherV3.params
        BY <1>7, <2>5, SMT
      <3> DEFINE g == DefaultFor(config).params
      <3>3. /\ DOMAIN g = {"legacy", "legacy_page_size", "kdf_iter", "fast_kdf_iter", "hmac_use",
                           "hmac_pgno", "hmac_salt_mask", "kdf_algorithm", "hmac_algorithm"}
            /\ g.legacy_page_size = 1024 /\ g.kdf_iter = 64000 /\ g.fast_kdf_iter = 2
            /\ g.hmac_use = 1 /\ g.hmac_pgno = 1 /\ g.hmac_salt_mask = 58
            /\ g.kdf_algorithm = 0 /\ g.hmac_algorithm = 0
        <4> HIDE DEF DefaultFor
        <4> QED
          BY <3>1, <3>2, SMT
      <3> HIDE DEF g
      <3>4. g[p] = IF p \in VersionNames THEN VersionValue(3, p)
                   ELSE ParamTable["sqlcipher"][p].default
        BY <3>3, SMT DEF g
      <3> QED
        BY <1>7, <2>1, <2>5, <3>4, SMT DEF g
    <2>6. CASE config.params.legacy = 4
      BY <1>7, <2>1, <2>6, SMT DEF SqlCipherV4
    <2> QED
      BY <2>1, <2>2, <2>3, <2>4, <2>5, <2>6
  <1> QED
    BY <1>1, <1>2, <1>3, <1>4, <1>5, <1>6, <1>7, CipherNames

\* Every pragma of a configuration is one of MCPragma.ALL.
LEMMA ToldAll ==
    {"legacy", "legacy_page_size", "kdf_iter", "fast_kdf_iter", "hmac_use",
     "hmac_pgno", "hmac_salt_mask", "kdf_algorithm", "hmac_algorithm",
     "plaintext_header_size"} \subseteq Told(12)
  <1>1. \A i \in 3 .. 12 : Names[i] \in Told(12)
    BY DEF Told
  <1>2. /\ Names[3] = "legacy" /\ Names[4] = "legacy_page_size" /\ Names[5] = "kdf_iter"
        /\ Names[6] = "fast_kdf_iter" /\ Names[7] = "hmac_use" /\ Names[8] = "hmac_pgno"
        /\ Names[9] = "hmac_salt_mask" /\ Names[10] = "kdf_algorithm"
        /\ Names[11] = "hmac_algorithm" /\ Names[12] = "plaintext_header_size"
    BY DEF Names
  <1>3. {3, 4, 5, 6, 7, 8, 9, 10, 11, 12} \subseteq 3 .. 12
    OBVIOUS
  <1> QED
    BY <1>1, <1>2, <1>3

\* The parameters that become pragmas are accepted ...
LEMMA KeptIsAccepted ==
    ASSUME NEW config \in Configurations, NEW p \in DOMAIN config.params,
           p \notin WithoutEffect(config)
    PROVE  /\ p \in Params(config.cipher)
           /\ p \in Told(12)
           /\ AcceptsValue(config.cipher, p, config.params[p])
  <1> DEFINE c == config.cipher
             f == config.params
  <1>1. c \in Ciphers /\ f \in ParamMaps(c)
    BY ConfigurationFields
  <1>2. p \in SettableOf(c) \cup {"legacy"} /\ Valid(c, p, f[p])
    BY <1>1, ParamMapFields
  <1>3. CASE p \in SettableOf(c)
    <2>1. IsValueOf(p, f[p]) /\ Requires(c, p, f[p])
      BY <1>2, <1>3 DEF Valid
    <2>2. AcceptsValue(c, p, f[p])
      BY <1>1, <1>3, <2>1, ChecksAgree
    <2> QED
      BY <1>1, <1>3, <2>2, Ranges, ToldAll DEF Params
  <1>4. CASE p \notin SettableOf(c)
    <2>1. c = "rc4" /\ p = "legacy"
      <3>1. p = "legacy" /\ c \in {"rc4", "ascon128"}
        BY <1>1, <1>2, <1>4, CipherNames, SettableNames
      <3> QED
        BY <3>1 DEF WithoutEffect
    <2>2. f[p] = 1
      BY <2>1, LegacyIsSet
    <2>3. "legacy" \in Params("rc4") /\ AcceptsValue("rc4", "legacy", 1)
      BY SMT DEF Params, AcceptsValue, ParamTable, Range3, CheckParameterValue
    <2> QED
      BY <2>1, <2>2, <2>3, ToldAll
  <1> QED
    BY <1>3, <1>4

\* ... and those that do not are in the table already.
LEMMA SettledIsConfigured ==
    ASSUME NEW config \in Configurations, NEW p \in DOMAIN config.params,
           p \notin WithoutEffect(config)
    PROVE  Settled(config, 12, BuiltIn(config.cipher))[p] = config.params[p]
  <1> DEFINE c == config.cipher
  <1>1. /\ p \in Params(c) /\ p \in Told(12)
        /\ AcceptsValue(c, p, config.params[p])
    BY KeptIsAccepted
  <1>2. CASE p \in Kept(config)
    BY <1>1, <1>2 DEF Settled
  <1>3. CASE p \notin Kept(config)
    <2>1. /\ p # "legacy" /\ p \in DOMAIN DefaultFor(config).params
          /\ config.params[p] = DefaultFor(config).params[p]
      BY <1>3 DEF Kept, Differs
    <2>2. config.params[p] = IF Versioned(config) /\ p \in VersionNames
                             THEN VersionValue(config.params.legacy, p)
                             ELSE BuiltIn(c)[p]
      BY <1>1, <2>1, PredefinedValues DEF BuiltIn
    <2> QED
      BY <1>1, <1>3, <2>2 DEF Settled
  <1> QED
    BY <1>2, <1>3

\* A new connection that executes the statements of a configuration has the
\* configured parameters in effect.
LEMMA EncryptionTakesEffect ==
    ASSUME NEW e \in Encryptions
    PROVE  LET config == e.cipherConfig
               used   == Allocate(ConfigureAll(CloneTable, "main", ApplyPragmas(e)))
           IN  /\ used.cipher = config.cipher
               /\ \A p \in DOMAIN config.params \ WithoutEffect(config) :
                      used.params[p] = config.params[p]
  <1> DEFINE config == e.cipherConfig
             c == config.cipher
             t == ConfigureAll(CloneTable, "main", ApplyPragmas(e))
             v == [p \in Params(c) |->
                     IF p \in ReadParams(t, c) THEN t.params[c][p].value ELSE 0]
  <1>1. /\ config \in Configurations /\ c \in Ciphers
        /\ e.hmacCheck \in BOOLEAN /\ e.mcLegacyWAL \in BOOLEAN
    BY ConfigurationFields DEF Encryptions
  <1>2. IsEncryption(e)
    <2>1. /\ DOMAIN config.params \subseteq SettableOf(c) \cup {"legacy"}
          /\ \A p \in DOMAIN config.params : config.params[p] \in Int
      BY <1>1, ConfigurationFields, ParamMapFields
    <2>2. SettableOf(c) \subseteq Params(c)
      BY <1>1, Ranges DEF Params
    <2> QED
      BY <1>1, <2>1, <2>2 DEF IsEncryption, IsConfig
  <1>3. Configuring(t, "main", e, 12, BuiltIn(c), BuiltIn(c))
    BY <1>1, <1>2, FreshTable, ConfigureAllEffect
  <1> HIDE DEF t
  <1>4. t.cipher.value = c
    BY <1>3 DEF Configuring
  <1>5. ASSUME NEW p \in DOMAIN config.params \ WithoutEffect(config)
        PROVE  p \in Params(c) /\ t.params[c][p].value = config.params[p]
    BY <1>1, <1>3, <1>5, KeptIsAccepted, SettledIsConfigured DEF Configuring, Val
  <1>6. c # "ascon128" => t.params[c]["legacy"].value = config.params["legacy"]
                          /\ "legacy" \in Params(c)
    <2>1. c # "ascon128" => "legacy" \in DOMAIN config.params \ WithoutEffect(config)
      BY <1>1, LegacyIsSet DEF WithoutEffect
    <2> QED
      BY <1>5, <2>1
  <1>7. ASSUME NEW p \in DOMAIN config.params \ WithoutEffect(config)
        PROVE  p \in ReadParams(t, c)
    <2>1. CASE c = "sqlcipher" /\ p = "plaintext_header_size"
      <3>1. config.params.legacy = 4
        BY <2>1 DEF WithoutEffect
      <3>2. ~(t.params[c].legacy.value < 4)
        BY <1>6, <2>1, <3>1
      <3> QED
        BY <1>5, <2>1, <3>2 DEF ReadParams, Params
    <2>2. CASE ~(c = "sqlcipher" /\ p = "plaintext_header_size")
      BY <1>5, <2>2 DEF ReadParams, Params
    <2> QED
      BY <2>1, <2>2
  <1>8. ASSUME NEW p \in DOMAIN config.params \ WithoutEffect(config)
        PROVE  v[p] = config.params[p]
    BY <1>5, <1>7
  <1>9. Allocate(t) = [cipher |-> c,
                       params |-> IF c = "chacha20" /\ v.legacy # 0
                                  THEN [v EXCEPT !.kdf_iter = 12345] ELSE v]
    BY <1>4 DEF Allocate, Params
  <1>10. ASSUME c = "chacha20", v.legacy # 0
         PROVE  "kdf_iter" \in WithoutEffect(config)
    <2>1. "legacy" \in DOMAIN config.params \ WithoutEffect(config)
             \/ config.params.legacy # 0
      BY <1>1, <1>10, LegacyIsSet DEF WithoutEffect
    <2>2. config.params.legacy # 0
      BY <1>8, <1>10, <2>1
    <2> QED
      BY <1>10, <2>2 DEF WithoutEffect
  <1> HIDE DEF v
  <1>11. ASSUME NEW p \in DOMAIN config.params \ WithoutEffect(config)
         PROVE  Allocate(t).params[p] = config.params[p]
    <2>1. CASE c = "chacha20" /\ v.legacy # 0
      <3>1. p # "kdf_iter"
        BY <1>10, <1>11, <2>1
      <3>2. [v EXCEPT !.kdf_iter = 12345][p] = v[p]
        BY <1>5, <3>1, SMT DEF v
      <3> QED
        BY <1>8, <1>9, <2>1, <3>2
    <2>2. CASE ~(c = "chacha20" /\ v.legacy # 0)
      BY <1>8, <1>9, <2>2
    <2> QED
      BY <2>1, <2>2
  <1>12. Allocate(t).cipher = c
    BY <1>9
  <1> QED
    BY <1>11, <1>12 DEF t

-----------------------------------------------------------------------------
(* The inductive invariant                                                 *)

Scopes == {"filesystem", "encryption", "migrations", "migration", "cipher", "built",
           "rejected"}

Ciphering == [config : Configurations, outer : {"none", "encryption", "migration"},
              assigns : BOOLEAN]

History == [selected : SUBSET Configurations, encryption : SUBSET Configurations,
            declared : Seq(Encryptions)]

Typed ==
    /\ app \in Applications
    /\ scope \in Scopes
    /\ fs \in FilesystemConfigs
    /\ migrations \in Seq(Encryptions)
    /\ enc \in EncryptionBuilders
    /\ cipher \in Ciphering
    /\ scope = "cipher" => cipher.outer # "none"
    /\ built \in SUBSET FilesystemConfigs
    /\ asked \in History

\* ms are the declared migrations, each once, in the order of the first declarations.
AsDeclared(ms, declared) ==
    /\ ToSet(ms) = ToSet(declared)
    /\ IsInjective(ms)
    /\ \A i, j \in DOMAIN ms : i < j =>
         \E k \in DOMAIN declared :
            /\ declared[k] = ms[i]
            /\ \A l \in 1 .. k : declared[l] # ms[j]

\* The block of the migrations is open; its builder is ahead of fs.
InMigrations ==
    scope \in {"migrations", "migration"} \/ (scope = "cipher" /\ cipher.outer = "migration")

Declared ==
    /\ InMigrations => AsDeclared(migrations, asked.declared)
    /\ ~InMigrations /\ scope # "rejected" =>
          \A ms \in fs.migrations : AsDeclared(ms, asked.declared)
    /\ MigrationsAsDeclared

IInv == Typed /\ Declared /\ BoundsAgree

\* Without an inherited Ascon configuration every selection is assigned.
NoAsconInherited ==
    \A a \in Applications : \A config \in a.inherited : config.cipher # "ascon128"

Selected ==
    /\ scope = "cipher" => cipher.assigns
    /\ scope \in {"encryption", "migration", "cipher"} =>
          asked.selected \subseteq enc.cipherConfig
    /\ \A config \in asked.encryption : \E e \in fs.encryption : e.cipherConfig = config
    /\ LastSelectionWins

-----------------------------------------------------------------------------
LEMMA EmptyAsDeclared == AsDeclared(<< >>, << >>)
  BY DEF AsDeclared, ToSet, IsInjective

\* A declared migration that is there already changes nothing ...
LEMMA DeclareAgain ==
    ASSUME NEW ms \in Seq(Encryptions), NEW declared \in Seq(Encryptions),
           NEW m \in Encryptions, AsDeclared(ms, declared), NEW i \in DOMAIN ms, ms[i] = m
    PROVE  AsDeclared(ms, Append(declared, m))
  <1> DEFINE more == Append(declared, m)
  <1>1. /\ DOMAIN declared = 1 .. Len(declared) /\ Len(declared) \in Nat
        /\ DOMAIN more = 1 .. Len(declared) + 1
        /\ more[Len(declared) + 1] = m
        /\ \A k \in DOMAIN declared : more[k] = declared[k]
    OBVIOUS
  <1> HIDE DEF more
  <1>2. ToSet(more) = ToSet(declared) \cup {m}
    BY <1>1 DEF ToSet
  <1>3. m \in ToSet(ms)
    BY DEF ToSet
  <1>4. ASSUME NEW a \in DOMAIN ms, NEW b \in DOMAIN ms, a < b
        PROVE  \E k \in DOMAIN more :
                  more[k] = ms[a] /\ \A l \in 1 .. k : more[l] # ms[b]
    <2>1. PICK k \in DOMAIN declared :
             declared[k] = ms[a] /\ \A l \in 1 .. k : declared[l] # ms[b]
      BY <1>4 DEF AsDeclared
    <2>2. k \in DOMAIN more /\ \A l \in 1 .. k : l \in DOMAIN declared
      BY <1>1, <2>1
    <2> QED
      BY <1>1, <2>1, <2>2
  <1> QED
    BY <1>2, <1>3, <1>4 DEF AsDeclared, more

\* ... and one that is new comes last.
LEMMA DeclareNew ==
    ASSUME NEW ms \in Seq(Encryptions), NEW declared \in Seq(Encryptions),
           NEW m \in Encryptions, AsDeclared(ms, declared), \A i \in DOMAIN ms : ms[i] # m
    PROVE  AsDeclared(Append(ms, m), Append(declared, m))
  <1> DEFINE more == Append(declared, m)
             all == Append(ms, m)
  <1>1. /\ DOMAIN declared = 1 .. Len(declared) /\ Len(declared) \in Nat
        /\ DOMAIN more = 1 .. Len(declared) + 1
        /\ more[Len(declared) + 1] = m
        /\ \A k \in DOMAIN declared : more[k] = declared[k]
    OBVIOUS
  <1>2. /\ DOMAIN ms = 1 .. Len(ms) /\ Len(ms) \in Nat
        /\ DOMAIN all = 1 .. Len(ms) + 1
        /\ all[Len(ms) + 1] = m
        /\ \A k \in DOMAIN ms : all[k] = ms[k]
    OBVIOUS
  <1> HIDE DEF more, all
  <1>3. ToSet(more) = ToSet(declared) \cup {m} /\ ToSet(all) = ToSet(ms) \cup {m}
    BY <1>1, <1>2 DEF ToSet
  <1>4. m \notin ToSet(declared) /\ ToSet(ms) = ToSet(declared)
    BY DEF ToSet, AsDeclared
  <1>5. IsInjective(all)
    BY <1>2 DEF IsInjective, AsDeclared
  <1>6. ASSUME NEW a \in DOMAIN all, NEW b \in DOMAIN all, a < b
        PROVE  \E k \in DOMAIN more :
                  more[k] = all[a] /\ \A l \in 1 .. k : more[l] # all[b]
    <2>1. a \in DOMAIN ms /\ (b \in DOMAIN ms \/ b = Len(ms) + 1)
      BY <1>2, <1>6
    <2>2. PICK k \in DOMAIN declared :
             declared[k] = ms[a] /\ \A l \in 1 .. k : declared[l] # all[b]
      <3>1. CASE b \in DOMAIN ms
        BY <1>2, <1>6, <2>1, <3>1 DEF AsDeclared
      <3>2. CASE b = Len(ms) + 1
        <4>1. PICK k \in DOMAIN declared : declared[k] = ms[a]
          BY <1>4, <2>1 DEF ToSet
        <4>2. \A l \in 1 .. k : declared[l] # m
          BY <1>1, <1>4, <4>1 DEF ToSet
        <4> QED
          BY <1>2, <3>2, <4>1, <4>2
      <3> QED
        BY <2>1, <3>1, <3>2
    <2>3. k \in DOMAIN more /\ \A l \in 1 .. k : l \in DOMAIN declared
      BY <1>1, <2>2
    <2> QED
      BY <1>1, <1>2, <2>1, <2>2, <2>3
  <1> QED
    BY <1>3, <1>4, <1>5, <1>6 DEF AsDeclared, more, all

\* Two migrations are equal when equals says so.
LEMMA SameIsEqual ==
    ASSUME NEW m \in Encryptions, NEW n \in Encryptions, SameMigration(m, n)
    PROVE  m = n
  <1>1. m.cipherConfig \in Configurations /\ n.cipherConfig \in Configurations
    BY DEF Encryptions
  <1>2. m.cipherConfig = n.cipherConfig
    BY <1>1, ConfigurationFields DEF SameMigration
  <1> QED
    BY <1>2 DEF SameMigration, Encryptions

-----------------------------------------------------------------------------
(* Steps                                                                   *)

LEMMA ApplicationConfigs ==
    ASSUME NEW a \in Applications
    PROVE  /\ a.presets \cup a.inherited \subseteq Configurations
           /\ \A s \in a.setters : \A n \in s[2] : IsValueOf(s[1], n) /\ n \in Int
           /\ \A s \in a.setters : \A m, n \in s[2] : m = n
  <1>1. \A config \in a.presets \cup a.inherited : IsConfiguration(config)
    BY ApplicationAssumption
  <1>2. \A s \in a.setters : \A m, n \in s[2] : IsValueOf(s[1], n) /\ m = n
    BY ApplicationAssumption
  <1>3. ASSUME NEW s \in a.setters, NEW n \in s[2]
        PROVE  IsValueOf(s[1], n) /\ n \in Int
    <2>1. IsValueOf(s[1], n)
      BY <1>2
    <2>2. MAX_INT \in Int
      BY SMT DEF MAX_INT
    <2> QED
      BY <2>1, <2>2, SMT DEF IsValueOf
  <1> QED
    BY <1>1, <1>2, <1>3, ConfigurationSet

LEMMA TypedInit ==
    ASSUME Init
    PROVE  Typed
  <1>1. NoCipher \in Ciphering /\ NoCipher.outer = "none"
    BY DefaultType DEF NoCipher, Ciphering
  <1>2. << >> \in Seq(Encryptions)
    OBVIOUS
  <1> QED
    BY <1>1, <1>2, DefaultType
       DEF Init, Typed, Scopes, FilesystemConfigs, History

LEMMA TypedStep ==
    ASSUME Typed, Next
    PROVE  Typed'
  <1>1. /\ app' = app /\ app \in Applications /\ Call
        /\ NewEncryption \in EncryptionBuilders /\ << >> \in Seq(Encryptions)
    BY DefaultType DEF Typed, Next
  <1>2. CASE OpenEncryption
    BY <1>1, <1>2 DEF Typed, OpenEncryption, OpenBlock, Scopes, History
  <1>3. CASE OpenMigrations
    BY <1>1, <1>3 DEF Typed, OpenMigrations, OpenBlock, Scopes, History
  <1>4. CASE OpenMigration
    BY <1>1, <1>4 DEF Typed, OpenMigration, OpenBlock, Scopes, History
  <1>5. ASSUME NEW config \in Configurations, NEW assigns \in BOOLEAN,
               OpenCipher(config, assigns)
        PROVE  Typed'
    <2>1. cipher' \in Ciphering /\ cipher'.outer # "none"
      BY <1>5 DEF OpenCipher, Ciphering
    <2> QED
      BY <1>1, <1>5, <2>1 DEF Typed, OpenCipher, Scopes
  <1>6. CASE SelectPreset
    BY <1>1, <1>5, <1>6, ApplicationConfigs DEF SelectPreset
  <1>7. CASE SelectInherited
    BY <1>1, <1>5, <1>7, ApplicationConfigs DEF SelectInherited
  <1>8. CASE SetParam
    <2>1. PICK s \in app.setters :
             /\ scope = "cipher" /\ s[1] \in SettableOf(cipher.config.cipher)
             /\ s[2] = {} => s[1] \in Nullable
             /\ \A n \in s[2] : Requires(cipher.config.cipher, s[1], n)
             /\ cipher' = [cipher EXCEPT !.config = SetField(@, s[1], s[2])]
      BY <1>8 DEF SetParam
    <2>2. cipher.config \in Configurations
      BY DEF Typed, Ciphering
    <2>6. \A n \in s[2] : n \in Int /\ Valid(cipher.config.cipher, s[1], n)
      BY <1>1, <2>1, ApplicationConfigs DEF Valid
    <2>3. SetField(cipher.config, s[1], s[2]) \in Configurations
      BY <2>1, <2>2, <2>6, SetFieldType
    <2>4. cipher' = [cipher EXCEPT !.config = SetField(cipher.config, s[1], s[2])]
      BY <2>1
    <2>5. cipher' \in Ciphering /\ cipher'.outer = cipher.outer
      BY <2>3, <2>4 DEF Typed, Ciphering
    <2> QED
      BY <1>1, <1>8, <2>5 DEF Typed, SetParam
  <1>9. CASE RejectParam
    BY <1>1, <1>9 DEF Typed, RejectParam, Scopes
  <1>10. CASE ResetFields
    <2>1. PICK config \in app.presets : cipher' = [cipher EXCEPT !.config = config]
      BY <1>10 DEF ResetFields
    <2>2. config \in Configurations
      BY <1>1, ApplicationConfigs
    <2>3. cipher' \in Ciphering /\ cipher'.outer = cipher.outer
      BY <2>1, <2>2 DEF Typed, Ciphering
    <2> QED
      BY <1>1, <1>10, <2>3 DEF Typed, ResetFields
  <1>11. CASE CloseCipher
    <2>1. BuildCipher(cipher.config) \in Configurations
      BY BuildCipherType DEF Typed, Ciphering
    <2>2. NoCipher \in Ciphering
      BY DefaultType DEF NoCipher, Ciphering
    <2>3. scope' \in {"encryption", "migration"}
      BY <1>11 DEF CloseCipher, Typed, Ciphering
    <2>4. enc' \in EncryptionBuilders /\ asked' \in History
      BY <1>11, <2>1 DEF CloseCipher, Typed, EncryptionBuilders, History
    <2> QED
      BY <1>1, <1>11, <2>2, <2>3, <2>4 DEF Typed, CloseCipher, Scopes
  <1>12. CASE SetSwitches
    <2>1. enc' \in EncryptionBuilders
      BY <1>12 DEF SetSwitches, Typed, EncryptionBuilders
    <2> QED
      BY <1>1, <1>12, <2>1 DEF Typed, SetSwitches
  <1>13. CASE CloseEncryption
    <2>1. BuildEncryption(enc) \subseteq Encryptions
      BY BuildEncryptionType DEF Typed
    <2>2. fs' \in FilesystemConfigs /\ asked' \in History
      BY <1>13, <2>1 DEF CloseEncryption, Typed, FilesystemConfigs, History
    <2> QED
      BY <1>1, <1>13, <2>2 DEF Typed, CloseEncryption, Scopes
  <1>14. CASE CloseMigration
    <2>1. ASSUME NEW m \in BuildEncryption(enc),
                 migrations' = migrations \/ migrations' = Append(migrations, m),
                 asked' = [asked EXCEPT !.declared = Append(@, m)]
          PROVE  migrations' \in Seq(Encryptions) /\ asked' \in History
      <3>1. m \in Encryptions
        BY BuildEncryptionType DEF Typed
      <3>2. asked.declared \in Seq(Encryptions)
        BY DEF Typed, History
      <3>3. Append(asked.declared, m) \in Seq(Encryptions)
        BY <3>1, <3>2
      <3>4. migrations' \in Seq(Encryptions)
        <4>1. migrations \in Seq(Encryptions)
          BY DEF Typed
        <4> QED
          BY <2>1, <3>1, <4>1
      <3>5. asked' \in History
        BY <2>1, <3>3 DEF Typed, History
      <3> QED
        BY <3>4, <3>5
    <2>2. migrations' \in Seq(Encryptions) /\ asked' \in History
      BY <1>14, <2>1 DEF CloseMigration, Typed
    <2> QED
      BY <1>1, <1>14, <2>2 DEF Typed, CloseMigration, Scopes
  <1>15. CASE CloseMigrations
    <2>1. fs' \in FilesystemConfigs
      BY <1>15 DEF CloseMigrations, Typed, FilesystemConfigs
    <2> QED
      BY <1>1, <1>15, <2>1 DEF Typed, CloseMigrations, Scopes
  <1>16. CASE RemoveEncryption
    <2>1. fs' \in FilesystemConfigs /\ asked' \in History
      BY <1>16 DEF RemoveEncryption, Typed, FilesystemConfigs, History
    <2> QED
      BY <1>1, <1>16, <2>1 DEF Typed, RemoveEncryption
  <1>17. CASE RemoveMigrations
    <2>1. fs' \in FilesystemConfigs /\ asked' \in History
      BY <1>1, <1>17 DEF RemoveMigrations, Typed, FilesystemConfigs, History
    <2> QED
      BY <1>1, <1>17, <2>1 DEF Typed, RemoveMigrations
  <1>18. CASE Build
    <2>1. built' \subseteq FilesystemConfigs
      BY <1>18, DefaultType DEF Build, Typed, FilesystemConfigs
    <2> QED
      BY <1>1, <1>18, <2>1 DEF Typed, Build, Scopes
  <1>19. CASE NewFromBuilt
    BY <1>1, <1>19 DEF Typed, NewFromBuilt, Scopes
  <1> QED
    BY <1>1, <1>2, <1>3, <1>4, <1>6, <1>7, <1>8, <1>9, <1>10, <1>11, <1>12, <1>13, <1>14,
       <1>15, <1>16, <1>17, <1>18, <1>19 DEF Call

LEMMA DeclaredInit ==
    ASSUME Init
    PROVE  Declared
  BY DEF Init, Declared, InMigrations, MigrationsAsDeclared

\* Steps that leave the migrations, their history and what is built alone.
LEMMA DeclaredKept ==
    ASSUME Declared, InMigrations' <=> InMigrations, scope # "rejected", scope' # "built",
           migrations' = migrations, asked'.declared = asked.declared,
           fs'.migrations = fs.migrations
    PROVE  Declared'
  BY DEF Declared, MigrationsAsDeclared, AsDeclared, InMigrations

LEMMA DeclaredStep ==
    ASSUME Typed, Declared, Next
    PROVE  Declared'
  <1>1. /\ Call /\ asked \in History /\ fs \in FilesystemConfigs /\ cipher \in Ciphering
        /\ scope = "cipher" => cipher.outer \in {"encryption", "migration"}
    BY DEF Next, Typed, Ciphering
  <1>2. CASE OpenEncryption
    <2>1. scope = "filesystem" /\ scope' = "encryption" /\ UNCHANGED << migrations, fs >>
          /\ asked'.declared = asked.declared
      BY <1>1, <1>2 DEF OpenEncryption, OpenBlock, History
    <2> QED
      BY <2>1, DeclaredKept DEF InMigrations
  <1>3. CASE OpenMigrations
    <2>1. scope' = "migrations" /\ migrations' = << >> /\ asked'.declared = << >>
      BY <1>1, <1>3 DEF OpenMigrations, OpenBlock, History
    <2> QED
      BY <2>1, EmptyAsDeclared DEF Declared, InMigrations, MigrationsAsDeclared
  <1>4. CASE OpenMigration
    <2>1. scope = "migrations" /\ scope' = "migration" /\ UNCHANGED << migrations, fs >>
          /\ asked'.declared = asked.declared
      BY <1>1, <1>4 DEF OpenMigration, OpenBlock, History
    <2> QED
      BY <2>1, DeclaredKept DEF InMigrations
  <1>5. ASSUME NEW config, NEW assigns, OpenCipher(config, assigns)
        PROVE  Declared'
    <2>1. scope \in {"encryption", "migration"} /\ scope' = "cipher" /\ cipher'.outer = scope
          /\ UNCHANGED << migrations, fs, asked >>
      BY <1>5 DEF OpenCipher
    <2> QED
      BY <2>1, DeclaredKept DEF InMigrations
  <1>6. CASE SelectPreset \/ SelectInherited
    BY <1>5, <1>6 DEF SelectPreset, SelectInherited
  <1>7. CASE SetParam \/ ResetFields
    <2>1. scope = "cipher" /\ UNCHANGED << scope, migrations, fs, asked >>
          /\ cipher'.outer = cipher.outer
      BY <1>1, <1>7 DEF SetParam, ResetFields, Ciphering
    <2> QED
      BY <2>1, DeclaredKept DEF InMigrations
  <1>8. CASE RejectParam
    BY <1>8 DEF RejectParam, Declared, InMigrations, MigrationsAsDeclared
  <1>9. CASE CloseCipher
    <2>1. scope = "cipher" /\ scope' = cipher.outer /\ UNCHANGED << migrations, fs >>
          /\ asked'.declared = asked.declared
      BY <1>1, <1>9 DEF CloseCipher, History
    <2> QED
      BY <1>1, <2>1, DeclaredKept DEF InMigrations
  <1>10. CASE SetSwitches
    <2>1. scope \in {"encryption", "migration"}
          /\ UNCHANGED << scope, migrations, fs, asked, cipher >>
      BY <1>10 DEF SetSwitches
    <2> QED
      BY <2>1, DeclaredKept DEF InMigrations
  <1>11. CASE CloseEncryption
    <2>1. scope = "encryption" /\ scope' = "filesystem" /\ UNCHANGED migrations
          /\ asked'.declared = asked.declared /\ fs'.migrations = fs.migrations
      BY <1>1, <1>11 DEF CloseEncryption, History, FilesystemConfigs
    <2> QED
      BY <2>1, DeclaredKept DEF InMigrations
  <1>12. CASE CloseMigration
    <2>1. scope = "migration" /\ scope' = "migrations" /\ UNCHANGED fs
          /\ AsDeclared(migrations, asked.declared)
      BY <1>12 DEF CloseMigration, Declared, InMigrations
    <2>2. AsDeclared(migrations', asked'.declared)
      <3>1. CASE BuildEncryption(enc) = {}
        BY <1>12, <2>1, <3>1 DEF CloseMigration
      <3>2. CASE BuildEncryption(enc) # {}
        <4>1. PICK m \in BuildEncryption(enc) :
                /\ migrations' = IF \E i \in DOMAIN migrations :
                                       SameMigration(migrations[i], m)
                                 THEN migrations ELSE Append(migrations, m)
                /\ asked' = [asked EXCEPT !.declared = Append(@, m)]
          BY <1>12, <3>2 DEF CloseMigration
        <4>2. m \in Encryptions /\ migrations \in Seq(Encryptions)
              /\ asked.declared \in Seq(Encryptions)
          BY BuildEncryptionType DEF Typed, History
        <4>3. asked'.declared = Append(asked.declared, m)
          BY <1>1, <4>1 DEF History
        <4>4. CASE \E i \in DOMAIN migrations : SameMigration(migrations[i], m)
          <5>1. PICK i \in DOMAIN migrations : SameMigration(migrations[i], m)
            BY <4>4
          <5>2. migrations[i] \in Encryptions
            BY <4>2
          <5>3. migrations[i] = m
            BY <4>2, <5>1, <5>2, SameIsEqual
          <5> QED
            BY <2>1, <4>1, <4>2, <4>3, <4>4, <5>3, DeclareAgain
        <4>5. CASE ~\E i \in DOMAIN migrations : SameMigration(migrations[i], m)
          <5>1. \A i \in DOMAIN migrations : migrations[i] # m
            BY <4>5 DEF SameMigration
          <5> QED
            BY <2>1, <4>1, <4>2, <4>3, <4>5, <5>1, DeclareNew
        <4> QED
          BY <4>4, <4>5
      <3> QED
        BY <3>1, <3>2
    <2> QED
      BY <2>1, <2>2 DEF Declared, InMigrations, MigrationsAsDeclared
  <1>13. CASE CloseMigrations
    <2>1. scope = "migrations" /\ scope' = "filesystem" /\ UNCHANGED asked
          /\ fs'.migrations \subseteq {migrations}
      BY <1>1, <1>13 DEF CloseMigrations, FilesystemConfigs
    <2>2. \A ms \in fs'.migrations : AsDeclared(ms, asked'.declared)
      BY <2>1 DEF Declared, InMigrations
    <2> QED
      BY <2>1, <2>2 DEF Declared, InMigrations, MigrationsAsDeclared
  <1>14. CASE RemoveEncryption
    <2>1. scope = "filesystem" /\ UNCHANGED << scope, migrations, cipher >>
          /\ asked'.declared = asked.declared /\ fs'.migrations = fs.migrations
      BY <1>1, <1>14 DEF RemoveEncryption, History, FilesystemConfigs
    <2> QED
      BY <2>1, DeclaredKept DEF InMigrations
  <1>15. CASE RemoveMigrations
    <2>1. scope' = "filesystem" /\ fs'.migrations = {}
      BY <1>1, <1>15 DEF RemoveMigrations, FilesystemConfigs
    <2> QED
      BY <2>1 DEF Declared, InMigrations, MigrationsAsDeclared
  <1>16. CASE Build
    <2>1. scope = "filesystem" /\ scope' = "built" /\ UNCHANGED << fs, asked >>
          /\ \A b \in built' : b.migrations = fs.migrations
      BY <1>16 DEF Build
    <2>2. \A ms \in fs.migrations : AsDeclared(ms, asked.declared)
      BY <2>1 DEF Declared, InMigrations
    <2>3. \A ms \in UNION {b.migrations : b \in built'} : AsDeclared(ms, asked.declared)
      BY <2>1, <2>2
    <2>4. MigrationsAsDeclared'
      BY <2>1, <2>3 DEF MigrationsAsDeclared, AsDeclared
    <2> QED
      BY <2>1, <2>2, <2>4 DEF Declared, InMigrations
  <1>17. CASE NewFromBuilt
    <2>1. scope = "built" /\ scope' = "filesystem" /\ UNCHANGED asked
          /\ \E b \in built : fs' = b
      BY <1>17 DEF NewFromBuilt
    <2>2. \A ms \in UNION {b.migrations : b \in built} : AsDeclared(ms, asked.declared)
      BY <2>1 DEF Declared, MigrationsAsDeclared, AsDeclared
    <2>3. \A ms \in fs'.migrations : AsDeclared(ms, asked'.declared)
      BY <2>1, <2>2
    <2> QED
      BY <2>1, <2>3 DEF Declared, InMigrations, MigrationsAsDeclared
  <1> QED
    BY <1>1, <1>2, <1>3, <1>4, <1>6, <1>7, <1>8, <1>9, <1>10, <1>11, <1>12, <1>13, <1>14,
       <1>15, <1>16, <1>17 DEF Call

LEMMA BoundsStep ==
    ASSUME Typed, BoundsAgree, Next
    PROVE  BoundsAgree'
  <1>1. ASSUME NEW s \in app.setters, s[1] \in SettableOf(cipher.config.cipher),
               NEW n \in s[2]
        PROVE  Requires(cipher.config.cipher, s[1], n)
                  <=> AcceptsValue(cipher.config.cipher, s[1], n)
    <2>1. cipher.config.cipher \in Ciphers /\ app \in Applications
      BY ConfigurationFields DEF Typed, Ciphering
    <2>2. IsValueOf(s[1], n)
      BY <2>1, ApplicationConfigs
    <2> QED
      BY <1>1, <2>1, <2>2, ChecksAgree
  <1>2. CASE SetParam
    <2>1. PICK s \in app.setters :
            /\ s[1] \in SettableOf(cipher.config.cipher)
            /\ \A n \in s[2] : Requires(cipher.config.cipher, s[1], n)
            /\ verdict' = {[cipher |-> cipher.config.cipher, param |-> s[1],
                            value |-> s[2], accepted |-> TRUE]}
      BY <1>2 DEF SetParam
    <2> QED
      BY <1>1, <2>1 DEF BoundsAgree
  <1>3. CASE RejectParam
    <2>1. PICK s \in app.setters :
            /\ s[1] \in SettableOf(cipher.config.cipher)
            /\ \E n \in s[2] : ~Requires(cipher.config.cipher, s[1], n)
            /\ verdict' = {[cipher |-> cipher.config.cipher, param |-> s[1],
                            value |-> s[2], accepted |-> FALSE]}
      BY <1>3 DEF RejectParam
    <2>2. \A m, n \in s[2] : m = n
      BY <2>1, ApplicationConfigs DEF Typed
    <2>3. \A n \in s[2] : ~Requires(cipher.config.cipher, s[1], n)
      BY <2>1, <2>2
    <2> QED
      BY <1>1, <2>1, <2>3 DEF BoundsAgree
  <1>4. CASE verdict' = verdict
    BY <1>4 DEF BoundsAgree
  <1>5. SetParam \/ RejectParam \/ verdict' = verdict
    BY DEF Next, Call, OpenEncryption, OpenMigrations, OpenMigration, OpenBlock, SelectPreset,
           SelectInherited, OpenCipher, ResetFields, CloseCipher, SetSwitches, CloseEncryption,
           CloseMigration, CloseMigrations, RemoveEncryption, RemoveMigrations, Build,
           NewFromBuilt
  <1> QED
    BY <1>2, <1>3, <1>4, <1>5

LEMMA SelectedStep ==
    ASSUME NoAsconInherited, Typed, Selected, Next
    PROVE  Selected'
  <1>1. /\ Call /\ app \in Applications
        /\ asked \in History /\ fs \in FilesystemConfigs /\ enc \in EncryptionBuilders
        /\ cipher \in Ciphering
        /\ scope = "cipher" => cipher.outer \in {"encryption", "migration"}
    BY DEF Next, Typed, Ciphering
  <1>2. CASE OpenEncryption \/ OpenMigration
    <2>1. /\ scope' \in {"encryption", "migration"} /\ UNCHANGED fs
          /\ asked'.selected = {} /\ asked'.encryption = asked.encryption
      BY <1>1, <1>2 DEF OpenEncryption, OpenMigration, OpenBlock, History
    <2> QED
      BY <2>1 DEF Selected, LastSelectionWins
  <1>3. CASE OpenMigrations
    <2>1. scope' = "migrations" /\ UNCHANGED fs /\ asked'.encryption = asked.encryption
      BY <1>1, <1>3 DEF OpenMigrations, OpenBlock, History
    <2> QED
      BY <2>1 DEF Selected, LastSelectionWins
  <1>4. ASSUME NEW config, OpenCipher(config, TRUE)
        PROVE  Selected'
    <2>1. scope \in {"encryption", "migration"} /\ scope' = "cipher" /\ cipher'.assigns
          /\ UNCHANGED << fs, enc, asked >>
      BY <1>4 DEF OpenCipher
    <2> QED
      BY <2>1 DEF Selected, LastSelectionWins
  <1>5. CASE SelectPreset
    BY <1>4, <1>5 DEF SelectPreset
  <1>6. CASE SelectInherited
    <2>1. PICK config \in app.inherited : OpenCipher(config, config.cipher # "ascon128")
      BY <1>6 DEF SelectInherited
    <2>2. (config.cipher # "ascon128") = TRUE
      BY <1>1 DEF NoAsconInherited
    <2>3. OpenCipher(config, TRUE)
      BY <2>1, <2>2
    <2> QED
      BY <1>4, <2>3
  <1>7. CASE SetParam \/ ResetFields
    <2>1. UNCHANGED << scope, fs, enc, asked >> /\ scope = "cipher"
          /\ cipher'.assigns = cipher.assigns
      BY <1>1, <1>7 DEF SetParam, ResetFields, Ciphering
    <2> QED
      BY <2>1 DEF Selected, LastSelectionWins
  <1>8. CASE RejectParam
    BY <1>8 DEF RejectParam, Selected, LastSelectionWins
  <1>9. CASE CloseCipher
    <2>1. scope' \in {"encryption", "migration"} /\ UNCHANGED fs
          /\ asked'.encryption = asked.encryption
      BY <1>1, <1>9 DEF CloseCipher, History
    <2>2. asked'.selected = {BuildCipher(cipher.config)}
          /\ enc'.cipherConfig = {BuildCipher(cipher.config)}
      BY <1>1, <1>9 DEF CloseCipher, History, EncryptionBuilders, Selected
    <2> QED
      BY <2>1, <2>2 DEF Selected, LastSelectionWins
  <1>10. CASE SetSwitches
    <2>1. scope \in {"encryption", "migration"} /\ UNCHANGED << scope, fs, asked >>
          /\ enc'.cipherConfig = enc.cipherConfig
      BY <1>1, <1>10 DEF SetSwitches, EncryptionBuilders
    <2> QED
      BY <2>1 DEF Selected, LastSelectionWins
  <1>11. CASE CloseEncryption
    <2>1. scope = "encryption" /\ scope' = "filesystem"
          /\ fs'.encryption = BuildEncryption(enc)
          /\ asked'.encryption = asked.selected
      BY <1>1, <1>11 DEF CloseEncryption, History, FilesystemConfigs
    <2>2. \A config \in asked'.encryption : \E e \in fs'.encryption : e.cipherConfig = config
      BY <1>1, <2>1, BuildEncryptionType DEF Selected
    <2> QED
      BY <2>1, <2>2 DEF Selected, LastSelectionWins
  <1>12. CASE CloseMigration
    <2>1. scope' = "migrations" /\ UNCHANGED fs /\ asked'.encryption = asked.encryption
      BY <1>1, <1>12 DEF CloseMigration, History
    <2> QED
      BY <2>1 DEF Selected, LastSelectionWins
  <1>13. CASE CloseMigrations \/ RemoveMigrations
    <2>1. scope' = "filesystem" /\ fs'.encryption = fs.encryption
          /\ asked'.encryption = asked.encryption
      BY <1>1, <1>13 DEF CloseMigrations, RemoveMigrations, History, FilesystemConfigs
    <2> QED
      BY <2>1 DEF Selected, LastSelectionWins
  <1>14. CASE RemoveEncryption
    <2>1. scope' = "filesystem" /\ asked'.encryption = {}
      BY <1>1, <1>14 DEF RemoveEncryption, History
    <2> QED
      BY <2>1 DEF Selected, LastSelectionWins
  <1>15. CASE Build
    <2>1. scope' = "built" /\ UNCHANGED << fs, asked >>
          /\ \A b \in built' : fs.encryption # {} => b.encryption = fs.encryption
      BY <1>15 DEF Build
    <2> QED
      BY <2>1 DEF Selected, LastSelectionWins
  <1>16. CASE NewFromBuilt
    <2>1. scope = "built" /\ scope' = "filesystem" /\ UNCHANGED asked
          /\ \E b \in built : fs' = b
      BY <1>16 DEF NewFromBuilt
    <2> QED
      BY <2>1 DEF Selected, LastSelectionWins
  <1> QED
    BY <1>1, <1>2, <1>3, <1>5, <1>6, <1>7, <1>8, <1>9, <1>10, <1>11, <1>12, <1>13, <1>14,
       <1>15, <1>16 DEF Call

-----------------------------------------------------------------------------
(* Theorems                                                                *)

LEMMA Invariance == Spec => []IInv
  <1>1. Init => IInv
    BY TypedInit, DeclaredInit DEF IInv, Init, BoundsAgree
  <1>2. ASSUME IInv, [Next]_vars
        PROVE  IInv'
    <2>1. CASE Next
      BY <1>2, <2>1, TypedStep, DeclaredStep, BoundsStep DEF IInv
    <2>2. CASE UNCHANGED vars
      BY <1>2, <2>2
         DEF IInv, vars, Typed, Declared, InMigrations, MigrationsAsDeclared, BoundsAgree
    <2> QED
      BY <1>2, <2>1, <2>2
  <1> QED
    BY <1>1, <1>2, PTL DEF Spec

\* A cipher's builder only ever holds parameters of its own cipher, whatever
\* configurations it starts from and whichever setters are called
\* (EncryptionConfig.Builder and the six builders of the ciphers).
THEOREM BuilderTypeCorrect == Spec => []TypeOK
  <1>1. ASSUME IInv
        PROVE  TypeOK
    <2>1. cipher.config \in Configurations
      BY <1>1 DEF IInv, Typed, Ciphering
    <2>2. cipher.config.cipher \in Ciphers
          /\ DOMAIN cipher.config.params \subseteq
                SettableOf(cipher.config.cipher) \cup {"legacy"}
      BY <2>1, ConfigurationFields, ParamMapFields
    <2> QED
      BY <1>1, <2>2 DEF IInv, Typed, Scopes, TypeOK
  <1> QED
    BY <1>1, Invariance, PTL

\* Every Int, Byte, Boolean or ordinal that a setter of a builder accepts is
\* accepted by sqlite3mc_config_cipher, and every one it refuses is refused
\* there: the require calls of the builders and the ranges of the tables in
\* sqlite3mc.c describe the same values, page sizes included.
THEOREM SettersAgreeWithTables == Spec => []BoundsAgree
  BY Invariance, PTL DEF IInv

\* The migrations of a FilesystemConfig are the ones declared, each once and in
\* the order of their first declaration, however often a migration is declared
\* again and however the blocks are repeated (EncryptionMigrationConfig.Builder).
THEOREM MigrationsKeepTheirOrder == Spec => []MigrationsAsDeclared
  BY Invariance, PTL DEF IInv, Declared

\* The cipher selected last is the one of the FilesystemConfig, as long as no
\* Ascon configuration is passed as "other" (EncryptionConfig.Builder: that one
\* is built and dropped).
THEOREM TheLastSelectionWins ==
    ASSUME NoAsconInherited
    PROVE  Spec => []LastSelectionWins
  <1>1. Init => Selected
    BY DEF Init, Selected, LastSelectionWins
  <1>2. ASSUME IInv, Selected, [Next]_vars
        PROVE  Selected'
    <2>1. CASE Next
      BY <1>2, <2>1, SelectedStep DEF IInv
    <2>2. CASE UNCHANGED vars
      BY <1>2, <2>2 DEF vars, Selected, LastSelectionWins
    <2> QED
      BY <1>2, <2>1, <2>2
  <1>3. Selected => LastSelectionWins
    BY DEF Selected
  <1> QED
    BY <1>1, <1>2, <1>3, Invariance, PTL DEF Spec

\* A new connection that executes the statements of a built configuration, or
\* of one of its migrations, derives its key and its pages with exactly the
\* configured parameters, for every value that the setters accept, although the
\* driver puts only those that differ from a predefined version into the
\* statements (applyPragmas) and leaves the others to PRAGMA legacy and to the
\* built-in tables.
THEOREM ConfigurationsTakeEffect == Spec => []ConfigTakesEffect
  <1>1. ASSUME IInv
        PROVE  BuiltConfigs \subseteq Encryptions
    <2>1. \A b \in built : b.encryption \subseteq Encryptions
                           /\ b.migrations \subseteq Seq(Encryptions)
      BY <1>1 DEF IInv, Typed, FilesystemConfigs
    <2>2. \A ms \in Seq(Encryptions) : ToSet(ms) \subseteq Encryptions
      BY DEF ToSet
    <2> QED
      BY <2>1, <2>2 DEF BuiltConfigs
  <1>2. ASSUME IInv
        PROVE  ConfigTakesEffect
    BY <1>1, <1>2, EncryptionTakesEffect DEF ConfigTakesEffect
  <1> QED
    BY <1>2, Invariance, PTL
=============================================================================
