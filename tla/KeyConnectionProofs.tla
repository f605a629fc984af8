----------------------------- MODULE KeyConnectionProofs -----------------------------
(***************************************************************************)
(* Proofs about KeyConnection, for every set of configurations, keys and   *)
(* switches.                                                               *)
(*                                                                         *)
(* The inductive invariant says, for every statement a connection may be   *)
(* at, what is left to execute and what the parameter table holds by then. *)
(***************************************************************************)
EXTENDS KeyConnection, CipherConfigProofs

AllKeys == Keys \cup {EmptyKey}

Statements ==
    [op : {"select", "journal_delete"}]
    \cup [op : {"cipher"}, scope : {"main", "temp"}, cipher : Ciphers]
    \cup [op : {"param"}, scope : {"main", "temp"}, name : Told(12), value : Int]
    \cup [op : {"key", "rekey"}, key : AllKeys]

Cipher(enc) == enc.cipherConfig.cipher
Ints(enc) == ApplyPragmas(enc).ints

IsPlan(p) ==
    /\ \E pair \in Pairs, s1, s2 \in Switching :
          p.old = Encryption(pair[1], s1) /\ p.new = Encryption(pair[2], s2)
    /\ p.oldKey \in AllKeys /\ p.newKey \in AllKeys

-----------------------------------------------------------------------------
(* What is left to execute                                                  *)

\* The configuration statements of enc that are qualified by scope, and rest.
Send(scope, enc, rest) ==
    << CipherStmt(scope, Cipher(enc)) >> \o Steps(scope, Ints(enc), 0, rest)

LastKey(p)     == << KeyStmt(p.newKey) >> \o << >>
AfterRekey(p)  == Send("main", p.new, LastKey(p))
FromRekey(p)   == << RekeyStmt(p.newKey) >> \o AfterRekey(p)
FromTemp(p)    == Send("temp", p.new, FromRekey(p))
FromJournal(p) == << JournalDelete >> \o FromTemp(p)
FromSelect(p)  == << Select >> \o FromJournal(p)
FromKey(p)     == << KeyStmt(p.oldKey) >> \o FromSelect(p)
Migration(p)   == Send("main", p.old, FromKey(p))

LastRead        == << Select >> \o << >>
FromNewKey(p)   == << KeyStmt(p.newKey) >> \o LastRead
Reopening(p)    == Send("main", p.new, FromNewKey(p))

-----------------------------------------------------------------------------
(* Where a connection is                                                    *)

\* In the middle of the statements of enc, and behind the last of them.
Midway(t, list, scope, enc, rest, vals, defs, clean) ==
    \E k \in 0 .. 12 :
        /\ list = Steps(scope, Ints(enc), k, rest)
        /\ Configuring(t, scope, enc, k, vals, defs)
        /\ clean => Switched(t, enc, k)

Sending(scope, enc, rest, vals, defs, clean) ==
    Midway(conn.table, todo, scope, enc, rest, vals, defs, clean)

Ended(scope, enc, rest, vals, defs, clean) ==
    /\ todo = rest
    /\ Configuring(conn.table, scope, enc, 12, vals, defs)
    /\ clean => Switched(conn.table, enc, 12)

\* A new connection that executes the statements of enc first.
Starting(enc, rest) == todo = Send("main", enc, rest) /\ conn = NewConnection

Opening(enc, rest) ==
    /\ Sending("main", enc, rest, BuiltIn(Cipher(enc)), BuiltIn(Cipher(enc)), TRUE)
    /\ SameElsewhere(CloneTable, conn.table, Cipher(enc))

\* What the statements of the old configuration leave in the table of cipher c.
LeftBy(p, c) ==
    IF c = Cipher(p.old) THEN Settled(p.old.cipherConfig, 12, BuiltIn(c)) ELSE BuiltIn(c)

\* The old key was given.
Keyed(p) ==
    /\ conn.codec.key = p.oldKey
    /\ \A c \in Ciphers : \A q \in Params(c) :
          Val(conn.table, c, q) = LeftBy(p, c)[q]
          /\ Default(conn.table, c, q) = LeftBy(p, c)[q]

HasSwitches(codec, enc) ==
    /\ codec.hmacCheck = IF enc.hmacCheck THEN 1 ELSE 0
    /\ codec.walLegacy = IF enc.mcLegacyWAL THEN 1 ELSE 0

SameLegacy(c, vals, defs) == "legacy" \in Params(c) => vals["legacy"] = defs["legacy"]

\* The table after the statements of both configurations.
BothConfigured(p) ==
    ConfigureAll(ConfigureAll(CloneTable, "main", ApplyPragmas(p.old)), "temp",
                 ApplyPragmas(p.new))

\* Before PRAGMA rekey.
Reading(p)    == todo = FromSelect(p) /\ Keyed(p)
LeavingWal(p) == todo = FromJournal(p) /\ Keyed(p) /\ conn.pageSize = file.pageSize
Preparing(p)  == todo = FromTemp(p) /\ Keyed(p) /\ conn.pageSize = file.pageSize /\ ~file.wal
Transient(p)  ==
    /\ Sending("temp", p.new, FromRekey(p), LeftBy(p, Cipher(p.new)),
               LeftBy(p, Cipher(p.new)), FALSE)
    /\ conn.codec.key = p.oldKey /\ conn.pageSize = file.pageSize /\ ~file.wal

BeforeRekey(p) ==
    Starting(p.old, FromKey(p)) \/ Opening(p.old, FromKey(p))
    \/ Reading(p) \/ LeavingWal(p) \/ Preparing(p) \/ Transient(p)

\* After it, with statements still to execute.  Without a new key nothing was
\* allocated, and the table still holds the transient values.
Rekeyed(p) ==
    /\ todo = AfterRekey(p)
    /\ \A q \in Params(Cipher(p.new)) :
          Default(conn.table, Cipher(p.new), q) = LeftBy(p, Cipher(p.new))[q]
    /\ p.newKey # EmptyKey =>
          /\ Switched(conn.table, p.new, 0)
          /\ SameLegacy(Cipher(p.new), Values(conn.table, Cipher(p.new)),
                        LeftBy(p, Cipher(p.new)))

Finishing(p, vals) ==
    /\ Sending("main", p.new, LastKey(p), vals, LeftBy(p, Cipher(p.new)),
               p.newKey # EmptyKey)
    /\ p.newKey # EmptyKey => SameLegacy(Cipher(p.new), vals, LeftBy(p, Cipher(p.new)))

AfterTheRekey(p) == Rekeyed(p) \/ \E vals : Finishing(p, vals)

Migrated(p) ==
    /\ todo = << >>
    /\ IF p.newKey = EmptyKey THEN conn.codec = NoCodec
       ELSE /\ HasSwitches(conn.codec, p.new)
            /\ Allocate(conn.table) = Allocate(BothConfigured(p))

\* A later connection.
Again(p) == Starting(p.new, FromNewKey(p)) \/ Opening(p.new, FromNewKey(p))

Reopened(p) == conn.codec = FreshCodec(p.new, p.newKey)

-----------------------------------------------------------------------------
(* The inductive invariant                                                  *)

\* What the theorems about the file assume of the configurations.
Sound == \A pair \in Pairs : SoundPair(pair)

Typed ==
    /\ TypeOK
    /\ IsPlan(plan)
    /\ conn = [table |-> conn.table, codec |-> conn.codec, pageSize |-> conn.pageSize]
    /\ file = [scheme |-> file.scheme, key |-> file.key, pageSize |-> file.pageSize,
               wal |-> file.wal]
    /\ IsTable(conn.table)
    /\ SwitchDefaults(conn.table)

Place ==
    \/ stage = "migrate" /\ BeforeRekey(plan) /\ (Sound => OldOpens)
    \/ stage = "migrate" /\ AfterTheRekey(plan) /\ (Sound => NewOpens)
    \/ stage \in {"migrate", "migrated"} /\ Migrated(plan) /\ (Sound => NewOpens)
    \/ stage = "reopen" /\ Again(plan) /\ (Sound => NewOpens)
    \/ stage = "reopen" /\ todo \in {LastRead, << >>} /\ Reopened(plan) /\ (Sound => NewOpens)
    \/ stage = "reopened" /\ todo = << >> /\ Reopened(plan) /\ (Sound => NewOpens)
    \/ stage = "failed" /\ todo = << >> /\ (Sound => OldOpens \/ NewOpens)

IInv == Typed /\ Place

-----------------------------------------------------------------------------
(* Plans                                                                    *)

\* Both sides of a migration are configurations.
LEMMA PlanEncryptions ==
    ASSUME NEW p, IsPlan(p)
    PROVE  /\ IsEncryption(p.old) /\ IsEncryption(p.new)
           /\ Cipher(p.old) \in Ciphers /\ Cipher(p.new) \in Ciphers
<1>1. PICK pair \in Pairs, s1, s2 \in Switching :
         p.old = Encryption(pair[1], s1) /\ p.new = Encryption(pair[2], s2)
  BY DEF IsPlan
<1>2. IsConfig(pair[1]) /\ IsConfig(pair[2])
  BY PairAssumption DEF IsConfig, Params
<1>3. \A s \in Switching : s.hmacCheck \in BOOLEAN /\ s.mcLegacyWAL \in BOOLEAN
  BY SwitchingAssumption
<1>4. /\ p.old.cipherConfig = pair[1] /\ p.new.cipherConfig = pair[2]
      /\ p.old.hmacCheck \in BOOLEAN /\ p.old.mcLegacyWAL \in BOOLEAN
      /\ p.new.hmacCheck \in BOOLEAN /\ p.new.mcLegacyWAL \in BOOLEAN
  BY <1>1, <1>3 DEF Encryption
<1> QED  BY <1>2, <1>4 DEF IsEncryption, IsConfig, Cipher

\* Every statement that the driver makes is a statement.
LEMMA StatementKinds ==
    /\ Select \in Statements /\ JournalDelete \in Statements
    /\ \A k \in AllKeys : KeyStmt(k) \in Statements /\ RekeyStmt(k) \in Statements
    /\ \A scope \in {"main", "temp"} : \A c \in Ciphers :
          CipherStmt(scope, c) \in Statements
    /\ \A scope \in {"main", "temp"} : \A n \in Told(12) : \A v \in Int :
          ParamStmt(scope, n, v) \in Statements
BY DEF Statements, Select, JournalDelete, KeyStmt, RekeyStmt, CipherStmt, ParamStmt

\* The statements of a configuration are statements.
LEMMA SentStatements ==
    ASSUME NEW enc, IsEncryption(enc), NEW scope \in {"main", "temp"}
    PROVE  /\ CipherStmt(scope, Cipher(enc)) \in Statements
           /\ \A i \in 1 .. 12 : Names[i] \in DOMAIN Ints(enc) =>
                 ParamStmt(scope, Names[i], Ints(enc)[Names[i]]) \in Statements
<1>1. Cipher(enc) \in Ciphers
  BY DEF IsEncryption, IsConfig, Cipher
<1>2. \A i \in 1 .. 12 : Names[i] \in DOMAIN Ints(enc) => Ints(enc)[Names[i]] \in Int
  <2> SUFFICES ASSUME NEW n, n \in DOMAIN Ints(enc) PROVE Ints(enc)[n] \in Int
    OBVIOUS
  <2>1. CASE n \in SwitchNames
    BY <2>1, PragmaMap DEF Ints, SwitchNames
  <2>2. CASE n \notin SwitchNames
    <3>1. n \in Kept(enc.cipherConfig) /\ Ints(enc)[n] = enc.cipherConfig.params[n]
      BY <2>2, PragmaMap DEF Ints
    <3> QED  BY <3>1 DEF Kept, IsEncryption, IsConfig
  <2> QED  BY <2>1, <2>2
<1>3. \A i \in 1 .. 12 : Names[i] \in Told(12)
  BY DEF Told
<1> QED  BY <1>1, <1>2, <1>3, StatementKinds

\* What is left of the statements of a configuration is a list of
\* statements.
LEMMA StepsAreSent ==
    ASSUME NEW enc, IsEncryption(enc), NEW scope \in {"main", "temp"},
           NEW rest \in Seq(Statements), NEW k \in 0 .. 12
    PROVE  Steps(scope, Ints(enc), k, rest) \in Seq(Statements)
BY SentStatements, StepsAreStatements

\* toMCSQLStatements sends the cipher and then each pragma that is in the
\* map.
LEMMA SentIsList ==
    ASSUME NEW enc, IsEncryption(enc), NEW scope \in {"main", "temp"},
           NEW rest \in Seq(Statements)
    PROVE  /\ \A k \in 0 .. 12 : Steps(scope, Ints(enc), k, rest) \in Seq(Statements)
           /\ Send(scope, enc, rest) \in Seq(Statements)
           /\ ConfigStatements(scope, ApplyPragmas(enc)) \in Seq(Statements)
           /\ ConfigStatements(scope, ApplyPragmas(enc)) \o rest = Send(scope, enc, rest)
<1>1. /\ CipherStmt(scope, Cipher(enc)) \in Statements
      /\ \A i \in 1 .. 12 : Names[i] \in DOMAIN Ints(enc) =>
            ParamStmt(scope, Names[i], Ints(enc)[Names[i]]) \in Statements
  BY SentStatements
<1>2. \A k \in 0 .. 12 : Steps(scope, Ints(enc), k, rest) \in Seq(Statements)
  BY <1>1, StepsAreStatements
<1>3. Send(scope, enc, rest) \in Seq(Statements)
  <2>1. Steps(scope, Ints(enc), 0, rest) \in Seq(Statements)
    BY <1>2
  <2> QED  BY <1>1, <2>1, FirstStatement DEF Send
<1>4. ApplyPragmas(enc).cipher = Cipher(enc)
  BY PragmaMap DEF Cipher
<1>5. /\ ConfigStatements(scope, ApplyPragmas(enc)) \in Seq(Statements)
      /\ ConfigStatements(scope, ApplyPragmas(enc)) \o rest =
           Sent(scope, ApplyPragmas(enc), rest)
  <2> DEFINE pragmas == ApplyPragmas(enc)
  <2>1. /\ CipherStmt(scope, pragmas.cipher) \in Statements
        /\ \A i \in 1 .. 12 : Names[i] \in DOMAIN pragmas.ints =>
              ParamStmt(scope, Names[i], pragmas.ints[Names[i]]) \in Statements
    BY <1>1, <1>4 DEF Ints
  <2> HIDE DEF pragmas
  <2>2. /\ ConfigStatements(scope, pragmas) \in Seq(Statements)
        /\ ConfigStatements(scope, pragmas) \o rest = Sent(scope, pragmas, rest)
    <3>1. ConfigStatements(scope, pragmas) \in Seq(Statements)
      BY <2>1, ConfigStatementsInOrder
    <3>2. Cat(ConfigStatements(scope, pragmas), rest) = Sent(scope, pragmas, rest)
      BY <2>1, <3>1, ConfigStatementsInOrder
    <3> QED  BY <3>1, <3>2 DEF Cat
  <2> QED  BY <2>2 DEF pragmas
<1> QED  BY <1>2, <1>3, <1>4, <1>5 DEF Send, Sent, Ints

\* Every list that is left at some point of a migration or a reopening is a
\* list of statements.
LEMMA Lists ==
    ASSUME NEW p, IsPlan(p)
    PROVE  /\ LastKey(p) \in Seq(Statements) /\ AfterRekey(p) \in Seq(Statements)
           /\ FromRekey(p) \in Seq(Statements) /\ FromTemp(p) \in Seq(Statements)
           /\ FromJournal(p) \in Seq(Statements) /\ FromSelect(p) \in Seq(Statements)
           /\ FromKey(p) \in Seq(Statements) /\ Migration(p) \in Seq(Statements)
           /\ LastRead \in Seq(Statements) /\ FromNewKey(p) \in Seq(Statements)
           /\ Reopening(p) \in Seq(Statements)
<1>1. /\ KeyStmt(p.oldKey) \in Statements /\ KeyStmt(p.newKey) \in Statements
      /\ RekeyStmt(p.newKey) \in Statements
      /\ Select \in Statements /\ JournalDelete \in Statements
  BY StatementKinds DEF IsPlan
<1>2. IsEncryption(p.old) /\ IsEncryption(p.new)
  BY PlanEncryptions
<1>3. << >> \in Seq(Statements)
  OBVIOUS
<1>4. LastKey(p) \in Seq(Statements) /\ LastRead \in Seq(Statements)
  BY <1>1, <1>3, FirstStatement DEF LastKey, LastRead
<1>5. AfterRekey(p) \in Seq(Statements)
  BY <1>2, <1>4, SentIsList DEF AfterRekey
<1>6. FromRekey(p) \in Seq(Statements)
  BY <1>1, <1>5, FirstStatement DEF FromRekey
<1>7. FromTemp(p) \in Seq(Statements)
  BY <1>2, <1>6, SentIsList DEF FromTemp
<1>8. FromJournal(p) \in Seq(Statements)
  BY <1>1, <1>7, FirstStatement DEF FromJournal
<1>9. FromSelect(p) \in Seq(Statements)
  BY <1>1, <1>8, FirstStatement DEF FromSelect
<1>10. FromKey(p) \in Seq(Statements)
  BY <1>1, <1>9, FirstStatement DEF FromKey
<1>11. Migration(p) \in Seq(Statements)
  BY <1>2, <1>10, SentIsList DEF Migration
<1>12. FromNewKey(p) \in Seq(Statements)
  BY <1>1, <1>4, FirstStatement DEF FromNewKey
<1>13. Reopening(p) \in Seq(Statements)
  BY <1>2, <1>12, SentIsList DEF Reopening
<1> QED  BY <1>4, <1>5, <1>6, <1>7, <1>8, <1>9, <1>10, <1>11, <1>12, <1>13

\* The statements of the driver are these lists.
LEMMA KeyStatementsSent ==
    ASSUME NEW enc, IsEncryption(enc), NEW key \in AllKeys, NEW rest \in Seq(Statements)
    PROVE  /\ KeyStatements(ApplyPragmas(enc), key) \in Seq(Statements)
           /\ KeyStatements(ApplyPragmas(enc), key) \o rest
                = Send("main", enc, << KeyStmt(key) >> \o rest)
<1> DEFINE cs == ConfigStatements("main", ApplyPragmas(enc))
           ks == << KeyStmt(key) >>
<1>1. KeyStmt(key) \in Statements
  BY StatementKinds
<1>2. ks \in Seq(Statements) /\ ks \o rest \in Seq(Statements)
  BY <1>1, FirstStatement
<1>3. cs \in Seq(Statements) /\ cs \o (ks \o rest) = Send("main", enc, ks \o rest)
  BY <1>2, SentIsList
<1>4. KeyStatements(ApplyPragmas(enc), key) = cs \o ks
  BY <1>1, <1>3, AppendIsConcat DEF KeyStatements
<1> HIDE DEF cs, ks
<1>5. cs \o ks \in Seq(Statements)
  BY <1>2, <1>3, ConcatProperties
<1>6. (cs \o ks) \o rest = cs \o (ks \o rest)
  <2>1. cs \in Seq(Statements) /\ ks \in Seq(Statements) /\ rest \in Seq(Statements)
    BY <1>2, <1>3
  <2> QED  BY <2>1, CatAssociative DEF Cat
<1> QED  BY <1>3, <1>4, <1>5, <1>6 DEF ks

\* The statements before the configuration, one by one.
LEMMA TwoStatements ==
    ASSUME NEW x, NEW y
    PROVE  << x >> \o << y >> = << x, y >>
<1> DEFINE S == {x, y}
           a == << x >>
           b == << y >>
           c == << x, y >>
<1>1. a \in Seq(S) /\ Len(a) = 1 /\ a[1] = x
  OBVIOUS
<1>2. b \in Seq(S) /\ Len(b) = 1 /\ b[1] = y
  OBVIOUS
<1>3. c \in Seq(S) /\ Len(c) = 2 /\ c[1] = x /\ c[2] = y
  OBVIOUS
<1> HIDE DEF a, b, c, S
<1>4. a \o b \in Seq(S) /\ Len(a \o b) = 2 /\ (a \o b)[1] = x /\ (a \o b)[2] = y
  BY <1>1, <1>2, ConcatProperties
<1>5. a \o b = c
  BY <1>3, <1>4, SeqEqual
<1> QED  BY <1>5 DEF a, b, c

\* The statements of a migration: those of the old key, the read, leaving
\* WAL, and those of the rekey.
LEMMA MigrationStatements ==
    ASSUME NEW p, IsPlan(p)
    PROVE  KeyStatements(ApplyPragmas(p.old), p.oldKey)
             \o RekeyStatements(ApplyPragmas(p.new), p.newKey) = Migration(p)
<1> DEFINE S == Statements
           temp == ConfigStatements("temp", ApplyPragmas(p.new))
           rk   == << RekeyStmt(p.newKey) >>
           ks   == KeyStatements(ApplyPragmas(p.new), p.newKey)
           sj   == << Select, JournalDelete >>
<1>1. /\ KeyStmt(p.newKey) \in S /\ RekeyStmt(p.newKey) \in S
      /\ Select \in S /\ JournalDelete \in S
  BY StatementKinds DEF IsPlan
<1>2. IsEncryption(p.old) /\ IsEncryption(p.new) /\ p.oldKey \in AllKeys /\ p.newKey \in AllKeys
  BY PlanEncryptions DEF IsPlan
<1>3. ks \in Seq(S) /\ ks = AfterRekey(p)
  <2>0. << >> \in Seq(S)
    OBVIOUS
  <2>1. ks \in Seq(S)
    BY <1>2, <2>0, KeyStatementsSent
  <2>3. ks \o << >> = Send("main", p.new, << KeyStmt(p.newKey) >> \o << >>)
    BY <1>2, <2>0, KeyStatementsSent
  <2>2. ks \o << >> = ks
    BY <2>1, ConcatEmptySeq
  <2> QED  BY <2>1, <2>2, <2>3 DEF AfterRekey, LastKey
<1>4. rk \in Seq(S) /\ sj \in Seq(S)
  BY <1>1
<1>5. FromRekey(p) \in Seq(S) /\ FromTemp(p) \in Seq(S) /\ FromSelect(p) \in Seq(S)
  BY Lists
<1>6. temp \in Seq(S) /\ temp \o FromRekey(p) = FromTemp(p)
  BY <1>2, <1>5, SentIsList DEF FromTemp
<1>7. RekeyStatements(ApplyPragmas(p.new), p.newKey) = ((sj \o temp) \o rk) \o ks
  BY DEF RekeyStatements
<1>8. FromRekey(p) = rk \o ks
  BY <1>3 DEF FromRekey
<1>9. FromSelect(p) = sj \o FromTemp(p)
  <2> DEFINE a == << Select >>
             b == << JournalDelete >>
             c == FromTemp(p)
  <2>1. a \in Seq(S) /\ b \in Seq(S)
    BY <1>1
  <2>4. a \o b = sj
    BY TwoStatements
  <2>2. FromSelect(p) = a \o (b \o c)
    BY DEF FromSelect, FromJournal
  <2> HIDE DEF a, b, c, sj
  <2>3. (a \o b) \o c = a \o (b \o c)
    <3>1. c \in Seq(S)
      BY <1>5 DEF c
    <3> QED  BY <2>1, <3>1, CatAssociative DEF Cat
  <2> QED  BY <2>2, <2>3, <2>4 DEF c
<1> HIDE DEF S, temp, rk, ks, sj
<1>10. ((sj \o temp) \o rk) \o ks = (sj \o temp) \o (rk \o ks)
  <2>1. sj \o temp \in Seq(S)
    BY <1>4, <1>6, ConcatProperties
  <2> QED  BY <1>3, <1>4, <2>1, ConcatAssociative
<1>11. (sj \o temp) \o (rk \o ks) = sj \o (temp \o (rk \o ks))
  <2>1. rk \o ks \in Seq(S)
    BY <1>5, <1>8
  <2> DEFINE r == rk \o ks
  <2> HIDE DEF r
  <2>2. r \in Seq(S)
    BY <2>1 DEF r
  <2>3. (sj \o temp) \o r = sj \o (temp \o r)
    BY <1>4, <1>6, <2>2, CatAssociative DEF Cat
  <2> QED  BY <2>3 DEF r
<1>12. RekeyStatements(ApplyPragmas(p.new), p.newKey) = FromSelect(p)
  BY <1>6, <1>7, <1>8, <1>9, <1>10, <1>11
<1>13. KeyStatements(ApplyPragmas(p.old), p.oldKey) \o FromSelect(p) = Migration(p)
  BY <1>2, <1>5, KeyStatementsSent DEF Migration, FromKey, S
<1> QED  BY <1>12, <1>13

\* The statements of a later connection: those of the current key and a
\* read.
LEMMA ReopeningStatements ==
    ASSUME NEW p, IsPlan(p)
    PROVE  Append(KeyStatements(ApplyPragmas(p.new), p.newKey), Select) = Reopening(p)
<1> DEFINE ks == KeyStatements(ApplyPragmas(p.new), p.newKey)
<1>1. IsEncryption(p.new) /\ p.newKey \in AllKeys /\ Select \in Statements
      /\ LastRead \in Seq(Statements)
  BY PlanEncryptions, Lists, StatementKinds DEF IsPlan
<1>2. /\ ks \in Seq(Statements)
      /\ ks \o LastRead = Reopening(p)
  BY <1>1, KeyStatementsSent DEF Reopening, FromNewKey
<1>3. LastRead = << Select >>
  BY DEF LastRead
<1>4. Append(ks, Select) = ks \o << Select >>
  BY <1>1, <1>2, AppendIsConcat
<1> QED  BY <1>2, <1>3, <1>4

-----------------------------------------------------------------------------
(* Heads and tails                                                          *)

\* A statement is of one kind.
LEMMA Ops ==
    /\ Select.op = "select" /\ JournalDelete.op = "journal_delete"
    /\ \A k : KeyStmt(k).op = "key" /\ KeyStmt(k).key = k
    /\ \A k : RekeyStmt(k).op = "rekey" /\ RekeyStmt(k).key = k
    /\ \A scope, c : /\ CipherStmt(scope, c).op = "cipher"
                     /\ CipherStmt(scope, c).scope = scope
                     /\ CipherStmt(scope, c).cipher = c
    /\ \A scope, n, v : ParamStmt(scope, n, v).op = "param"
BY DEF Select, JournalDelete, KeyStmt, RekeyStmt, CipherStmt, ParamStmt

\* What a list of the driver begins with.
Begins(list, stmt, rest) == list # << >> /\ Head(list) = stmt /\ Tail(list) = rest

\* A list begins with its first statement.
LEMMA ListBegins ==
    ASSUME NEW x \in Statements, NEW s \in Seq(Statements)
    PROVE  Begins(<< x >> \o s, x, s)
BY FirstStatement DEF Begins

\* A configuration begins with PRAGMA cipher.
LEMMA SendBegins ==
    ASSUME NEW enc, IsEncryption(enc), NEW scope \in {"main", "temp"},
           NEW rest \in Seq(Statements)
    PROVE  Begins(Send(scope, enc, rest), CipherStmt(scope, Cipher(enc)),
                  Steps(scope, Ints(enc), 0, rest))
<1>1. CipherStmt(scope, Cipher(enc)) \in Statements
  BY SentStatements
<1>2. Steps(scope, Ints(enc), 0, rest) \in Seq(Statements)
  BY StepsAreSent
<1> QED  BY <1>1, <1>2, ListBegins DEF Send

\* The other lists begin with the statement they are named for.
LEMMA PlanBegins ==
    ASSUME NEW p, IsPlan(p)
    PROVE  /\ Begins(LastKey(p), KeyStmt(p.newKey), << >>)
           /\ Begins(FromRekey(p), RekeyStmt(p.newKey), AfterRekey(p))
           /\ Begins(FromJournal(p), JournalDelete, FromTemp(p))
           /\ Begins(FromSelect(p), Select, FromJournal(p))
           /\ Begins(FromKey(p), KeyStmt(p.oldKey), FromSelect(p))
           /\ Begins(FromNewKey(p), KeyStmt(p.newKey), LastRead)
           /\ Begins(LastRead, Select, << >>)
<1>1. /\ KeyStmt(p.oldKey) \in Statements /\ KeyStmt(p.newKey) \in Statements
      /\ RekeyStmt(p.newKey) \in Statements
      /\ Select \in Statements /\ JournalDelete \in Statements
  BY StatementKinds DEF IsPlan
<1>2. << >> \in Seq(Statements)
  OBVIOUS
<1>3. Begins(LastKey(p), KeyStmt(p.newKey), << >>) /\ Begins(LastRead, Select, << >>)
  BY <1>1, <1>2, ListBegins DEF LastKey, LastRead
<1>4. Begins(FromRekey(p), RekeyStmt(p.newKey), AfterRekey(p))
  BY <1>1, Lists, ListBegins DEF FromRekey
<1>5. Begins(FromJournal(p), JournalDelete, FromTemp(p))
  BY <1>1, Lists, ListBegins DEF FromJournal
<1>6. Begins(FromSelect(p), Select, FromJournal(p))
  BY <1>1, Lists, ListBegins DEF FromSelect
<1>7. Begins(FromKey(p), KeyStmt(p.oldKey), FromSelect(p))
  BY <1>1, Lists, ListBegins DEF FromKey
<1>8. Begins(FromNewKey(p), KeyStmt(p.newKey), LastRead)
  BY <1>1, Lists, ListBegins DEF FromNewKey
<1> QED  BY <1>3, <1>4, <1>5, <1>6, <1>7, <1>8

\* A connection in the middle of the statements of enc executes the next one
\* and is still there, or there is none left.
LEMMA SendingNext ==
    ASSUME NEW enc, IsEncryption(enc), NEW scope \in {"main", "temp"},
           NEW rest \in Seq(Statements), NEW vals, NEW defs, NEW clean \in BOOLEAN,
           Sending(scope, enc, rest, vals, defs, clean)
    PROVE  \/ Ended(scope, enc, rest, vals, defs, clean)
           \/ LET u == Configure(conn.table, Head(todo))
              IN  /\ todo # << >> /\ Head(todo).op = "param"
                  /\ \E k \in 0 .. 12 :
                       /\ Tail(todo) = Steps(scope, Ints(enc), k, rest)
                       /\ Configuring(u, scope, enc, k, vals, defs)
                       /\ clean => Switched(u, enc, k)
                  /\ SameElsewhere(conn.table, u, Cipher(enc))
                  /\ SwitchDefaults(conn.table) => SwitchDefaults(u)
<1> DEFINE t == conn.table
           ints == ApplyPragmas(enc).ints
           stmt(j) == ParamStmt(scope, Names[j + 1], ints[Names[j + 1]])
           u(j) == Configure(t, stmt(j))
<1>1. PICK k \in 0 .. 12 :
         /\ todo = Steps(scope, ints, k, rest)
         /\ Configuring(t, scope, enc, k, vals, defs)
         /\ clean => Switched(t, enc, k)
  BY DEF Sending, Midway, Ints
<1>2. \/ Ended(scope, enc, rest, vals, defs, clean)
      \/ \E j \in 0 .. 11 :
            /\ todo = << stmt(j) >> \o Steps(scope, ints, j + 1, rest)
            /\ Names[j + 1] \in DOMAIN ints
            /\ Configuring(u(j), scope, enc, j + 1, vals, defs)
            /\ SameElsewhere(t, u(j), enc.cipherConfig.cipher)
            /\ SwitchDefaults(t) => SwitchDefaults(u(j))
            /\ clean => Switched(u(j), enc, j + 1)
  <2> DEFINE list == todo
  <2>1. /\ list = Steps(scope, ApplyPragmas(enc).ints, k, rest)
        /\ Configuring(t, scope, enc, k, vals, defs)
        /\ clean => Switched(t, enc, k)
    BY <1>1
  <2> HIDE DEF list, t
  <2>2. OneFurther(t, scope, enc, vals, defs, clean, rest, list)
    BY <2>1, NextStatement
  <2> QED  BY <2>2 DEF OneFurther, Advanced, Ended, list, t
<1>3. ASSUME NEW j \in 0 .. 11,
             todo = << stmt(j) >> \o Steps(scope, ints, j + 1, rest),
             Names[j + 1] \in DOMAIN ints
      PROVE  /\ Begins(todo, stmt(j), Steps(scope, ints, j + 1, rest))
             /\ stmt(j).op = "param"
  <2>0. ints = Ints(enc) /\ j + 1 \in 1 .. 12 /\ j + 1 \in 0 .. 12
    BY DEF Ints
  <2>1. stmt(j) \in Statements
    <3> DEFINE i == j + 1
    <3>1. Names[i] \in DOMAIN Ints(enc) /\ i \in 1 .. 12
      BY <1>3, <2>0
    <3> HIDE DEF i
    <3>2. ParamStmt(scope, Names[i], Ints(enc)[Names[i]]) \in Statements
      BY <3>1, SentStatements
    <3> QED  BY <2>0, <3>2 DEF i
  <2>2. Steps(scope, ints, j + 1, rest) \in Seq(Statements)
    BY <2>0, StepsAreSent
  <2> QED  BY <1>3, <2>1, <2>2, ListBegins, Ops
<1> HIDE DEF t, stmt, u, ints
<1>4. CASE Ended(scope, enc, rest, vals, defs, clean)
  BY <1>4
<1>5. ASSUME NEW j \in 0 .. 11,
             /\ todo = << stmt(j) >> \o Steps(scope, ints, j + 1, rest)
             /\ Names[j + 1] \in DOMAIN ints
             /\ Configuring(u(j), scope, enc, j + 1, vals, defs)
             /\ SameElsewhere(t, u(j), enc.cipherConfig.cipher)
             /\ SwitchDefaults(t) => SwitchDefaults(u(j))
             /\ clean => Switched(u(j), enc, j + 1)
      PROVE  /\ todo # << >> /\ Head(todo).op = "param"
             /\ \E l \in 0 .. 12 :
                  /\ Tail(todo) = Steps(scope, Ints(enc), l, rest)
                  /\ Configuring(Configure(t, Head(todo)), scope, enc, l, vals, defs)
                  /\ clean => Switched(Configure(t, Head(todo)), enc, l)
             /\ SameElsewhere(t, Configure(t, Head(todo)), Cipher(enc))
             /\ SwitchDefaults(t) => SwitchDefaults(Configure(t, Head(todo)))
  <2>1. /\ Begins(todo, stmt(j), Steps(scope, ints, j + 1, rest))
        /\ stmt(j).op = "param"
    BY <1>3, <1>5
  <2>2. Configure(t, Head(todo)) = u(j)
    BY <2>1 DEF Begins, u
  <2>3. j + 1 \in 0 .. 12
    OBVIOUS
  <2>4. Tail(todo) = Steps(scope, Ints(enc), j + 1, rest)
    BY <2>1 DEF Begins, Ints, ints
  <2>5. Cipher(enc) = enc.cipherConfig.cipher
    BY DEF Cipher
  <2> DEFINE w == Configure(t, Head(todo))
             l == j + 1
  <2>6. /\ Tail(todo) = Steps(scope, Ints(enc), l, rest)
        /\ Configuring(w, scope, enc, l, vals, defs)
        /\ clean => Switched(w, enc, l)
    BY <1>5, <2>2, <2>4
  <2>7. SameElsewhere(t, w, Cipher(enc)) /\ (SwitchDefaults(t) => SwitchDefaults(w))
    BY <1>5, <2>2, <2>5
  <2>8. l \in 0 .. 12
    BY <2>3
  <2>9. todo # << >> /\ Head(todo).op = "param"
    BY <2>1 DEF Begins
  <2> HIDE DEF w, l
  <2> QED  BY <2>6, <2>7, <2>8, <2>9 DEF w
<1> QED  BY <1>2, <1>4, <1>5 DEF t

-----------------------------------------------------------------------------
(* Codecs                                                                   *)

\* PRAGMA key attaches a codec allocated from the table, or none with the
\* empty key.
LEMMA Attached ==
    ASSUME NEW t, NEW key \in AllKeys
    PROVE  /\ AttachedCodec(t, key).key = key
           /\ key = EmptyKey <=> AttachedCodec(t, key) = NoCodec
           /\ key # EmptyKey => /\ AttachedCodec(t, key).alloc = Allocate(t)
                                /\ AttachedTable(t, key) = Consume(t)
                                /\ AttachedCodec(t, key).hmacCheck = Val(t, "global", "hmac_check")
                                /\ AttachedCodec(t, key).walLegacy = Val(t, "global", "mc_legacy_wal")
           /\ key = EmptyKey => AttachedTable(t, key) = t
<1>1. CASE key = EmptyKey
  BY <1>1 DEF AttachedCodec, AttachedTable, NoCodec
<1>2. CASE key # EmptyKey
  <2>1. AttachedCodec(t, key) = [alloc |-> Allocate(t), key |-> key,
          hmacCheck |-> t.params.global.hmac_check.value,
          walLegacy |-> t.params.global.mc_legacy_wal.value]
    BY <1>2 DEF AttachedCodec
  <2>2. AttachedCodec(t, key).key = key
    BY <2>1
  <2>3. AttachedCodec(t, key) # NoCodec
    BY <1>2, <2>2 DEF NoCodec
  <2> QED  BY <1>2, <2>1, <2>2, <2>3 DEF AttachedTable, Val
<1> QED  BY <1>1, <1>2

\* What an allocated cipher is called.
LEMMA AllocatedCipher ==
    ASSUME NEW t
    PROVE  Allocate(t).cipher = t.cipher.value
BY DEF Allocate

\* The pages of a file are written with one of the ciphers or with none.
LEMMA SchemeCipher ==
    ASSUME NEW t, IsTable(t), NEW key \in AllKeys
    PROVE  SchemeOf(AttachedCodec(t, key)).cipher \in Ciphers \cup {"none"}
<1>1. CASE key = EmptyKey
  BY <1>1, Attached DEF SchemeOf, NoScheme
<1>2. CASE key # EmptyKey
  <2>1. SchemeOf(AttachedCodec(t, key)) = Scheme(Allocate(t))
    BY <1>2, Attached DEF SchemeOf
  <2>2. Scheme(Allocate(t)).cipher = t.cipher.value
    BY AllocatedCipher DEF Scheme
  <2>3. t.cipher.value \in Ciphers
    BY DEF IsTable
  <2> QED  BY <2>1, <2>2, <2>3
<1> QED  BY <1>1, <1>2

\* A table that executed the statements of enc on its own.
LEMMA AloneConfigured ==
    ASSUME NEW enc, IsEncryption(enc)
    PROVE  LET t == ConfigureAll(CloneTable, "main", ApplyPragmas(enc))
           IN  /\ IsTable(t)
               /\ Configuring(t, "main", enc, 12, BuiltIn(Cipher(enc)), BuiltIn(Cipher(enc)))
               /\ SameElsewhere(CloneTable, t, Cipher(enc))
               /\ SwitchDefaults(t)
               /\ Switched(t, enc, 12)
<1>1. /\ IsTable(CloneTable)
      /\ \A c \in Ciphers : \A p \in Params(c) :
            Val(CloneTable, c, p) = BuiltIn(c)[p] /\ Default(CloneTable, c, p) = BuiltIn(c)[p]
      /\ SwitchDefaults(CloneTable)
      /\ Switched(CloneTable, enc, 0)
  BY FreshTable
<1>2. Cipher(enc) \in Ciphers /\ Cipher(enc) = enc.cipherConfig.cipher
  BY DEF IsEncryption, IsConfig, Cipher
<1> DEFINE base == BuiltIn(Cipher(enc))
           t == ConfigureAll(CloneTable, "main", ApplyPragmas(enc))
<1>3. \A p \in Params(enc.cipherConfig.cipher) :
         /\ Val(CloneTable, enc.cipherConfig.cipher, p) = base[p]
         /\ Default(CloneTable, enc.cipherConfig.cipher, p) = base[p]
  BY <1>1, <1>2
<1> HIDE DEF base
<1>4. /\ Configuring(t, "main", enc, 12, base, base)
      /\ SameElsewhere(CloneTable, t, enc.cipherConfig.cipher)
      /\ SwitchDefaults(CloneTable) => SwitchDefaults(t)
      /\ Switched(CloneTable, enc, 0) => Switched(t, enc, 12)
  BY <1>1, <1>3, ConfigureAllEffect
<1>5. IsTable(t)
  BY <1>4 DEF Configuring
<1> HIDE DEF t
<1> QED  BY <1>1, <1>2, <1>4, <1>5 DEF t, base

\* After the statements of the old configuration values and defaults agree.
LEMMA OldConfigured ==
    ASSUME NEW p, IsPlan(p), NEW t,
           Configuring(t, "main", p.old, 12, BuiltIn(Cipher(p.old)), BuiltIn(Cipher(p.old))),
           SameElsewhere(CloneTable, t, Cipher(p.old))
    PROVE  \A c \in Ciphers : \A q \in Params(c) :
              Val(t, c, q) = LeftBy(p, c)[q] /\ Default(t, c, q) = LeftBy(p, c)[q]
<1> SUFFICES ASSUME NEW c \in Ciphers, NEW q \in Params(c)
             PROVE  Val(t, c, q) = LeftBy(p, c)[q] /\ Default(t, c, q) = LeftBy(p, c)[q]
  OBVIOUS
<1>1. CASE c = Cipher(p.old)
  BY <1>1 DEF Configuring, LeftBy, Cipher
<1>2. CASE c # Cipher(p.old)
  <2>1. Val(CloneTable, c, q) = BuiltIn(c)[q] /\ Default(CloneTable, c, q) = BuiltIn(c)[q]
    BY FreshTable
  <2>2. Val(t, c, q) = Val(CloneTable, c, q) /\ Default(t, c, q) = Default(CloneTable, c, q)
    BY <1>2 DEF SameElsewhere
  <2> QED  BY <1>2, <2>1, <2>2 DEF LeftBy
<1> QED  BY <1>1, <1>2

\* The table after both configurations, by the closed form.
LEMMA BothEffect ==
    ASSUME NEW p, IsPlan(p)
    PROVE  Configuring(BothConfigured(p), "temp", p.new, 12,
                       LeftBy(p, Cipher(p.new)), LeftBy(p, Cipher(p.new)))
<1>1. IsEncryption(p.old) /\ IsEncryption(p.new) /\ Cipher(p.new) \in Ciphers
  BY PlanEncryptions
<1> DEFINE t == ConfigureAll(CloneTable, "main", ApplyPragmas(p.old))
           base == LeftBy(p, Cipher(p.new))
<1>2. /\ IsTable(t)
      /\ Configuring(t, "main", p.old, 12, BuiltIn(Cipher(p.old)), BuiltIn(Cipher(p.old)))
      /\ SameElsewhere(CloneTable, t, Cipher(p.old))
  BY <1>1, AloneConfigured
<1>3. \A c \in Ciphers : \A q \in Params(c) :
         Val(t, c, q) = LeftBy(p, c)[q] /\ Default(t, c, q) = LeftBy(p, c)[q]
  BY <1>2, OldConfigured
<1> HIDE DEF t
<1>4. \A q \in Params(p.new.cipherConfig.cipher) :
         /\ Val(t, p.new.cipherConfig.cipher, q) = base[q]
         /\ Default(t, p.new.cipherConfig.cipher, q) = base[q]
  BY <1>1, <1>3 DEF Cipher
<1> HIDE DEF base
<1>5. Configuring(ConfigureAll(t, "temp", ApplyPragmas(p.new)), "temp", p.new, 12, base, base)
  BY <1>1, <1>2, <1>4, ConfigureAllEffect
<1> QED  BY <1>5 DEF BothConfigured, t, base

\* Two tables that hold the same values for the cipher of enc make the same one.
LEMMA SameAllocation ==
    ASSUME NEW t, NEW u, NEW enc, IsEncryption(enc),
           t.cipher.value = Cipher(enc), u.cipher.value = Cipher(enc),
           \A q \in Params(Cipher(enc)) : Val(t, Cipher(enc), q) = Val(u, Cipher(enc), q)
    PROVE  Allocate(t) = Allocate(u)
<1> DEFINE c == Cipher(enc)
<1>1. c \in Ciphers
  BY DEF IsEncryption, IsConfig, Cipher
<1> HIDE DEF c
<1>2. c = "sqlcipher" => Val(t, c, "legacy") = Val(u, c, "legacy")
  BY SqlCipherHasLegacy DEF c
<1>3. ReadParams(t, c) = ReadParams(u, c)
  BY <1>1, <1>2, SameParamsRead
<1>4. \A q \in ReadParams(t, c) : Val(t, c, q) = Val(u, c, q)
  <2>1. ReadParams(t, c) \subseteq Params(c)
    BY ReadsOwnParams
  <2> QED  BY <2>1 DEF c
<1>5. t.cipher.value = c /\ u.cipher.value = c
  BY DEF c
<1> QED  BY <1>1, <1>3, <1>4, <1>5, SameCipher

\* Two tables on which the same configuration was executed allocate the same
\* cipher.
LEMMA SameConfigured ==
    ASSUME NEW t, NEW u, NEW enc, IsEncryption(enc), NEW s1, NEW s2, NEW vals,
           NEW defs1, NEW defs2,
           Configuring(t, s1, enc, 12, vals, defs1), Configuring(u, s2, enc, 12, vals, defs2)
    PROVE  Allocate(t) = Allocate(u)
<1>1. t.cipher.value = Cipher(enc) /\ u.cipher.value = Cipher(enc)
  BY DEF Configuring, Cipher
<1>2. \A q \in Params(Cipher(enc)) : Val(t, Cipher(enc), q) = Val(u, Cipher(enc), q)
  BY DEF Configuring, Cipher
<1> QED  BY <1>1, <1>2, SameAllocation

-----------------------------------------------------------------------------
(* Files                                                                    *)

FreshAlloc(enc) == Allocate(ConfigureAll(CloneTable, "main", ApplyPragmas(enc)))

Known(enc) ==
    Legacy(FreshAlloc(enc)) # 0 /\ Authenticated(FreshAlloc(enc))
        => PageSizeOf(FreshAlloc(enc)) # 0

\* What is assumed of the configurations, about a migration between them.
LEMMA SoundFacts ==
    ASSUME Sound, NEW p, IsPlan(p)
    PROVE  /\ Allocate(BothConfigured(p)) = FreshAlloc(p.new)
           /\ Known(p.old) /\ Known(p.new)
<1>1. PICK pair \in Pairs, s1, s2 \in Switching :
         p.old = Encryption(pair[1], s1) /\ p.new = Encryption(pair[2], s2)
  BY DEF IsPlan
<1>2. Supersedes(pair[2], pair[1]) /\ PageSizeKnown(pair[1]) /\ PageSizeKnown(pair[2])
  BY DEF Sound, SoundPair
<1>3. Allocate(BothConfigured(p)) = FreshAlloc(p.new)
  BY <1>1, <1>2 DEF Supersedes, BothConfigured, FreshAlloc
<1>4. Known(p.old)
  BY <1>1, <1>2 DEF PageSizeKnown, Known, FreshAlloc
<1>5. Known(p.new)
  BY <1>1, <1>2 DEF PageSizeKnown, Known, FreshAlloc
<1> QED  BY <1>3, <1>4, <1>5

\* What a connection with nothing but the key statements has.
LEMMA FreshCodecIs ==
    ASSUME NEW enc, NEW key \in AllKeys
    PROVE  /\ FreshCodec(enc, key).key = key
           /\ key = EmptyKey <=> FreshCodec(enc, key) = NoCodec
           /\ key # EmptyKey => FreshCodec(enc, key).alloc = FreshAlloc(enc)
BY Attached DEF FreshCodec, FreshAlloc

\* A connection opens a file that was written with its scheme and its key.
LEMMA OpensItsScheme ==
    ASSUME NEW enc, Known(enc), NEW key \in AllKeys, NEW f,
           f.scheme = SchemeOf(FreshCodec(enc, key)), f.key = key,
           key # EmptyKey /\ PageSizeOf(FreshAlloc(enc)) # 0
              => f.pageSize = PageSizeOf(FreshAlloc(enc))
    PROVE  CanRead(FreshCodec(enc, key), f)
<1>1. CASE key = EmptyKey
  <2>1. f.scheme = NoScheme
    BY <1>1, FreshCodecIs DEF SchemeOf
  <2>2. ~f.scheme.legacy
    BY <2>1 DEF NoScheme
  <2> QED  BY <2>2, FreshCodecIs DEF CanRead
<1>2. CASE key # EmptyKey
  <2>1. f.scheme = Scheme(FreshAlloc(enc))
    BY <1>2, FreshCodecIs DEF SchemeOf
  <2>2. f.scheme.legacy = (Legacy(FreshAlloc(enc)) # 0)
    BY <2>1 DEF Scheme
  <2>3. FreshCodec(enc, key).alloc = FreshAlloc(enc) /\ FreshCodec(enc, key).key = key
    BY <1>2, FreshCodecIs
  <2>4. f.scheme.legacy =>
           IF PageSizeOf(FreshAlloc(enc)) # 0 THEN PageSizeOf(FreshAlloc(enc)) = f.pageSize
           ELSE Authenticated(FreshAlloc(enc)) => f.pageSize = DefaultPageSize
    BY <1>2, <2>2 DEF Known
  <2> QED  BY <2>3, <2>4 DEF CanRead
<1> QED  BY <1>1, <1>2

\* The journal mode of a file is no matter of its encryption.
LEMMA CanReadSame ==
    ASSUME NEW codec, NEW f, NEW g,
           f.scheme = g.scheme, f.key = g.key, f.pageSize = g.pageSize
    PROVE  CanRead(codec, f) <=> CanRead(codec, g)
BY DEF CanRead

-----------------------------------------------------------------------------
(* The initial states                                                       *)

\* A connection starts with the statements of a migration on a new table.
LEMMA InitIInv == Init => IInv
<1> SUFFICES ASSUME Init PROVE IInv
  OBVIOUS
<1>1. PICK pair \in Pairs, s1, s2 \in Switching, k1, k2 \in AllKeys, ps \in PageSizes,
           w \in BOOLEAN :
         LET old == Encryption(pair[1], s1)
             new == Encryption(pair[2], s2)
         IN  /\ plan = [old |-> old, new |-> new, oldKey |-> k1, newKey |-> k2]
             /\ file = [WrittenBy(FreshCodec(old, k1), ps) EXCEPT !.wal = w]
             /\ todo = KeyStatements(ApplyPragmas(old), k1)
                       \o RekeyStatements(ApplyPragmas(new), k2)
  BY DEF Init, AllKeys
<1>2. /\ plan.old = Encryption(pair[1], s1) /\ plan.new = Encryption(pair[2], s2)
      /\ plan.oldKey = k1 /\ plan.newKey = k2
  BY <1>1
<1>3. IsPlan(plan)
  BY <1>2 DEF IsPlan
<1>4. todo = Migration(plan)
  BY <1>1, <1>2, <1>3, MigrationStatements
<1> DEFINE codec == FreshCodec(plan.old, plan.oldKey)
<1>5. file = [scheme |-> SchemeOf(codec), key |-> codec.key,
              pageSize |-> IF codec # NoCodec /\ PageSizeOf(codec.alloc) # 0
                           THEN PageSizeOf(codec.alloc) ELSE ps, wal |-> w]
  BY <1>1, <1>2 DEF WrittenBy
<1>6. conn = NewConnection /\ stage = "migrate"
  BY DEF Init
<1>7. IsTable(CloneTable) /\ SwitchDefaults(CloneTable)
  BY FreshTable
<1>8. conn = [table |-> CloneTable, codec |-> NoCodec, pageSize |-> DefaultPageSize]
  BY <1>6 DEF NewConnection
<1>9. codec.key = plan.oldKey /\ (plan.oldKey = EmptyKey <=> codec = NoCodec)
      /\ (plan.oldKey # EmptyKey => codec.alloc = FreshAlloc(plan.old))
  BY <1>3, FreshCodecIs DEF IsPlan
<1>10. file.scheme.cipher \in Ciphers \cup {"none"}
  <2>1. IsTable(ConfigureAll(CloneTable, "main", ApplyPragmas(plan.old)))
    BY <1>3, PlanEncryptions, AloneConfigured
  <2>2. SchemeOf(codec).cipher \in Ciphers \cup {"none"}
    BY <1>3, <2>1, SchemeCipher DEF FreshCodec, IsPlan
  <2> QED  BY <1>5, <2>2
<1>11. Sound => OldOpens
  <2> SUFFICES ASSUME Sound PROVE CanRead(codec, file)
    BY DEF OldOpens
  <2>1. Known(plan.old)
    BY <1>3, SoundFacts
  <2>2. /\ file.scheme = SchemeOf(codec) /\ file.key = plan.oldKey
        /\ plan.oldKey # EmptyKey /\ PageSizeOf(FreshAlloc(plan.old)) # 0
              => file.pageSize = PageSizeOf(FreshAlloc(plan.old))
    BY <1>5, <1>9
  <2> QED  BY <1>3, <2>1, <2>2, OpensItsScheme DEF IsPlan
<1> HIDE DEF codec
<1>12. Typed
  <2>1. file = [scheme |-> file.scheme, key |-> file.key, pageSize |-> file.pageSize,
                wal |-> file.wal] /\ file.wal \in BOOLEAN /\ file.key = plan.oldKey
    BY <1>5, <1>9
  <2>2. conn = [table |-> conn.table, codec |-> conn.codec, pageSize |-> conn.pageSize]
        /\ conn.table = CloneTable
    BY <1>8
  <2>3. conn.table.cipher.value \in Ciphers /\ conn.table.cipher.default \in Ciphers
    BY <1>7, <2>2 DEF IsTable
  <2>4. TypeOK
    BY <1>3, <1>6, <1>10, <2>1, <2>3 DEF TypeOK, IsPlan, AllKeys
  <2> QED  BY <1>3, <1>7, <2>1, <2>2, <2>4 DEF Typed
<1>13. Place
  BY <1>4, <1>6, <1>11 DEF Place, BeforeRekey, Starting, Migration
<1> QED  BY <1>12, <1>13 DEF IInv

-----------------------------------------------------------------------------
(* Where a connection is, by the statement it executes next                 *)

Op(op) == todo # << >> /\ Head(todo).op = op

\* The next statement is one of enc's, and leads to Sending.
Stepping(scope, enc, rest, vals, defs, clean) ==
    LET u == Configure(conn.table, Head(todo))
    IN  /\ todo # << >> /\ Head(todo).op = "param"
        /\ Midway(u, Tail(todo), scope, enc, rest, vals, defs, clean)
        /\ SameElsewhere(conn.table, u, Cipher(enc))
        /\ SwitchDefaults(conn.table) => SwitchDefaults(u)

Base(enc) == BuiltIn(Cipher(enc))
Left(p) == LeftBy(p, Cipher(p.new))

\* Before the rekey.
OldStart == Op("cipher") /\ Starting(plan.old, FromKey(plan))
OldParam ==
    /\ Stepping("main", plan.old, FromKey(plan), Base(plan.old), Base(plan.old), TRUE)
    /\ SameElsewhere(CloneTable, conn.table, Cipher(plan.old))
OldKey ==
    /\ Op("key") /\ Head(todo) = KeyStmt(plan.oldKey) /\ Tail(todo) = FromSelect(plan)
    /\ Ended("main", plan.old, FromKey(plan), Base(plan.old), Base(plan.old), TRUE)
    /\ SameElsewhere(CloneTable, conn.table, Cipher(plan.old))
OldRead == Op("select") /\ Tail(todo) = FromJournal(plan) /\ Reading(plan)
OldJournal == Op("journal_delete") /\ Tail(todo) = FromTemp(plan) /\ LeavingWal(plan)
TempStart == Op("cipher") /\ Preparing(plan)
AtRekeyPage ==
    conn.codec.key = plan.oldKey /\ conn.pageSize = file.pageSize /\ ~file.wal
TempParam ==
    /\ Stepping("temp", plan.new, FromRekey(plan), Left(plan), Left(plan), FALSE)
    /\ AtRekeyPage
AtRekey ==
    /\ Op("rekey") /\ Head(todo) = RekeyStmt(plan.newKey) /\ Tail(todo) = AfterRekey(plan)
    /\ Ended("temp", plan.new, FromRekey(plan), Left(plan), Left(plan), FALSE)
    /\ AtRekeyPage

\* After it.
NewStart == Op("cipher") /\ Rekeyed(plan)
NewParam(vals) ==
    /\ Stepping("main", plan.new, LastKey(plan), vals, Left(plan), plan.newKey # EmptyKey)
    /\ plan.newKey # EmptyKey => SameLegacy(Cipher(plan.new), vals, Left(plan))
NewKey(vals) ==
    /\ Op("key") /\ Head(todo) = KeyStmt(plan.newKey) /\ Tail(todo) = << >>
    /\ Ended("main", plan.new, LastKey(plan), vals, Left(plan), plan.newKey # EmptyKey)
    /\ plan.newKey # EmptyKey => SameLegacy(Cipher(plan.new), vals, Left(plan))

\* On a later connection.
AgainStart == Op("cipher") /\ Starting(plan.new, FromNewKey(plan))
AgainParam ==
    /\ Stepping("main", plan.new, FromNewKey(plan), Base(plan.new), Base(plan.new), TRUE)
    /\ SameElsewhere(CloneTable, conn.table, Cipher(plan.new))
AgainKey ==
    /\ Op("key") /\ Head(todo) = KeyStmt(plan.newKey) /\ Tail(todo) = LastRead
    /\ Ended("main", plan.new, FromNewKey(plan), Base(plan.new), Base(plan.new), TRUE)
AgainRead == Op("select") /\ Tail(todo) = << >> /\ Reopened(plan)

Before ==
    \/ OldStart \/ OldParam \/ OldKey \/ OldRead \/ OldJournal
    \/ TempStart \/ TempParam \/ AtRekey
After == NewStart \/ \E vals : NewParam(vals) \/ NewKey(vals)
Later == AgainStart \/ AgainParam \/ AgainKey \/ AgainRead

\* Before the rekey a connection is at one of eight places.
LEMMA LocatedBefore ==
    ASSUME IsPlan(plan), BeforeRekey(plan)
    PROVE  Before
<1>1. IsEncryption(plan.old) /\ IsEncryption(plan.new)
  BY PlanEncryptions
<1>2. CASE Starting(plan.old, FromKey(plan))
  <2>1. FromKey(plan) \in Seq(Statements)
    BY Lists
  <2>2. Begins(todo, CipherStmt("main", Cipher(plan.old)),
               Steps("main", Ints(plan.old), 0, FromKey(plan)))
    BY <1>1, <1>2, <2>1, SendBegins DEF Starting
  <2> QED  BY <1>2, <2>2, Ops DEF Before, OldStart, Op, Begins
<1>3. CASE Opening(plan.old, FromKey(plan))
  <2>1. /\ Sending("main", plan.old, FromKey(plan), Base(plan.old), Base(plan.old), TRUE)
        /\ FromKey(plan) \in Seq(Statements)
    BY <1>3, Lists DEF Opening, Base
  <2>2. \/ Ended("main", plan.old, FromKey(plan), Base(plan.old), Base(plan.old), TRUE)
        \/ Stepping("main", plan.old, FromKey(plan), Base(plan.old), Base(plan.old), TRUE)
    BY <1>1, <2>1, SendingNext DEF Stepping, Midway
  <2>3. CASE Ended("main", plan.old, FromKey(plan), Base(plan.old), Base(plan.old), TRUE)
    <3>1. Begins(todo, KeyStmt(plan.oldKey), FromSelect(plan))
      BY <2>3, PlanBegins DEF Ended
    <3> QED  BY <1>3, <2>3, <3>1, Ops DEF Before, OldKey, Op, Begins, Opening
  <2> QED  BY <1>3, <2>2, <2>3 DEF Before, OldParam, Opening
<1>4. CASE Reading(plan)
  <2>1. Begins(todo, Select, FromJournal(plan))
    BY <1>4, PlanBegins DEF Reading
  <2> QED  BY <1>4, <2>1, Ops DEF Before, OldRead, Op, Begins
<1>5. CASE LeavingWal(plan)
  <2>1. Begins(todo, JournalDelete, FromTemp(plan))
    BY <1>5, PlanBegins DEF LeavingWal
  <2> QED  BY <1>5, <2>1, Ops DEF Before, OldJournal, Op, Begins
<1>6. CASE Preparing(plan)
  <2>1. FromRekey(plan) \in Seq(Statements)
    BY Lists
  <2>2. Begins(todo, CipherStmt("temp", Cipher(plan.new)),
               Steps("temp", Ints(plan.new), 0, FromRekey(plan)))
    BY <1>1, <1>6, <2>1, SendBegins DEF Preparing, FromTemp
  <2> QED  BY <1>6, <2>2, Ops DEF Before, TempStart, Op, Begins
<1>7. CASE Transient(plan)
  <2>1. /\ Sending("temp", plan.new, FromRekey(plan), Left(plan), Left(plan), FALSE)
        /\ FromRekey(plan) \in Seq(Statements) /\ AtRekeyPage
    BY <1>7, Lists DEF Transient, Left, AtRekeyPage
  <2>2. \/ Ended("temp", plan.new, FromRekey(plan), Left(plan), Left(plan), FALSE)
        \/ Stepping("temp", plan.new, FromRekey(plan), Left(plan), Left(plan), FALSE)
    BY <1>1, <2>1, SendingNext DEF Stepping, Midway
  <2>3. CASE Ended("temp", plan.new, FromRekey(plan), Left(plan), Left(plan), FALSE)
    <3>1. Begins(todo, RekeyStmt(plan.newKey), AfterRekey(plan))
      BY <2>3, PlanBegins DEF Ended
    <3> QED  BY <2>1, <2>3, <3>1, Ops DEF Before, AtRekey, Op, Begins
  <2> QED  BY <2>1, <2>2, <2>3 DEF Before, TempParam
<1> QED  BY <1>2, <1>3, <1>4, <1>5, <1>6, <1>7 DEF BeforeRekey

\* After it, with statements left, at one of these.
LEMMA LocatedAfter ==
    ASSUME IsPlan(plan), AfterTheRekey(plan)
    PROVE  After
<1>1. IsEncryption(plan.new) /\ LastKey(plan) \in Seq(Statements)
  BY PlanEncryptions, Lists
<1>2. CASE Rekeyed(plan)
  <2>1. Begins(todo, CipherStmt("main", Cipher(plan.new)),
               Steps("main", Ints(plan.new), 0, LastKey(plan)))
    BY <1>1, <1>2, SendBegins DEF Rekeyed, AfterRekey
  <2> QED  BY <1>2, <2>1, Ops DEF After, NewStart, Op, Begins
<1>3. ASSUME NEW vals, Finishing(plan, vals) PROVE After
  <2> DEFINE clean == plan.newKey # EmptyKey
  <2>1. /\ Sending("main", plan.new, LastKey(plan), vals, Left(plan), clean)
        /\ clean \in BOOLEAN
    BY <1>3 DEF Finishing, Left
  <2>2. clean => SameLegacy(Cipher(plan.new), vals, Left(plan))
    BY <1>3 DEF Finishing, Left
  <2> HIDE DEF clean
  <2>3. \/ Ended("main", plan.new, LastKey(plan), vals, Left(plan), clean)
        \/ Stepping("main", plan.new, LastKey(plan), vals, Left(plan), clean)
    BY <1>1, <2>1, SendingNext DEF Stepping, Midway
  <2>4. CASE Ended("main", plan.new, LastKey(plan), vals, Left(plan), clean)
    <3>1. Begins(todo, KeyStmt(plan.newKey), << >>)
      BY <2>4, PlanBegins DEF Ended
    <3>2. NewKey(vals)
      BY <2>2, <2>4, <3>1, Ops DEF NewKey, Op, Begins, clean
    <3> QED  BY <3>2 DEF After
  <2>5. CASE Stepping("main", plan.new, LastKey(plan), vals, Left(plan), clean)
    <3>1. NewParam(vals)
      BY <2>2, <2>5 DEF NewParam, clean
    <3> QED  BY <3>1 DEF After
  <2> QED  BY <2>3, <2>4, <2>5
<1> QED  BY <1>2, <1>3 DEF AfterTheRekey

\* A later connection that has not given its key is at one of these.
LEMMA LocatedAgain ==
    ASSUME IsPlan(plan), Again(plan)
    PROVE  Later
<1>1. IsEncryption(plan.new) /\ FromNewKey(plan) \in Seq(Statements)
  BY PlanEncryptions, Lists
<1>2. CASE Starting(plan.new, FromNewKey(plan))
  <2>1. Begins(todo, CipherStmt("main", Cipher(plan.new)),
               Steps("main", Ints(plan.new), 0, FromNewKey(plan)))
    BY <1>1, <1>2, SendBegins DEF Starting
  <2> QED  BY <1>2, <2>1, Ops DEF Later, AgainStart, Op, Begins
<1>3. CASE Opening(plan.new, FromNewKey(plan))
  <2>1. Sending("main", plan.new, FromNewKey(plan), Base(plan.new), Base(plan.new), TRUE)
    BY <1>3 DEF Opening, Base
  <2>2. \/ Ended("main", plan.new, FromNewKey(plan), Base(plan.new), Base(plan.new), TRUE)
        \/ Stepping("main", plan.new, FromNewKey(plan), Base(plan.new), Base(plan.new), TRUE)
    BY <1>1, <2>1, SendingNext DEF Stepping, Midway
  <2>3. CASE Ended("main", plan.new, FromNewKey(plan), Base(plan.new), Base(plan.new), TRUE)
    <3>1. Begins(todo, KeyStmt(plan.newKey), LastRead)
      BY <2>3, PlanBegins DEF Ended
    <3> QED  BY <2>3, <3>1, Ops DEF Later, AgainKey, Op, Begins
  <2> QED  BY <1>3, <2>2, <2>3 DEF Later, AgainParam, Opening
<1> QED  BY <1>2, <1>3 DEF Again

\* The place of a connection, by the stage it is in.
LEMMA Located ==
    ASSUME IInv, stage \in {"migrate", "reopen"}, todo # << >>
    PROVE  \/ stage = "migrate" /\ Before /\ (Sound => OldOpens)
           \/ stage = "migrate" /\ After /\ (Sound => NewOpens)
           \/ stage = "reopen" /\ Later /\ (Sound => NewOpens)
<1>1. IsPlan(plan)
  BY DEF IInv, Typed
<1>2. CASE stage = "migrate" /\ BeforeRekey(plan) /\ (Sound => OldOpens)
  BY <1>1, <1>2, LocatedBefore
<1>3. CASE stage = "migrate" /\ AfterTheRekey(plan) /\ (Sound => NewOpens)
  BY <1>1, <1>3, LocatedAfter
<1>4. CASE stage = "reopen" /\ Again(plan) /\ (Sound => NewOpens)
  BY <1>1, <1>4, LocatedAgain
<1>5. CASE stage = "reopen" /\ todo = LastRead /\ Reopened(plan) /\ (Sound => NewOpens)
  <2>1. Begins(todo, Select, << >>)
    BY <1>1, <1>5, PlanBegins
  <2> QED  BY <1>5, <2>1, Ops DEF Later, AgainRead, Op, Begins
<1> QED  BY <1>2, <1>3, <1>4, <1>5 DEF IInv, Place, Migrated

\* Where PRAGMA cipher may be executed.
LEMMA AtCipher ==
    ASSUME IInv, Executing("cipher")
    PROVE  \/ stage = "migrate" /\ OldStart /\ (Sound => OldOpens)
           \/ stage = "migrate" /\ TempStart /\ (Sound => OldOpens)
           \/ stage = "migrate" /\ NewStart /\ (Sound => NewOpens)
           \/ stage = "reopen" /\ AgainStart /\ (Sound => NewOpens)
<1>1. Op("cipher") /\ stage \in {"migrate", "reopen"} /\ todo # << >>
  BY DEF Executing, Op
<1>2. Before => OldStart \/ TempStart
  BY <1>1 DEF Op, Before, OldStart, OldParam, OldKey, OldRead, OldJournal, TempStart,
              TempParam, AtRekey, Stepping
<1>3. After => NewStart
  BY <1>1 DEF Op, After, NewStart, NewParam, NewKey, Stepping
<1>4. Later => AgainStart
  BY <1>1 DEF Op, Later, AgainStart, AgainParam, AgainKey, AgainRead, Stepping
<1> QED  BY <1>1, <1>2, <1>3, <1>4, Located

\* Where a parameter may be set.
LEMMA AtParam ==
    ASSUME IInv, Executing("param")
    PROVE  \/ stage = "migrate" /\ OldParam /\ (Sound => OldOpens)
           \/ stage = "migrate" /\ TempParam /\ (Sound => OldOpens)
           \/ stage = "migrate" /\ (\E vals : NewParam(vals)) /\ (Sound => NewOpens)
           \/ stage = "reopen" /\ AgainParam /\ (Sound => NewOpens)
<1>1. Op("param") /\ stage \in {"migrate", "reopen"} /\ todo # << >>
  BY DEF Executing, Op
<1>2. Before => OldParam \/ TempParam
  BY <1>1 DEF Op, Before, OldStart, OldKey, OldRead, OldJournal, TempStart, AtRekey
<1>3. After => \E vals : NewParam(vals)
  BY <1>1 DEF Op, After, NewStart, NewKey
<1>4. Later => AgainParam
  BY <1>1 DEF Op, Later, AgainStart, AgainKey, AgainRead
<1> QED  BY <1>1, <1>2, <1>3, <1>4, Located

\* Where PRAGMA key may be executed.
LEMMA AtKey ==
    ASSUME IInv, Executing("key")
    PROVE  \/ stage = "migrate" /\ OldKey /\ (Sound => OldOpens)
           \/ stage = "migrate" /\ (\E vals : NewKey(vals)) /\ (Sound => NewOpens)
           \/ stage = "reopen" /\ AgainKey /\ (Sound => NewOpens)
<1>1. Op("key") /\ stage \in {"migrate", "reopen"} /\ todo # << >>
  BY DEF Executing, Op
<1>2. Before => OldKey
  BY <1>1 DEF Op, Before, OldStart, OldParam, OldRead, OldJournal, TempStart, TempParam,
              AtRekey, Stepping
<1>3. After => \E vals : NewKey(vals)
  BY <1>1 DEF Op, After, NewStart, NewParam, Stepping
<1>4. Later => AgainKey
  BY <1>1 DEF Op, Later, AgainStart, AgainParam, AgainRead, Stepping
<1> QED  BY <1>1, <1>2, <1>3, <1>4, Located

\* Where the file is read.
LEMMA AtSelect ==
    ASSUME IInv, Executing("select")
    PROVE  \/ stage = "migrate" /\ OldRead /\ (Sound => OldOpens)
           \/ stage = "reopen" /\ AgainRead /\ (Sound => NewOpens)
<1>1. Op("select") /\ stage \in {"migrate", "reopen"} /\ todo # << >>
  BY DEF Executing, Op
<1>2. Before => OldRead
  BY <1>1 DEF Op, Before, OldStart, OldParam, OldKey, OldJournal, TempStart, TempParam,
              AtRekey, Stepping
<1>3. ~After
  BY <1>1 DEF Op, After, NewStart, NewParam, NewKey, Stepping
<1>4. Later => AgainRead
  BY <1>1 DEF Op, Later, AgainStart, AgainParam, AgainKey, Stepping
<1> QED  BY <1>1, <1>2, <1>3, <1>4, Located

\* WAL is left before the rekey, with the old key.
LEMMA AtJournalDelete ==
    ASSUME IInv, Executing("journal_delete")
    PROVE  stage = "migrate" /\ OldJournal /\ (Sound => OldOpens)
<1>1. Op("journal_delete") /\ stage \in {"migrate", "reopen"} /\ todo # << >>
  BY DEF Executing, Op
<1>2. Before => OldJournal
  BY <1>1 DEF Op, Before, OldStart, OldParam, OldKey, OldRead, TempStart, TempParam,
              AtRekey, Stepping
<1>3. ~After
  BY <1>1 DEF Op, After, NewStart, NewParam, NewKey, Stepping
<1>4. ~Later
  BY <1>1 DEF Op, Later, AgainStart, AgainParam, AgainKey, AgainRead, Stepping
<1> QED  BY <1>1, <1>2, <1>3, <1>4, Located

\* PRAGMA rekey is executed behind the transient statements.
LEMMA AtRekeyStatement ==
    ASSUME IInv, Executing("rekey")
    PROVE  stage = "migrate" /\ AtRekey /\ (Sound => OldOpens)
<1>1. Op("rekey") /\ stage \in {"migrate", "reopen"} /\ todo # << >>
  BY DEF Executing, Op
<1>2. Before => AtRekey
  BY <1>1 DEF Op, Before, OldStart, OldParam, OldKey, OldRead, OldJournal, TempStart,
              TempParam, Stepping
<1>3. ~After
  BY <1>1 DEF Op, After, NewStart, NewParam, NewKey, Stepping
<1>4. ~Later
  BY <1>1 DEF Op, Later, AgainStart, AgainParam, AgainKey, AgainRead, Stepping
<1> QED  BY <1>1, <1>2, <1>3, <1>4, Located

-----------------------------------------------------------------------------
(* The configuration statements                                             *)

\* A statement that changes only the table keeps the types.
LEMMA TableStep ==
    ASSUME Typed, NEW u, IsTable(u), SwitchDefaults(u),
           conn' = [conn EXCEPT !.table = u], UNCHANGED << plan, file, stage >>
    PROVE  /\ Typed'
           /\ conn'.table = u /\ conn'.codec = conn.codec /\ conn'.pageSize = conn.pageSize
<1>1. conn = [table |-> conn.table, codec |-> conn.codec, pageSize |-> conn.pageSize]
  BY DEF Typed
<1>2. conn' = [table |-> u, codec |-> conn.codec, pageSize |-> conn.pageSize]
  BY <1>1
<1>3. conn'.table = u /\ conn'.codec = conn.codec /\ conn'.pageSize = conn.pageSize
  BY <1>2
<1>4. u.cipher.value \in Ciphers /\ u.cipher.default \in Ciphers
  BY DEF IsTable
<1>5. TypeOK'
  BY <1>3, <1>4 DEF Typed, TypeOK
<1>6. conn' = [table |-> conn'.table, codec |-> conn'.codec, pageSize |-> conn'.pageSize]
  BY <1>2, <1>3
<1>7. /\ IsPlan(plan)' /\ IsTable(conn.table)' /\ SwitchDefaults(conn.table)'
      /\ file' = [scheme |-> file'.scheme, key |-> file'.key, pageSize |-> file'.pageSize,
                  wal |-> file'.wal]
  BY <1>3 DEF Typed
<1> QED  BY <1>3, <1>5, <1>6, <1>7 DEF Typed

\* In the middle of a configuration the table has the shape of one.
LEMMA MidwayTable ==
    ASSUME NEW t, NEW list, NEW scope, NEW enc, NEW rest, NEW vals, NEW defs, NEW clean,
           Midway(t, list, scope, enc, rest, vals, defs, clean)
    PROVE  IsTable(t)
BY DEF Midway, Configuring

\* The first statement of a configuration.
LEMMA CipherSent ==
    ASSUME NEW t, IsTable(t), NEW enc, IsEncryption(enc), NEW scope \in {"main", "temp"},
           NEW rest, NEW vals, NEW defs, NEW clean \in BOOLEAN,
           \A q \in Params(Cipher(enc)) :
              Val(t, Cipher(enc), q) = vals[q] /\ Default(t, Cipher(enc), q) = defs[q],
           clean => Switched(t, enc, 0)
    PROVE  LET u == Configure(t, CipherStmt(scope, Cipher(enc)))
           IN  /\ Midway(u, Steps(scope, Ints(enc), 0, rest), scope, enc, rest, vals, defs,
                         clean)
               /\ SameElsewhere(t, u, Cipher(enc))
               /\ SwitchDefaults(t) => SwitchDefaults(u)
<1> DEFINE u == PragmaCipher(t, scope, Cipher(enc))
<1>1. Configure(t, CipherStmt(scope, Cipher(enc))) = u
  BY Ops DEF Configure
<1>2. Cipher(enc) = enc.cipherConfig.cipher
  BY DEF Cipher
<1>3. /\ Configuring(u, scope, enc, 0, vals, defs)
      /\ SameElsewhere(t, u, Cipher(enc))
      /\ SwitchDefaults(t) => SwitchDefaults(u)
      /\ Switched(t, enc, 0) => Switched(u, enc, 0)
  BY <1>2, CipherStep
<1> HIDE DEF u
<1>4. Midway(u, Steps(scope, Ints(enc), 0, rest), scope, enc, rest, vals, defs, clean)
  BY <1>3 DEF Midway
<1> QED  BY <1>1, <1>3, <1>4

\* A step that leaves the file alone leaves open what opened.
LEMMA FileKept ==
    ASSUME UNCHANGED << plan, file >>
    PROVE  (OldOpens => OldOpens') /\ (NewOpens => NewOpens')
BY DEF OldOpens, NewOpens

\* The statement that selects the cipher of a new connection.
LEMMA StartKeeps ==
    ASSUME IInv, NEW enc, IsEncryption(enc), NEW rest \in Seq(Statements),
           Starting(enc, rest), conn'.table = Configure(conn.table, Head(todo)),
           todo' = Tail(todo)
    PROVE  /\ Midway(conn'.table, todo', "main", enc, rest, Base(enc), Base(enc), TRUE)
           /\ SameElsewhere(CloneTable, conn'.table, Cipher(enc))
           /\ IsTable(conn'.table) /\ SwitchDefaults(conn'.table)
<1>1. conn.table = CloneTable
  BY DEF Starting, NewConnection
<1>2. Begins(todo, CipherStmt("main", Cipher(enc)), Steps("main", Ints(enc), 0, rest))
  BY SendBegins DEF Starting
<1>3. /\ IsTable(CloneTable) /\ SwitchDefaults(CloneTable) /\ Switched(CloneTable, enc, 0)
      /\ \A c \in Ciphers : \A p \in Params(c) :
            Val(CloneTable, c, p) = BuiltIn(c)[p] /\ Default(CloneTable, c, p) = BuiltIn(c)[p]
  BY FreshTable
<1>4. Cipher(enc) \in Ciphers
  BY DEF IsEncryption, IsConfig, Cipher
<1> DEFINE u == Configure(CloneTable, CipherStmt("main", Cipher(enc)))
<1>5. /\ Midway(u, Steps("main", Ints(enc), 0, rest), "main", enc, rest,
                Base(enc), Base(enc), TRUE)
      /\ SameElsewhere(CloneTable, u, Cipher(enc))
      /\ SwitchDefaults(CloneTable) => SwitchDefaults(u)
  <2>1. \A q \in Params(Cipher(enc)) : Val(CloneTable, Cipher(enc), q) = Base(enc)[q]
           /\ Default(CloneTable, Cipher(enc), q) = Base(enc)[q]
    BY <1>3, <1>4 DEF Base
  <2> DEFINE base  == Base(enc)
             clean == TRUE
             t     == CloneTable
             scope == "main"
  <2>2. \A q \in Params(Cipher(enc)) : Val(t, Cipher(enc), q) = base[q]
           /\ Default(t, Cipher(enc), q) = base[q]
    BY <2>1
  <2>3. /\ clean \in BOOLEAN /\ scope \in {"main", "temp"}
        /\ IsTable(t) /\ (clean => Switched(t, enc, 0))
    BY <1>3
  <2> DEFINE w == Configure(t, CipherStmt(scope, Cipher(enc)))
  <2>4. w = u
    OBVIOUS
  <2> HIDE DEF base, clean, t, scope
  <2>5. /\ Midway(w, Steps(scope, Ints(enc), 0, rest), scope, enc, rest, base, base, clean)
        /\ SameElsewhere(t, w, Cipher(enc))
        /\ SwitchDefaults(t) => SwitchDefaults(w)
    BY <2>2, <2>3, CipherSent
  <2> QED  BY <2>4, <2>5 DEF base, clean, t, scope
<1>6. conn'.table = u /\ todo' = Steps("main", Ints(enc), 0, rest)
  BY <1>1, <1>2 DEF Begins
<1> HIDE DEF u
<1> QED  BY <1>3, <1>5, <1>6, MidwayTable

\* PRAGMA cipher, wherever it is executed, keeps the invariant.
LEMMA CipherKeeps ==
    ASSUME IInv, ExecCipher
    PROVE  IInv'
<1> DEFINE u == Configure(conn.table, Head(todo))
<1>1. /\ conn' = [conn EXCEPT !.table = u] /\ todo' = Tail(todo)
      /\ UNCHANGED << plan, file, stage >> /\ Executing("cipher")
  BY DEF ExecCipher, Done
<1>2. /\ IsPlan(plan) /\ IsEncryption(plan.old) /\ IsEncryption(plan.new) /\ Typed
      /\ Cipher(plan.new) \in Ciphers /\ IsTable(conn.table) /\ SwitchDefaults(conn.table)
      /\ FromKey(plan) \in Seq(Statements) /\ FromRekey(plan) \in Seq(Statements)
      /\ LastKey(plan) \in Seq(Statements) /\ FromNewKey(plan) \in Seq(Statements)
  BY PlanEncryptions, Lists DEF IInv, Typed
<1>3. (OldOpens => OldOpens') /\ (NewOpens => NewOpens')
  BY <1>1, FileKept
<1>4. conn'.table = u
  BY <1>1, <1>2 DEF Typed
<1> HIDE DEF u
<1>5. IsTable(u) /\ SwitchDefaults(u) =>
         Typed' /\ conn'.codec = conn.codec /\ conn'.pageSize = conn.pageSize
  BY <1>1, <1>2, TableStep
<1>6. CASE stage = "migrate" /\ OldStart /\ (Sound => OldOpens)
  <2>1. /\ Midway(u, todo', "main", plan.old, FromKey(plan), Base(plan.old), Base(plan.old),
                  TRUE)
        /\ SameElsewhere(CloneTable, u, Cipher(plan.old))
        /\ IsTable(u) /\ SwitchDefaults(u)
    BY <1>1, <1>2, <1>4, <1>6, StartKeeps DEF OldStart, u
  <2>2. Opening(plan.old, FromKey(plan))'
    BY <1>1, <1>4, <2>1 DEF Opening, Sending, Base
  <2> QED  BY <1>1, <1>3, <1>5, <1>6, <2>1, <2>2 DEF IInv, Place, BeforeRekey
<1>7. CASE stage = "migrate" /\ TempStart /\ (Sound => OldOpens)
  <2>1. Begins(todo, CipherStmt("temp", Cipher(plan.new)),
               Steps("temp", Ints(plan.new), 0, FromRekey(plan)))
    BY <1>2, <1>7, SendBegins DEF TempStart, Preparing, FromTemp
  <2>2. \A q \in Params(Cipher(plan.new)) :
           Val(conn.table, Cipher(plan.new), q) = Left(plan)[q]
           /\ Default(conn.table, Cipher(plan.new), q) = Left(plan)[q]
    BY <1>2, <1>7 DEF TempStart, Preparing, Keyed, Left
  <2>3. u = Configure(conn.table, CipherStmt("temp", Cipher(plan.new)))
    BY <2>1 DEF u, Begins
  <2>4. /\ Midway(u, Steps("temp", Ints(plan.new), 0, FromRekey(plan)), "temp", plan.new,
                  FromRekey(plan), Left(plan), Left(plan), FALSE)
        /\ SwitchDefaults(u)
    BY <1>2, <2>2, <2>3, CipherSent
  <2>5. IsTable(u)
    BY <2>4, MidwayTable
  <2>6. Transient(plan)'
    BY <1>1, <1>4, <1>5, <1>7, <2>1, <2>4, <2>5
       DEF Transient, Sending, Begins, TempStart, Preparing, Keyed, Left
  <2> QED  BY <1>1, <1>3, <1>5, <1>7, <2>4, <2>5, <2>6 DEF IInv, Place, BeforeRekey
<1>8. CASE stage = "migrate" /\ NewStart /\ (Sound => NewOpens)
  <2> DEFINE vals == Values(conn.table, Cipher(plan.new))
             clean == plan.newKey # EmptyKey
  <2>1. Begins(todo, CipherStmt("main", Cipher(plan.new)),
               Steps("main", Ints(plan.new), 0, LastKey(plan)))
    BY <1>2, <1>8, SendBegins DEF NewStart, Rekeyed, AfterRekey
  <2>2. \A q \in Params(Cipher(plan.new)) :
           Val(conn.table, Cipher(plan.new), q) = vals[q]
           /\ Default(conn.table, Cipher(plan.new), q) = Left(plan)[q]
    BY <1>8 DEF NewStart, Rekeyed, Left, Values
  <2>3. u = Configure(conn.table, CipherStmt("main", Cipher(plan.new)))
    BY <2>1 DEF u, Begins
  <2>4. /\ clean \in BOOLEAN
        /\ clean => /\ Switched(conn.table, plan.new, 0)
                    /\ SameLegacy(Cipher(plan.new), vals, Left(plan))
    BY <1>8 DEF NewStart, Rekeyed, Left
  <2> HIDE DEF vals, clean
  <2>5. /\ Midway(u, Steps("main", Ints(plan.new), 0, LastKey(plan)), "main", plan.new,
                  LastKey(plan), vals, Left(plan), clean)
        /\ SwitchDefaults(u)
    BY <1>2, <2>2, <2>3, <2>4, CipherSent
  <2>6. IsTable(u)
    BY <2>5, MidwayTable
  <2>7. PICK w : w = vals
    OBVIOUS
  <2>8. Finishing(plan, w)'
    BY <1>1, <1>4, <2>1, <2>4, <2>5, <2>7 DEF Finishing, Sending, Begins, Left, clean
  <2>9. AfterTheRekey(plan)'
    BY <2>8 DEF AfterTheRekey
  <2> QED  BY <1>1, <1>3, <1>5, <1>8, <2>5, <2>6, <2>9 DEF IInv, Place
<1>9. CASE stage = "reopen" /\ AgainStart /\ (Sound => NewOpens)
  <2>1. /\ Midway(u, todo', "main", plan.new, FromNewKey(plan), Base(plan.new),
                  Base(plan.new), TRUE)
        /\ SameElsewhere(CloneTable, u, Cipher(plan.new))
        /\ IsTable(u) /\ SwitchDefaults(u)
    BY <1>1, <1>2, <1>4, <1>9, StartKeeps DEF AgainStart, u
  <2>2. Opening(plan.new, FromNewKey(plan))'
    BY <1>1, <1>4, <2>1 DEF Opening, Sending, Base
  <2> QED  BY <1>1, <1>3, <1>5, <1>9, <2>1, <2>2 DEF IInv, Place, Again
<1> QED  BY <1>1, <1>6, <1>7, <1>8, <1>9, AtCipher

\* Two steps that leave the other ciphers alone are one.
LEMMA ElsewhereAgain ==
    ASSUME NEW t, NEW u, NEW w, NEW c, SameElsewhere(t, u, c), SameElsewhere(u, w, c)
    PROVE  SameElsewhere(t, w, c)
BY DEF SameElsewhere

\* A parameter of the old or of the current configuration keeps the invariant.
LEMMA ParamKeeps ==
    ASSUME IInv, ExecParam
    PROVE  IInv'
<1> DEFINE u == Configure(conn.table, Head(todo))
<1>1. /\ conn' = [conn EXCEPT !.table = u] /\ todo' = Tail(todo)
      /\ UNCHANGED << plan, file, stage >> /\ Executing("param")
  BY DEF ExecParam, Done
<1>2. Typed /\ SwitchDefaults(conn.table)
  BY DEF IInv, Typed
<1>3. (OldOpens => OldOpens') /\ (NewOpens => NewOpens')
  BY <1>1, FileKept
<1>4. conn'.table = u
  BY <1>1, <1>2 DEF Typed
<1> HIDE DEF u
<1>5. IsTable(u) /\ SwitchDefaults(u) =>
         Typed' /\ conn'.codec = conn.codec /\ conn'.pageSize = conn.pageSize
  BY <1>1, <1>2, TableStep
<1>6. CASE stage = "migrate" /\ OldParam /\ (Sound => OldOpens)
  <2>1. /\ Midway(u, todo', "main", plan.old, FromKey(plan), Base(plan.old), Base(plan.old),
                  TRUE)
        /\ SameElsewhere(conn.table, u, Cipher(plan.old))
        /\ SwitchDefaults(u)
    BY <1>1, <1>2, <1>6 DEF OldParam, Stepping, u
  <2>2. IsTable(u)
    BY <2>1, MidwayTable
  <2>3. SameElsewhere(CloneTable, u, Cipher(plan.old))
    BY <1>6, <2>1, ElsewhereAgain DEF OldParam
  <2>4. Opening(plan.old, FromKey(plan))'
    BY <1>1, <1>4, <2>1, <2>3 DEF Opening, Sending, Base
  <2> QED  BY <1>1, <1>3, <1>5, <1>6, <2>1, <2>2, <2>4 DEF IInv, Place, BeforeRekey
<1>7. CASE stage = "migrate" /\ TempParam /\ (Sound => OldOpens)
  <2>1. /\ Midway(u, todo', "temp", plan.new, FromRekey(plan), Left(plan), Left(plan), FALSE)
        /\ SwitchDefaults(u)
    BY <1>1, <1>2, <1>7 DEF TempParam, Stepping, u
  <2>2. IsTable(u)
    BY <2>1, MidwayTable
  <2>3. Transient(plan)'
    BY <1>1, <1>4, <1>5, <1>7, <2>1, <2>2 DEF Transient, Sending, Left, TempParam, AtRekeyPage
  <2> QED  BY <1>1, <1>3, <1>5, <1>7, <2>1, <2>2, <2>3 DEF IInv, Place, BeforeRekey
<1>8. CASE stage = "migrate" /\ (\E vals : NewParam(vals)) /\ (Sound => NewOpens)
  <2> DEFINE clean == plan.newKey # EmptyKey
  <2>1. PICK vals : NewParam(vals)
    BY <1>8
  <2>2. /\ Midway(u, todo', "main", plan.new, LastKey(plan), vals, Left(plan), clean)
        /\ SwitchDefaults(u)
        /\ clean => SameLegacy(Cipher(plan.new), vals, Left(plan))
    BY <1>1, <1>2, <2>1 DEF NewParam, Stepping, u
  <2> HIDE DEF clean
  <2>3. IsTable(u)
    BY <2>2, MidwayTable
  <2>4. Finishing(plan, vals)'
    BY <1>1, <1>4, <2>2 DEF Finishing, Sending, Left, clean
  <2>5. AfterTheRekey(plan)'
    BY <2>4 DEF AfterTheRekey
  <2> QED  BY <1>1, <1>3, <1>5, <1>8, <2>2, <2>3, <2>5 DEF IInv, Place
<1>9. CASE stage = "reopen" /\ AgainParam /\ (Sound => NewOpens)
  <2>1. /\ Midway(u, todo', "main", plan.new, FromNewKey(plan), Base(plan.new),
                  Base(plan.new), TRUE)
        /\ SameElsewhere(conn.table, u, Cipher(plan.new))
        /\ SwitchDefaults(u)
    BY <1>1, <1>2, <1>9 DEF AgainParam, Stepping, u
  <2>2. IsTable(u)
    BY <2>1, MidwayTable
  <2>3. SameElsewhere(CloneTable, u, Cipher(plan.new))
    BY <1>9, <2>1, ElsewhereAgain DEF AgainParam
  <2>4. Opening(plan.new, FromNewKey(plan))'
    BY <1>1, <1>4, <2>1, <2>3 DEF Opening, Sending, Base
  <2> QED  BY <1>1, <1>3, <1>5, <1>9, <2>1, <2>2, <2>4 DEF IInv, Place, Again
<1> QED  BY <1>1, <1>6, <1>7, <1>8, <1>9, AtParam

-----------------------------------------------------------------------------
(* PRAGMA key                                                               *)

\* The table and the codec that key leaves.
LEMMA KeyTable ==
    ASSUME NEW t, IsTable(t), SwitchDefaults(t), NEW key \in AllKeys
    PROVE  /\ IsTable(AttachedTable(t, key))
           /\ SwitchDefaults(AttachedTable(t, key))
           /\ \A c \in Ciphers : \A q \in Params(c) :
                /\ Default(AttachedTable(t, key), c, q) = Default(t, c, q)
                /\ Val(AttachedTable(t, key), c, q) \in {Val(t, c, q), Default(t, c, q)}
<1>1. CASE key = EmptyKey
  BY <1>1, Attached
<1>2. CASE key # EmptyKey
  <2>1. AttachedTable(t, key) = Consume(t)
    BY <1>2, Attached
  <2> QED  BY <2>1, ConsumeEffect
<1> QED  BY <1>1, <1>2

\* The second allocation of the migration, from the main. statements, makes the
\* cipher that the temp. statements made for the rekey.
LEMMA LastAllocation ==
    ASSUME NEW t, NEW enc, IsEncryption(enc), NEW vals, NEW defs, NEW both,
           Configuring(t, "main", enc, 12, vals, defs),
           SameLegacy(Cipher(enc), vals, defs),
           Configuring(both, "temp", enc, 12, defs, defs)
    PROVE  Allocate(Consume(t)) = Allocate(both)
<1> DEFINE c == Cipher(enc)
           u == Consume(t)
           cfg == enc.cipherConfig
<1>1. c \in Ciphers /\ c = cfg.cipher /\ IsConfig(cfg)
  BY DEF IsEncryption, IsConfig, Cipher
<1>2. /\ IsTable(t) /\ t.cipher.value = c /\ t.cipher.default = c
      /\ \A q \in Params(c) : Val(t, c, q) = Settled(cfg, 12, vals)[q]
                              /\ Default(t, c, q) = Settled(cfg, 12, defs)[q]
  BY <1>1 DEF Configuring
<1>3. /\ both.cipher.value = c
      /\ \A q \in Params(c) : Val(both, c, q) = Settled(cfg, 12, defs)[q]
  BY <1>1 DEF Configuring
<1>4. u.cipher.value = c
  <2>1. u.cipher = [value |-> t.cipher.default, default |-> t.cipher.default]
    BY <1>2, ConsumeEffect
  <2> HIDE DEF u, c
  <2> QED  BY <1>2, <2>1
<1>5. \A q \in Params(c) : Val(u, c, q) = IF q \in ReadParams(t, c) THEN Default(t, c, q)
                                          ELSE Val(t, c, q)
  BY <1>1, <1>2, ConsumeEffect
<1>6. "legacy" \in Params(c) =>
         Settled(cfg, 12, vals)["legacy"] = Settled(cfg, 12, defs)["legacy"]
  BY <1>1 DEF Settled, SameLegacy, VersionNames
<1> HIDE DEF u, c, cfg
<1>7. ReadParams(t, c) \subseteq Params(c)
      /\ ("legacy" \in Params(c) => "legacy" \in ReadParams(t, c))
  BY ReadsOwnParams
<1>8. "legacy" \in Params(c) => Val(u, c, "legacy") = Val(t, c, "legacy")
                               /\ Val(u, c, "legacy") = Val(both, c, "legacy")
  BY <1>2, <1>3, <1>5, <1>6, <1>7
<1>9. c = "sqlcipher" => "legacy" \in Params(c)
  BY SqlCipherHasLegacy
<1>10. ReadParams(u, c) = ReadParams(t, c)
  BY <1>1, <1>8, <1>9, SameParamsRead
<1>11. ReadParams(u, c) = ReadParams(both, c)
  BY <1>1, <1>8, <1>9, SameParamsRead
<1>12. \A q \in ReadParams(u, c) : Val(u, c, q) = Val(both, c, q)
  BY <1>2, <1>3, <1>5, <1>7, <1>10
<1>13. Allocate(u) = Allocate(both)
  BY <1>1, <1>3, <1>4, <1>11, <1>12, SameCipher
<1> QED  BY <1>13 DEF u

\* The codec of a connection that executed the statements of enc.
LEMMA KeySwitches ==
    ASSUME NEW t, NEW enc, IsEncryption(enc), NEW key \in AllKeys, key # EmptyKey,
           Switched(t, enc, 12)
    PROVE  HasSwitches(AttachedCodec(t, key), enc)
<1>1. /\ AttachedCodec(t, key).hmacCheck = Val(t, "global", "hmac_check")
      /\ AttachedCodec(t, key).walLegacy = Val(t, "global", "mc_legacy_wal")
  BY Attached
<1>2. /\ Val(t, "global", "hmac_check") = IF ~enc.hmacCheck THEN 0 ELSE 1
      /\ Val(t, "global", "mc_legacy_wal") = IF enc.mcLegacyWAL THEN 1 ELSE 0
  BY DEF Switched
<1>3. enc.hmacCheck \in BOOLEAN
  BY DEF IsEncryption
<1>4. CASE enc.hmacCheck
  BY <1>1, <1>2, <1>4 DEF HasSwitches
<1>5. CASE ~enc.hmacCheck
  BY <1>1, <1>2, <1>5 DEF HasSwitches
<1> QED  BY <1>4, <1>5

\* The codec of a reopened connection is the one its statements alone make.
LEMMA SameFreshCodec ==
    ASSUME NEW t, NEW enc, IsEncryption(enc), NEW key \in AllKeys,
           Configuring(t, "main", enc, 12, Base(enc), Base(enc)), Switched(t, enc, 12)
    PROVE  AttachedCodec(t, key) = FreshCodec(enc, key)
<1> DEFINE u == ConfigureAll(CloneTable, "main", ApplyPragmas(enc))
<1>1. Configuring(u, "main", enc, 12, Base(enc), Base(enc)) /\ Switched(u, enc, 12)
  BY AloneConfigured DEF Base
<1> HIDE DEF u
<1>2. Allocate(t) = Allocate(u)
  BY <1>1, SameConfigured
<1>3. /\ t.params.global.hmac_check.value = u.params.global.hmac_check.value
      /\ t.params.global.mc_legacy_wal.value = u.params.global.mc_legacy_wal.value
  BY <1>1 DEF Switched, Val
<1> QED  BY <1>2, <1>3 DEF AttachedCodec, FreshCodec, u

\* PRAGMA key keeps the invariant, of the old key, of the new one after the
\* rekey and of a later connection.
LEMMA KeyKeeps ==
    ASSUME IInv, ExecKey
    PROVE  IInv'
<1> DEFINE key   == Head(todo).key
           codec == AttachedCodec(conn.table, key)
           u     == AttachedTable(conn.table, key)
           ps    == IF codec # NoCodec /\ PageSizeOf(codec.alloc) # 0
                    THEN PageSizeOf(codec.alloc) ELSE conn.pageSize
<1>1. /\ conn' = [table |-> u, codec |-> codec, pageSize |-> ps]
      /\ todo' = Tail(todo)
      /\ UNCHANGED << plan, file, stage >> /\ Executing("key")
  BY DEF ExecKey, Done
<1>2. /\ IsPlan(plan) /\ IsEncryption(plan.old) /\ IsEncryption(plan.new) /\ Typed
      /\ Cipher(plan.new) \in Ciphers /\ IsTable(conn.table) /\ SwitchDefaults(conn.table)
      /\ plan.oldKey \in AllKeys /\ plan.newKey \in AllKeys
  BY PlanEncryptions DEF IInv, Typed, IsPlan
<1>3. (OldOpens => OldOpens') /\ (NewOpens => NewOpens')
  BY <1>1, FileKept
<1> HIDE DEF ps, u, codec, key
<1>4. conn'.table = u /\ conn'.codec = codec /\ conn'.pageSize = ps
  BY <1>1
<1>5. key \in AllKeys => Typed'
  <2> SUFFICES ASSUME key \in AllKeys PROVE Typed'
    OBVIOUS
  <2>1. IsTable(u) /\ SwitchDefaults(u)
    BY <1>2, KeyTable DEF u
  <2>2. u.cipher.value \in Ciphers /\ u.cipher.default \in Ciphers
    BY <2>1 DEF IsTable
  <2>3. TypeOK'
    BY <1>1, <1>2, <1>4, <2>2 DEF Typed, TypeOK
  <2>4. conn' = [table |-> conn'.table, codec |-> conn'.codec, pageSize |-> conn'.pageSize]
    BY <1>1, <1>4
  <2>5. file' = [scheme |-> file'.scheme, key |-> file'.key, pageSize |-> file'.pageSize,
                  wal |-> file'.wal]
    BY <1>1, <1>2 DEF Typed
  <2>6. IsPlan(plan)' /\ IsTable(conn.table)' /\ SwitchDefaults(conn.table)'
    BY <1>1, <1>2, <1>4, <2>1
  <2> QED  BY <2>3, <2>4, <2>5, <2>6 DEF Typed
<1>6. CASE stage = "migrate" /\ OldKey /\ (Sound => OldOpens)
  <2>1. key = plan.oldKey /\ todo' = FromSelect(plan)
    BY <1>1, <1>6, Ops DEF OldKey, key
  <2>2. \A c \in Ciphers : \A q \in Params(c) :
           Val(conn.table, c, q) = LeftBy(plan, c)[q]
           /\ Default(conn.table, c, q) = LeftBy(plan, c)[q]
    BY <1>2, <1>6, OldConfigured DEF OldKey, Ended, Base
  <2>3. \A c \in Ciphers : \A q \in Params(c) :
           Val(u, c, q) = LeftBy(plan, c)[q] /\ Default(u, c, q) = LeftBy(plan, c)[q]
    BY <1>2, <2>1, <2>2, KeyTable DEF u
  <2>4. codec.key = plan.oldKey
    BY <1>2, <2>1, Attached DEF codec
  <2>5. Reading(plan)'
    BY <1>1, <1>4, <2>1, <2>3, <2>4 DEF Reading, Keyed
  <2> QED  BY <1>1, <1>2, <1>3, <1>5, <1>6, <2>1, <2>5 DEF IInv, Place, BeforeRekey
<1>7. CASE stage = "migrate" /\ (\E vals : NewKey(vals)) /\ (Sound => NewOpens)
  <2>1. PICK vals : NewKey(vals)
    BY <1>7
  <2>2. key = plan.newKey /\ todo' = << >>
    BY <1>1, <2>1, Ops DEF NewKey, key
  <2>3. CASE plan.newKey = EmptyKey
    <3>1. codec = NoCodec
      BY <1>2, <2>2, <2>3, Attached DEF codec
    <3>2. Migrated(plan)'
      BY <1>1, <1>4, <2>2, <2>3, <3>1 DEF Migrated
    <3> QED  BY <1>1, <1>2, <1>3, <1>5, <1>7, <2>2, <3>2 DEF IInv, Place
  <2>4. CASE plan.newKey # EmptyKey
    <3>1. /\ Configuring(conn.table, "main", plan.new, 12, vals, Left(plan))
          /\ Switched(conn.table, plan.new, 12)
          /\ SameLegacy(Cipher(plan.new), vals, Left(plan))
      BY <2>1, <2>4 DEF NewKey, Ended
    <3>2. HasSwitches(codec, plan.new)
      BY <1>2, <2>2, <2>4, <3>1, KeySwitches DEF codec
    <3>3. u = Consume(conn.table)
      BY <1>2, <2>2, <2>4, Attached DEF u
    <3>4. Configuring(BothConfigured(plan), "temp", plan.new, 12, Left(plan), Left(plan))
      BY <1>2, BothEffect DEF Left
    <3>5. Allocate(u) = Allocate(BothConfigured(plan))
      BY <1>2, <3>1, <3>3, <3>4, LastAllocation
    <3>6. Migrated(plan)'
      BY <1>1, <1>4, <2>2, <2>4, <3>2, <3>5 DEF Migrated
    <3> QED  BY <1>1, <1>2, <1>3, <1>5, <1>7, <2>2, <3>6 DEF IInv, Place
  <2> QED  BY <2>3, <2>4
<1>8. CASE stage = "reopen" /\ AgainKey /\ (Sound => NewOpens)
  <2>1. key = plan.newKey /\ todo' = LastRead
    BY <1>1, <1>8, Ops DEF AgainKey, key
  <2>2. codec = FreshCodec(plan.new, plan.newKey)
    BY <1>2, <1>8, <2>1, SameFreshCodec DEF AgainKey, Ended, codec
  <2>3. Reopened(plan)'
    BY <1>1, <1>4, <2>2 DEF Reopened
  <2> QED  BY <1>1, <1>2, <1>3, <1>5, <1>8, <2>1, <2>3 DEF IInv, Place
<1> QED  BY <1>1, <1>6, <1>7, <1>8, AtKey

-----------------------------------------------------------------------------
(* Reading, leaving WAL mode, failing                                       *)

\* A change of the stage alone keeps the types.
LEMMA TypedKept ==
    ASSUME Typed, UNCHANGED << plan, file, conn >>,
           stage' \in {"migrate", "migrated", "reopen", "reopened", "failed"}
    PROVE  Typed'
<1>1. TypeOK'
  BY DEF Typed, TypeOK
<1>2. IsPlan(plan)' /\ IsTable(conn.table)' /\ SwitchDefaults(conn.table)'
  BY DEF Typed
<1>3. conn' = [table |-> conn'.table, codec |-> conn'.codec, pageSize |-> conn'.pageSize]
  BY DEF Typed
<1>4. file' = [scheme |-> file'.scheme, key |-> file'.key, pageSize |-> file'.pageSize,
               wal |-> file'.wal]
  BY DEF Typed
<1> QED  BY <1>1, <1>2, <1>3, <1>4 DEF Typed

\* A failed connection leaves a file that opens.
LEMMA FailKeeps ==
    ASSUME IInv, Fail, Sound => OldOpens \/ NewOpens
    PROVE  IInv'
<1>1. todo' = << >> /\ stage' = "failed" /\ UNCHANGED << plan, file, conn >>
  BY DEF Fail
<1>2. Typed'
  BY <1>1, TypedKept DEF IInv
<1>3. (OldOpens => OldOpens') /\ (NewOpens => NewOpens')
  BY <1>1, FileKept
<1> QED  BY <1>1, <1>2, <1>3 DEF IInv, Place

\* Reading the file keeps the invariant, whether the codec reads it or not.
LEMMA SelectKeeps ==
    ASSUME IInv, ExecSelect
    PROVE  IInv'
<1>1. Executing("select")
  BY DEF ExecSelect
<1>2. \/ stage = "migrate" /\ OldRead /\ (Sound => OldOpens)
      \/ stage = "reopen" /\ AgainRead /\ (Sound => NewOpens)
  BY <1>1, AtSelect
<1>3. CASE Fail
  BY <1>2, <1>3, FailKeeps
<1>4. CASE ~Fail
  <2>1. /\ conn' = [conn EXCEPT !.pageSize = file.pageSize] /\ todo' = Tail(todo)
        /\ UNCHANGED << plan, file, stage >>
    BY <1>4 DEF ExecSelect, Done
  <2>2. /\ conn'.table = conn.table /\ conn'.codec = conn.codec
        /\ conn'.pageSize = file.pageSize
        /\ conn' = [table |-> conn'.table, codec |-> conn'.codec, pageSize |-> conn'.pageSize]
    BY <2>1 DEF IInv, Typed
  <2>3. Typed'
    <3>1. TypeOK'
      BY <2>1, <2>2 DEF IInv, Typed, TypeOK
    <3>2. IsPlan(plan)' /\ IsTable(conn.table)' /\ SwitchDefaults(conn.table)'
      BY <2>1, <2>2 DEF IInv, Typed
    <3>3. file' = [scheme |-> file'.scheme, key |-> file'.key, pageSize |-> file'.pageSize,
                   wal |-> file'.wal]
      BY <2>1 DEF IInv, Typed
    <3> QED  BY <2>2, <3>1, <3>2, <3>3 DEF Typed
  <2>4. (OldOpens => OldOpens') /\ (NewOpens => NewOpens')
    BY <2>1, FileKept
  <2>5. CASE stage = "migrate" /\ OldRead /\ (Sound => OldOpens)
    <3>1. LeavingWal(plan)'
      BY <2>1, <2>2, <2>5 DEF LeavingWal, OldRead, Reading, Keyed
    <3> QED  BY <2>1, <2>3, <2>4, <2>5, <3>1 DEF IInv, Place, BeforeRekey
  <2>6. CASE stage = "reopen" /\ AgainRead /\ (Sound => NewOpens)
    <3>1. Reopened(plan)' /\ todo' = << >>
      BY <2>1, <2>2, <2>6 DEF Reopened, AgainRead
    <3> QED  BY <2>1, <2>3, <2>4, <2>6, <3>1 DEF IInv, Place
  <2> QED  BY <1>2, <2>5, <2>6
<1> QED  BY <1>3, <1>4

\* A step that changes nothing of the file but its journal mode.
LEMMA JournalStep ==
    ASSUME Typed, NEW w \in BOOLEAN, file' = [file EXCEPT !.wal = w],
           UNCHANGED << plan, conn, stage >>
    PROVE  /\ Typed' /\ file'.wal = w /\ file'.pageSize = file.pageSize
           /\ (OldOpens => OldOpens') /\ (NewOpens => NewOpens')
<1>1. file = [scheme |-> file.scheme, key |-> file.key, pageSize |-> file.pageSize,
              wal |-> file.wal]
  BY DEF Typed
<1>2. file' = [scheme |-> file.scheme, key |-> file.key, pageSize |-> file.pageSize,
               wal |-> w]
  BY <1>1
<1>3. /\ file'.scheme = file.scheme /\ file'.key = file.key
      /\ file'.pageSize = file.pageSize /\ file'.wal = w
  BY <1>2
<1>4. (OldOpens => OldOpens') /\ (NewOpens => NewOpens')
  BY <1>3, CanReadSame DEF OldOpens, NewOpens
<1>5. TypeOK'
  BY <1>3 DEF Typed, TypeOK
<1>6. IsPlan(plan)' /\ IsTable(conn.table)' /\ SwitchDefaults(conn.table)'
  BY DEF Typed
<1>7. conn' = [table |-> conn'.table, codec |-> conn'.codec, pageSize |-> conn'.pageSize]
  BY DEF Typed
<1>8. file' = [scheme |-> file'.scheme, key |-> file'.key, pageSize |-> file'.pageSize,
               wal |-> file'.wal]
  BY <1>2, <1>3
<1> QED  BY <1>3, <1>4, <1>5, <1>6, <1>7, <1>8 DEF Typed

\* Leaving WAL keeps the invariant, whether or not another connection holds the
\* file.
LEMMA JournalDeleteKeeps ==
    ASSUME IInv, ExecJournalDelete
    PROVE  IInv'
<1>1. Executing("journal_delete")
  BY DEF ExecJournalDelete
<1>2. stage = "migrate" /\ OldJournal /\ (Sound => OldOpens)
  BY <1>1, AtJournalDelete
<1>3. CASE Fail
  BY <1>2, <1>3, FailKeeps
<1>4. CASE ~Fail
  <2>1. /\ file' = [file EXCEPT !.wal = FALSE] /\ todo' = Tail(todo)
        /\ UNCHANGED << plan, conn, stage >>
    BY <1>4 DEF ExecJournalDelete, Done
  <2>2. /\ Typed' /\ file'.wal = FALSE /\ file'.pageSize = file.pageSize
        /\ (OldOpens => OldOpens')
    BY <2>1, JournalStep DEF IInv
  <2>3. Preparing(plan)'
    BY <1>2, <2>1, <2>2 DEF Preparing, OldJournal, LeavingWal, Keyed
  <2> QED  BY <1>2, <2>1, <2>2, <2>3 DEF IInv, Place, BeforeRekey
<1> QED  BY <1>3, <1>4

-----------------------------------------------------------------------------
(* PRAGMA rekey                                                             *)

\* What the current key and configuration alone allocate is what the rekey
\* wrote the file with.
LEMMA WriteCipher ==
    ASSUME Sound, IInv, AtRekey, plan.newKey # EmptyKey
    PROVE  /\ Allocate(conn.table) = FreshAlloc(plan.new)
           /\ AttachedCodec(conn.table, plan.newKey).alloc = FreshAlloc(plan.new)
           /\ SchemeOf(AttachedCodec(conn.table, plan.newKey))
                = SchemeOf(FreshCodec(plan.new, plan.newKey))
<1>1. IsPlan(plan) /\ IsEncryption(plan.new) /\ plan.newKey \in AllKeys
  BY PlanEncryptions DEF IInv, Typed, IsPlan
<1>2. Configuring(conn.table, "temp", plan.new, 12, Left(plan), Left(plan))
  BY DEF AtRekey, Ended
<1>3. Configuring(BothConfigured(plan), "temp", plan.new, 12, Left(plan), Left(plan))
  BY <1>1, BothEffect DEF Left
<1>4. Allocate(conn.table) = Allocate(BothConfigured(plan))
  BY <1>1, <1>2, <1>3, SameConfigured
<1>5. Allocate(conn.table) = FreshAlloc(plan.new)
  BY <1>1, <1>4, SoundFacts
<1>6. /\ AttachedCodec(conn.table, plan.newKey).alloc = FreshAlloc(plan.new)
      /\ AttachedCodec(conn.table, plan.newKey) # NoCodec
  BY <1>1, <1>5, Attached
<1>7. /\ FreshCodec(plan.new, plan.newKey).alloc = FreshAlloc(plan.new)
      /\ FreshCodec(plan.new, plan.newKey) # NoCodec
  BY <1>1, FreshCodecIs
<1> QED  BY <1>5, <1>6, <1>7 DEF SchemeOf

\* PRAGMA rekey: the file opens with the current configuration and key if
\* the table, with both configurations executed, makes the cipher that the
\* current one makes alone.
LEMMA RekeyKeeps ==
    ASSUME IInv, ExecRekey
    PROVE  IInv'
<1> DEFINE key   == plan.newKey
           codec == AttachedCodec(conn.table, key)
           noop  == ~file.wal /\ key = EmptyKey /\ conn.codec = NoCodec
<1>1. Executing("rekey")
  BY DEF ExecRekey
<1>2. stage = "migrate" /\ AtRekey /\ (Sound => OldOpens)
  BY <1>1, AtRekeyStatement
<1>3. Head(todo).key = key /\ Tail(todo) = AfterRekey(plan)
  BY <1>2, Ops DEF AtRekey
<1>4. /\ IsPlan(plan) /\ IsEncryption(plan.new) /\ Typed
      /\ Cipher(plan.new) \in Ciphers /\ IsTable(conn.table) /\ SwitchDefaults(conn.table)
      /\ plan.oldKey \in AllKeys /\ plan.newKey \in AllKeys
  BY PlanEncryptions DEF IInv, Typed, IsPlan
<1>5. /\ Configuring(conn.table, "temp", plan.new, 12, Left(plan), Left(plan))
      /\ conn.codec.key = plan.oldKey /\ conn.pageSize = file.pageSize /\ ~file.wal
  BY <1>2 DEF AtRekey, Ended, AtRekeyPage
<1>6. /\ conn.table.cipher.value = Cipher(plan.new)
      /\ \A q \in Params(Cipher(plan.new)) :
            Default(conn.table, Cipher(plan.new), q) = Left(plan)[q]
  BY <1>5 DEF Configuring, Cipher
<1>7. \/ noop /\ UNCHANGED << file, conn >> /\ Done
      \/ /\ RekeyAllowed(key)
         /\ file' = [file EXCEPT !.scheme = SchemeOf(codec), !.key = key]
         /\ conn' = [conn EXCEPT !.codec = codec, !.table = AttachedTable(@, key)]
         /\ Done
      \/ Fail
  BY <1>3 DEF ExecRekey, WriteCodec
<1> HIDE DEF codec, noop
<1>8. CASE Fail
  BY <1>2, <1>8, FailKeeps
<1>9. CASE noop /\ UNCHANGED << file, conn >> /\ Done
  <2>1. /\ todo' = AfterRekey(plan) /\ UNCHANGED << plan, file, conn, stage >>
        /\ plan.newKey = EmptyKey /\ conn.codec = NoCodec
    BY <1>3, <1>9 DEF Done, noop
  <2>2. plan.oldKey = EmptyKey
    BY <1>5, <2>1 DEF NoCodec
  <2>3. OldOpens => NewOpens
    <3>1. FreshCodec(plan.old, plan.oldKey) = NoCodec /\ FreshCodec(plan.new, plan.newKey) = NoCodec
      BY <1>4, <2>1, <2>2, FreshCodecIs
    <3> QED  BY <3>1 DEF OldOpens, NewOpens
  <2>4. NewOpens => NewOpens'
    BY <2>1, FileKept
  <2>5. Rekeyed(plan)'
    BY <1>6, <2>1 DEF Rekeyed, Left
  <2>6. Typed'
    BY <1>2, <1>4, <2>1, TypedKept
  <2> QED  BY <1>2, <2>1, <2>3, <2>4, <2>5, <2>6 DEF IInv, Place, AfterTheRekey
<1>10. CASE /\ RekeyAllowed(key)
            /\ file' = [file EXCEPT !.scheme = SchemeOf(codec), !.key = key]
            /\ conn' = [conn EXCEPT !.codec = codec, !.table = AttachedTable(@, key)]
            /\ Done
  <2> DEFINE u == AttachedTable(conn.table, key)
  <2>1. todo' = AfterRekey(plan) /\ UNCHANGED << plan, stage >>
    BY <1>3, <1>10 DEF Done
  <2>2. /\ conn' = [table |-> u, codec |-> codec, pageSize |-> conn.pageSize]
        /\ file' = [scheme |-> SchemeOf(codec), key |-> key, pageSize |-> file.pageSize,
                    wal |-> file.wal]
    <3>1. /\ conn = [table |-> conn.table, codec |-> conn.codec, pageSize |-> conn.pageSize]
          /\ file = [scheme |-> file.scheme, key |-> file.key, pageSize |-> file.pageSize,
                     wal |-> file.wal]
      BY <1>4 DEF Typed
    <3> QED  BY <1>10, <3>1
  <2>3. IsTable(u) /\ SwitchDefaults(u)
    BY <1>4, KeyTable
  <2>4. \A q \in Params(Cipher(plan.new)) :
           Default(u, Cipher(plan.new), q) = Left(plan)[q]
    BY <1>4, <1>6, KeyTable
  <2>5. SchemeOf(codec).cipher \in Ciphers \cup {"none"}
    BY <1>4, SchemeCipher DEF codec
  <2>6. key # EmptyKey =>
           /\ Switched(u, plan.new, 0)
           /\ "legacy" \in Params(Cipher(plan.new)) =>
                 Val(u, Cipher(plan.new), "legacy") = Left(plan)["legacy"]
    <3> SUFFICES ASSUME key # EmptyKey
                 PROVE  /\ Switched(u, plan.new, 0)
                        /\ "legacy" \in Params(Cipher(plan.new)) =>
                              Val(u, Cipher(plan.new), "legacy") = Left(plan)["legacy"]
      OBVIOUS
    <3> DEFINE c == Cipher(plan.new)
    <3>1. u = Consume(conn.table)
      BY <1>4, Attached
    <3>2. Switched(u, plan.new, 0)
      BY <1>4, <3>1, ConsumeEffect
    <3>3. c \in Ciphers /\ conn.table.cipher.value = c
      BY <1>4, <1>6
    <3>4. "legacy" \in Params(c) => "legacy" \in ReadParams(conn.table, c)
      BY ReadsOwnParams
    <3>5. "legacy" \in Params(c) => Val(u, c, "legacy") = Default(conn.table, c, "legacy")
      <4> HIDE DEF u, c
      <4> QED  BY <1>4, <3>1, <3>3, <3>4, ConsumeEffect
    <3> QED  BY <1>6, <3>2, <3>5
  <2> HIDE DEF u
  <2>7. /\ conn'.table = u /\ conn'.codec = codec /\ conn'.pageSize = conn.pageSize
        /\ file'.scheme = SchemeOf(codec) /\ file'.key = key
        /\ file'.pageSize = file.pageSize /\ file'.wal = file.wal
    BY <2>2
  <2>8. Typed'
    <3>1. u.cipher.value \in Ciphers /\ u.cipher.default \in Ciphers
      BY <2>3 DEF IsTable
    <3>2. TypeOK'
      BY <1>4, <2>1, <2>5, <2>7, <3>1 DEF Typed, TypeOK, AllKeys
    <3>3. IsPlan(plan)' /\ IsTable(conn.table)' /\ SwitchDefaults(conn.table)'
      BY <1>4, <2>1, <2>3, <2>7
    <3>4. conn' = [table |-> conn'.table, codec |-> conn'.codec, pageSize |-> conn'.pageSize]
      BY <2>2, <2>7
    <3>5. file' = [scheme |-> file'.scheme, key |-> file'.key, pageSize |-> file'.pageSize,
                   wal |-> file'.wal]
      BY <2>2, <2>7
    <3> QED  BY <3>2, <3>3, <3>4, <3>5 DEF Typed
  <2>9. Rekeyed(plan)'
    BY <2>1, <2>4, <2>6, <2>7 DEF Rekeyed, Left, SameLegacy, Values
  <2>10. Sound => NewOpens'
    <3> SUFFICES ASSUME Sound PROVE CanRead(FreshCodec(plan.new, plan.newKey), file')
      BY <2>1 DEF NewOpens
    <3>1. Known(plan.new)
      BY <1>4, SoundFacts
    <3>2. file'.scheme = SchemeOf(FreshCodec(plan.new, plan.newKey))
      <4>1. CASE key = EmptyKey
        <5>1. codec = NoCodec /\ FreshCodec(plan.new, plan.newKey) = NoCodec
          BY <1>4, <4>1, Attached, FreshCodecIs DEF codec
        <5> QED  BY <2>7, <5>1
      <4>2. CASE key # EmptyKey
        BY <1>2, <2>7, <4>2, WriteCipher DEF codec
      <4> QED  BY <4>1, <4>2
    <3>3. key # EmptyKey /\ PageSizeOf(FreshAlloc(plan.new)) # 0
             => file'.pageSize = PageSizeOf(FreshAlloc(plan.new))
      <4> SUFFICES ASSUME key # EmptyKey, PageSizeOf(FreshAlloc(plan.new)) # 0
                   PROVE  file.pageSize = PageSizeOf(FreshAlloc(plan.new))
        BY <2>7
      <4>1. PageSizeOf(codec.alloc) \in {0, conn.pageSize}
        BY <1>10 DEF RekeyAllowed, WriteCodec, codec
      <4>2. codec.alloc = FreshAlloc(plan.new)
        BY <1>2, WriteCipher DEF codec
      <4> QED  BY <1>5, <4>1, <4>2
    <3> QED  BY <1>4, <2>7, <3>1, <3>2, <3>3, OpensItsScheme
  <2> QED  BY <1>2, <2>1, <2>8, <2>9, <2>10 DEF IInv, Place, AfterTheRekey
<1> QED  BY <1>7, <1>8, <1>9, <1>10

-----------------------------------------------------------------------------
(* The steps between the statements                                         *)

\* With nothing left to execute, a connection is migrated, reopened or
\* failed.
LEMMA AtEnd ==
    ASSUME IInv, todo = << >>
    PROVE  \/ stage \in {"migrate", "migrated"} /\ Migrated(plan) /\ (Sound => NewOpens)
           \/ stage \in {"reopen", "reopened"} /\ Reopened(plan) /\ (Sound => NewOpens)
           \/ stage = "failed"
<1>1. ~Before /\ ~After /\ ~Later
  BY DEF Before, OldStart, OldParam, OldKey, OldRead, OldJournal, TempStart, TempParam,
         AtRekey, After, NewStart, NewParam, NewKey, Later, AgainStart, AgainParam,
         AgainKey, AgainRead, Op, Stepping
<1>2. IsPlan(plan)
  BY DEF IInv, Typed
<1>3. ~BeforeRekey(plan) /\ ~AfterTheRekey(plan) /\ ~Again(plan)
  BY <1>1, <1>2, LocatedBefore, LocatedAfter, LocatedAgain
<1> QED  BY <1>3 DEF IInv, Place

\* So is one whose stage says that it is.
LEMMA AtRest ==
    ASSUME IInv, stage \in {"migrated", "reopened"}
    PROVE  /\ todo = << >> /\ (Sound => NewOpens)
           /\ stage = "migrated" => Migrated(plan)
           /\ stage = "reopened" => Reopened(plan)
BY DEF IInv, Place, Migrated

\* The end of a migration keeps the invariant.
LEMMA FinishMigrationKeeps ==
    ASSUME IInv, FinishMigration
    PROVE  IInv'
<1>1. /\ stage = "migrate" /\ todo = << >> /\ stage' = "migrated"
      /\ UNCHANGED << plan, file, conn, todo >>
  BY DEF FinishMigration
<1>2. Migrated(plan) /\ (Sound => NewOpens)
  BY <1>1, AtEnd
<1>3. Migrated(plan)'
  BY <1>1, <1>2 DEF Migrated
<1>4. Typed' /\ (NewOpens => NewOpens')
  BY <1>1, TypedKept, FileKept DEF IInv
<1> QED  BY <1>1, <1>2, <1>3, <1>4 DEF IInv, Place

\* The end of a reopening keeps the invariant.
LEMMA FinishReopenKeeps ==
    ASSUME IInv, FinishReopen
    PROVE  IInv'
<1>1. /\ stage = "reopen" /\ todo = << >> /\ stage' = "reopened"
      /\ UNCHANGED << plan, file, conn, todo >>
  BY DEF FinishReopen
<1>2. Reopened(plan) /\ (Sound => NewOpens)
  BY <1>1, AtEnd
<1>3. Reopened(plan)'
  BY <1>1, <1>2 DEF Reopened
<1>4. Typed' /\ (NewOpens => NewOpens')
  BY <1>1, TypedKept, FileKept DEF IInv
<1> QED  BY <1>1, <1>2, <1>3, <1>4 DEF IInv, Place

\* The application that turns WAL on keeps the invariant.
LEMMA UseWalKeeps ==
    ASSUME IInv, UseWal
    PROVE  IInv'
<1>1. /\ stage \in {"migrated", "reopened"} /\ file' = [file EXCEPT !.wal = TRUE]
      /\ UNCHANGED << plan, conn, todo, stage >>
  BY DEF UseWal
<1>2. /\ todo = << >> /\ (Sound => NewOpens)
      /\ stage = "migrated" => Migrated(plan)
      /\ stage = "reopened" => Reopened(plan)
  BY <1>1, AtRest
<1>3. Typed' /\ (NewOpens => NewOpens')
  BY <1>1, JournalStep DEF IInv
<1>4. (Migrated(plan) => Migrated(plan)') /\ (Reopened(plan) => Reopened(plan)')
  BY <1>1 DEF Migrated, Reopened
<1> QED  BY <1>1, <1>2, <1>3, <1>4 DEF IInv, Place

\* A later connection that begins keeps the invariant.
LEMMA ReopenKeeps ==
    ASSUME IInv, Reopen
    PROVE  IInv'
<1>1. /\ stage \in {"migrated", "reopened"} /\ stage' = "reopen" /\ conn' = NewConnection
      /\ todo' = Append(KeyStatements(ApplyPragmas(plan.new), plan.newKey), Select)
      /\ UNCHANGED << plan, file >>
  BY DEF Reopen
<1>2. Typed /\ IsPlan(plan)
  BY DEF IInv, Typed
<1>3. todo' = Send("main", plan.new, FromNewKey(plan))
  BY <1>1, <1>2, ReopeningStatements DEF Reopening
<1>4. Again(plan)'
  BY <1>1, <1>3 DEF Again, Starting
<1>5. conn' = [table |-> CloneTable, codec |-> NoCodec, pageSize |-> DefaultPageSize]
  BY <1>1 DEF NewConnection
<1>6. IsTable(CloneTable) /\ SwitchDefaults(CloneTable)
  BY FreshTable
<1>7. conn'.table = CloneTable
      /\ conn' = [table |-> conn'.table, codec |-> conn'.codec, pageSize |-> conn'.pageSize]
  BY <1>5
<1>8. Typed'
  <2>1. CloneTable.cipher.value \in Ciphers /\ CloneTable.cipher.default \in Ciphers
    BY <1>6 DEF IsTable
  <2>2. TypeOK'
    BY <1>1, <1>2, <1>7, <2>1 DEF Typed, TypeOK
  <2>3. IsPlan(plan)' /\ IsTable(conn.table)' /\ SwitchDefaults(conn.table)'
    BY <1>1, <1>2, <1>6, <1>7
  <2>4. file' = [scheme |-> file'.scheme, key |-> file'.key, pageSize |-> file'.pageSize,
                 wal |-> file'.wal]
    BY <1>1, <1>2 DEF Typed
  <2> QED  BY <1>7, <2>2, <2>3, <2>4 DEF Typed
<1>9. Sound => NewOpens'
  BY <1>1, AtRest, FileKept
<1> QED  BY <1>1, <1>4, <1>8, <1>9 DEF IInv, Place

\* Another connection's use of the file, and steps that change nothing.
LEMMA ElsewhereKeeps ==
    ASSUME IInv, UNCHANGED << plan, file, conn, todo, stage >>
    PROVE  IInv'
<1>1. Typed'
  BY TypedKept DEF IInv, Typed, TypeOK
<1>2. (OldOpens => OldOpens') /\ (NewOpens => NewOpens')
  BY FileKept
<1>3. BeforeRekey(plan) => BeforeRekey(plan)'
  BY DEF BeforeRekey, Starting, Opening, Reading, LeavingWal, Preparing, Transient,
         Sending, Keyed
<1>4. AfterTheRekey(plan) => AfterTheRekey(plan)'
  <2>1. Rekeyed(plan) => Rekeyed(plan)'
    BY DEF Rekeyed
  <2>2. ASSUME NEW vals, Finishing(plan, vals) PROVE Finishing(plan, vals)'
    BY <2>2 DEF Finishing, Sending
  <2> QED  BY <2>1, <2>2 DEF AfterTheRekey
<1>5. Again(plan) => Again(plan)'
  BY DEF Again, Starting, Opening, Sending
<1>6. (Migrated(plan) => Migrated(plan)') /\ (Reopened(plan) => Reopened(plan)')
  BY DEF Migrated, Reopened
<1> QED  BY <1>1, <1>2, <1>3, <1>4, <1>5, <1>6 DEF IInv, Place

\* Every step keeps the inductive invariant.
LEMMA StepKeeps == IInv /\ [Next]_vars => IInv'
<1> SUFFICES ASSUME IInv, [Next]_vars PROVE IInv'
  OBVIOUS
<1>1. CASE ExecCipher
  BY <1>1, CipherKeeps
<1>2. CASE ExecParam
  BY <1>2, ParamKeeps
<1>3. CASE ExecKey
  BY <1>3, KeyKeeps
<1>4. CASE ExecSelect
  BY <1>4, SelectKeeps
<1>5. CASE ExecJournalDelete
  BY <1>5, JournalDeleteKeeps
<1>6. CASE ExecRekey
  BY <1>6, RekeyKeeps
<1>7. CASE FinishMigration
  BY <1>7, FinishMigrationKeeps
<1>8. CASE Reopen
  BY <1>8, ReopenKeeps
<1>9. CASE FinishReopen
  BY <1>9, FinishReopenKeeps
<1>10. CASE UseWal
  BY <1>10, UseWalKeeps
<1>11. CASE Lease
  BY <1>11, ElsewhereKeeps DEF Lease
<1>12. CASE UNCHANGED vars
  BY <1>12, ElsewhereKeeps DEF vars
<1> QED  BY <1>1, <1>2, <1>3, <1>4, <1>5, <1>6, <1>7, <1>8, <1>9, <1>10, <1>11, <1>12
         DEF Next, Exec

\* The inductive invariant holds in every reachable state: at each statement
\* of a migration or a reopening (KeyConnection, JDBCMC4Connection,
\* onCreateConnection) the table holds what the statements before it make of
\* it.
THEOREM InvariantHolds == Spec => []IInv
BY InitIInv, StepKeeps, PTL DEF Spec

-----------------------------------------------------------------------------
(* The properties                                                           *)

\* Type correctness of the file, the connection and the statements.
THEOREM KeyTypeCorrect == Spec => []TypeOK
<1>1. IInv => TypeOK
  BY DEF IInv, Typed
<1> QED  BY <1>1, InvariantHolds, PTL

\* PRAGMA rekey, which refuses a database in WAL mode, is never executed in it:
\* journal_mode = DELETE always succeeded before, whatever configurations and
\* keys a migration is between.
THEOREM RekeyLeavesWalFirst == Spec => []NoRekeyInWal
<1>1. IInv => NoRekeyInWal
  <2> SUFFICES ASSUME IInv, Executing("rekey") PROVE ~file.wal
    BY DEF NoRekeyInWal
  <2> QED  BY AtRekeyStatement DEF AtRekey, AtRekeyPage
<1> QED  BY <1>1, InvariantHolds, PTL

\* The switches hmac_check and mc_legacy_wal of a keyed connection are those of
\* the current configuration, after a migration and on every later connection.
THEOREM SwitchesAreCurrent == Spec => []SwitchesInEffect
<1>1. IInv => SwitchesInEffect
  <2> SUFFICES ASSUME IInv, stage \in {"migrated", "reopened"}, conn.codec # NoCodec
               PROVE  HasSwitches(conn.codec, plan.new)
                      /\ plan.new.hmacCheck \in BOOLEAN /\ plan.new.mcLegacyWAL \in BOOLEAN
    BY DEF SwitchesInEffect, HasSwitches
  <2>1. /\ IsPlan(plan) /\ IsEncryption(plan.new) /\ plan.newKey \in AllKeys
        /\ plan.new.hmacCheck \in BOOLEAN /\ plan.new.mcLegacyWAL \in BOOLEAN
    BY PlanEncryptions DEF IInv, Typed, IsPlan, IsEncryption
  <2>2. CASE stage = "migrated"
    <3>1. Migrated(plan)
      BY <2>2, AtRest
    <3> QED  BY <2>1, <3>1 DEF Migrated
  <2>3. CASE stage = "reopened"
    <3>1. conn.codec = FreshCodec(plan.new, plan.newKey)
      BY <2>3, AtRest DEF Reopened
    <3>2. plan.newKey # EmptyKey
      BY <2>1, <3>1, FreshCodecIs
    <3>3. Switched(ConfigureAll(CloneTable, "main", ApplyPragmas(plan.new)), plan.new, 12)
      BY <2>1, AloneConfigured
    <3>4. HasSwitches(FreshCodec(plan.new, plan.newKey), plan.new)
      BY <2>1, <3>2, <3>3, KeySwitches DEF FreshCodec
    <3> QED  BY <2>1, <3>1, <3>4
  <2> QED  BY <2>1, <2>2, <2>3
<1> QED  BY <1>1, InvariantHolds, PTL

\* Between any two statements the file can be read with the old or with the
\* current configuration and key.
THEOREM SomeKeyAlwaysOpens ==
    ASSUME Sound
    PROVE  Spec => []AlwaysOpenable
<1>1. IInv => AlwaysOpenable
  BY DEF IInv, Place, AlwaysOpenable
<1> QED  BY <1>1, InvariantHolds, PTL

\* Once all statements were executed, the current configuration and key open
\* the file, on this connection and on every later one.
THEOREM MigrationsTakeEffect ==
    ASSUME Sound
    PROVE  Spec => []MigrationTakesEffect
<1>1. IInv => MigrationTakesEffect
  <2> SUFFICES ASSUME IInv, stage \in {"migrated", "reopen", "reopened"} PROVE NewOpens
    BY DEF MigrationTakesEffect
  <2> QED  BY DEF IInv, Place
<1> QED  BY <1>1, InvariantHolds, PTL

\* The next cipher that the migrated connection allocates is the file's.
THEOREM TheTableDescribesTheFile ==
    ASSUME Sound
    PROVE  Spec => []TableDescribesFile
<1>1. IInv => TableDescribesFile
  <2> SUFFICES ASSUME IInv, stage = "migrated", plan.newKey # EmptyKey
               PROVE  Scheme(Allocate(conn.table)) = file.scheme
    BY DEF TableDescribesFile
  <2>1. IsPlan(plan) /\ plan.newKey \in AllKeys
    BY DEF IInv, Typed, IsPlan
  <2>2. Migrated(plan) /\ NewOpens
    BY AtRest
  <2>3. Allocate(conn.table) = FreshAlloc(plan.new)
    BY <2>1, <2>2, SoundFacts DEF Migrated
  <2>4. /\ FreshCodec(plan.new, plan.newKey).alloc = FreshAlloc(plan.new)
        /\ FreshCodec(plan.new, plan.newKey) # NoCodec
    BY <2>1, FreshCodecIs
  <2>5. SchemeOf(FreshCodec(plan.new, plan.newKey)) = file.scheme
    BY <2>2 DEF NewOpens, CanRead
  <2> QED  BY <2>3, <2>4, <2>5 DEF SchemeOf
<1> QED  BY <1>1, InvariantHolds, PTL

\* A later connection never fails on its key statements or its first read.
THEOREM LaterConnectionsOpen ==
    ASSUME Sound
    PROVE  Spec => ReopenNeverFails
<1>1. IInv /\ [Next]_vars => (stage = "reopen" => stage' # "failed")
  <2> SUFFICES ASSUME IInv, Next, stage = "reopen", stage' = "failed" PROVE FALSE
    BY DEF vars
  <2>1. CASE ExecSelect
    <3>1. AgainRead /\ NewOpens
      BY <2>1, AtSelect DEF ExecSelect
    <3>2. CanRead(conn.codec, file)
      BY <3>1 DEF AgainRead, Reopened, NewOpens
    <3> QED  BY <2>1, <3>2 DEF ExecSelect, Done
  <2>2. CASE ExecJournalDelete
    BY <2>2, AtJournalDelete DEF ExecJournalDelete
  <2>3. CASE ExecRekey
    BY <2>3, AtRekeyStatement DEF ExecRekey
  <2>4. CASE ExecCipher \/ ExecParam \/ ExecKey
    BY <2>4 DEF ExecCipher, ExecParam, ExecKey, Done
  <2>5. CASE FinishMigration \/ Reopen \/ FinishReopen \/ UseWal \/ Lease
    BY <2>5 DEF FinishMigration, Reopen, FinishReopen, UseWal, Lease
  <2> QED  BY <2>1, <2>2, <2>3, <2>4, <2>5 DEF Next, Exec
<1> QED  BY <1>1, InvariantHolds, PTL DEF Spec, ReopenNeverFails

\* The hypothesis about configurations holds of every change of the cipher: what
\* the old configuration left is in the parameters of another cipher.
THEOREM AnotherCipherSupersedes ==
    ASSUME NEW pair \in Pairs, pair[1].cipher # pair[2].cipher
    PROVE  Supersedes(pair[2], pair[1])
<1> SUFFICES ASSUME NEW s1 \in Switching, NEW s2 \in Switching
             PROVE  Allocate(ConfigureAll(
                        ConfigureAll(CloneTable, "main", ApplyPragmas(Encryption(pair[1], s1))),
                        "temp", ApplyPragmas(Encryption(pair[2], s2))))
                      = FreshAlloc(Encryption(pair[2], s2))
  BY DEF Supersedes, FreshAlloc
<1> DEFINE p == [old |-> Encryption(pair[1], s1), new |-> Encryption(pair[2], s2),
                 oldKey |-> EmptyKey, newKey |-> EmptyKey]
<1>1. IsPlan(p)
  BY DEF IsPlan, AllKeys
<1>2. Cipher(p.old) # Cipher(p.new)
  BY DEF Cipher, Encryption
<1>3. LeftBy(p, Cipher(p.new)) = Base(p.new)
  BY <1>2 DEF LeftBy, Base
<1>4. Configuring(BothConfigured(p), "temp", p.new, 12, Base(p.new), Base(p.new))
  BY <1>1, <1>3, BothEffect
<1>5. IsEncryption(p.new)
  BY <1>1, PlanEncryptions
<1>6. Configuring(ConfigureAll(CloneTable, "main", ApplyPragmas(p.new)), "main", p.new, 12,
                  Base(p.new), Base(p.new))
  BY <1>5, AloneConfigured DEF Base
<1>7. Allocate(BothConfigured(p)) = FreshAlloc(p.new)
  BY <1>4, <1>5, <1>6, SameConfigured DEF FreshAlloc
<1> QED  BY <1>7 DEF BothConfigured

\* The parameters that the statements of a configuration set.
Touched(config) ==
    {q \in Params(config.cipher) :
        \/ /\ q \in Told(12) \cap Kept(config)
           /\ AcceptsValue(config.cipher, q, config.params[q])
        \/ Versioned(config) /\ q \in VersionNames}

\* It also holds within one cipher when the current configuration sets every
\* parameter that the old one set, as when only the key changes.
THEOREM SettingAllSupersedes ==
    ASSUME NEW pair \in Pairs, pair[1].cipher = pair[2].cipher,
           Touched(pair[1]) \subseteq Touched(pair[2])
    PROVE  Supersedes(pair[2], pair[1])
<1> SUFFICES ASSUME NEW s1 \in Switching, NEW s2 \in Switching
             PROVE  Allocate(ConfigureAll(
                        ConfigureAll(CloneTable, "main", ApplyPragmas(Encryption(pair[1], s1))),
                        "temp", ApplyPragmas(Encryption(pair[2], s2))))
                      = FreshAlloc(Encryption(pair[2], s2))
  BY DEF Supersedes, FreshAlloc
<1> DEFINE p == [old |-> Encryption(pair[1], s1), new |-> Encryption(pair[2], s2),
                 oldKey |-> EmptyKey, newKey |-> EmptyKey]
           c == pair[2].cipher
           left == Settled(pair[1], 12, BuiltIn(c))
           both == BothConfigured(p)
           alone == ConfigureAll(CloneTable, "main", ApplyPragmas(p.new))
<1>1. IsPlan(p)
  BY DEF IsPlan, AllKeys
<1>2. /\ p.old.cipherConfig = pair[1] /\ p.new.cipherConfig = pair[2]
      /\ Cipher(p.old) = c /\ Cipher(p.new) = c
  BY DEF Cipher, Encryption
<1>3. LeftBy(p, Cipher(p.new)) = left
  BY <1>2 DEF LeftBy
<1>4. Configuring(both, "temp", p.new, 12, left, left)
  BY <1>1, <1>3, BothEffect
<1>5. IsEncryption(p.new)
  BY <1>1, PlanEncryptions
<1>6. Configuring(alone, "main", p.new, 12, BuiltIn(c), BuiltIn(c))
  BY <1>2, <1>5, AloneConfigured
<1> HIDE DEF p, both, alone
<1>7. \A q \in Params(c) : Settled(pair[2], 12, left)[q] = Settled(pair[2], 12, BuiltIn(c))[q]
  <2> SUFFICES ASSUME NEW q \in Params(c)
               PROVE  Settled(pair[2], 12, left)[q] = Settled(pair[2], 12, BuiltIn(c))[q]
    OBVIOUS
  <2>1. CASE q \in Touched(pair[2])
    BY <2>1 DEF Touched, Settled
  <2>2. CASE q \notin Touched(pair[2])
    <3>1. q \notin Touched(pair[1])
      BY <2>2
    <3>2. left[q] = BuiltIn(c)[q]
      BY <3>1 DEF Touched, Settled
    <3> HIDE DEF left
    <3> QED  BY <2>2, <3>2 DEF Touched, Settled
  <2> QED  BY <2>1, <2>2
<1>8. \A q \in Params(c) : Val(both, c, q) = Val(alone, c, q)
  BY <1>2, <1>4, <1>6, <1>7 DEF Configuring
<1>9. both.cipher.value = c /\ alone.cipher.value = c
  BY <1>2, <1>4, <1>6 DEF Configuring
<1>10. Allocate(both) = Allocate(alone)
  BY <1>2, <1>5, <1>8, <1>9, SameAllocation
<1> QED  BY <1>10 DEF BothConfigured, FreshAlloc, both, alone, p
=============================================================================
