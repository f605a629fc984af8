------------------------------- MODULE RekeyProofs -------------------------------
(* What Rekey guarantees for any number of pages, crashes, faults and rekeys.  *)
EXTENDS Rekey, TLAPS

\* The environments of the run, and no more than the proof needs: the old key does not
\* depend on what page 1 holds, and no page is spilled where reading one may fail.
Recoverable ==
    \A e \in Environments : Old \notin e.salted /\ ~(e.spills /\ "read" \in e.faults)

(***************************************************************************)
(* The inductive invariant.  Journaled is what TypeOK needs of the order   *)
(* in which the journal grows.  The rest is about the states before a      *)
(* journal was dropped: the file opens with the old key, or its journal is *)
(* gone and every page has the new one (Opens), because at every place in  *)
(* the code the two keys, the journal, the cache and the pages before the  *)
(* next one fit together.                                                  *)
(***************************************************************************)
OldKey == [cred |-> Old, salt |-> 0]

\* A key as the new credential has it with its own salt.
IsNewKey(k) == k.cred = New /\ Key(New, k.salt) = k

Journaled ==
    /\ ~journal.exists => journal.logged = 0
    /\ pc \in {"check", "open"} => journal.logged = 0
    /\ pc = "loop" => journal.logged < n

OldOpens ==
    /\ journal.logged > 0 => journal.key = OldKey
    /\ \A i \in Pages : i <= journal.synced \/ disk[i] = OldKey

NewOpens ==
    /\ journal.synced = 0
    /\ IsNewKey(disk[1])
    /\ \A i \in Pages : disk[i] = disk[1]

Playing ==
    pc = "playback" =>
        /\ readKey = writeKey
        /\ n > 1 => readKey = journal.key
        /\ \A i \in Pages : i < n => disk[i] = readKey

Idle ==
    /\ pc = "open" => disk[1] = readKey
    /\ pc \in {"playback", "check"} \/ (pc = "open" /\ readKey.cred = Old) =>
          dirty = {} /\ ~dbmod

Writing ==
    pc \in {"loop", "commit", "rollback"} =>
        OldOpens /\ readKey = OldKey /\ IsNewKey(writeKey)

Looping ==
    pc = "loop" =>
        /\ journal.logged = n - 1
        /\ \A i \in Pages : n <= i => i \notin dirty
        /\ \A i \in Pages : i < n => i \in dirty \/ disk[i] = writeKey
        /\ dbmod => env.spills
        /\ ~dbmod => \A i \in Pages : disk[i] = OldKey

Committing ==
    pc = "commit" =>
        /\ journal.synced = NPages /\ dbmod
        /\ \A i \in Pages : i \in dirty \/ disk[i] = writeKey

Rolling ==
    pc = "rollback" =>
        /\ journal.synced = NPages
        /\ \A i \in Pages : i < n => disk[i] = writeKey

Held ==
    /\ ~damaged
    /\ OldOpens \/ NewOpens
    /\ Playing /\ Idle /\ Writing /\ Looping /\ Committing /\ Rolling

IInv == TypeOK /\ Journaled /\ (dropped \/ Held)

\* The actions of a connection, of a rekey and of what ends one in an error.
Connecting ==
    \/ \E cred \in Credentials : Open(cred)
    \/ PlaybackPage \/ PlaybackFails \/ PlaybackEnds \/ PlaybackFault \/ Check \/ Close

Rekeying ==
    \/ BeginRekey \/ JournalPage \/ CommitSync \/ CommitEnd
    \/ \E i \in Pages : Spill(i) \/ CommitPage(i)

Failing ==
    \/ ReadFails \/ CommitFails \/ RollbackPage \/ RollbackEnd \/ RollbackFails
    \/ SpillFails \/ DeleteFails
    \/ Crash

LEMMA NextCases == [Next]_vars => Connecting \/ Rekeying \/ Failing \/ UNCHANGED vars
  BY DEF Next, Connecting, Rekeying, Failing

\* The type of an environment and of the numbers a step counts with.
LEMMA Constants ==
    /\ NPages \in Nat /\ NPages >= 1 /\ 1 \in Pages
    /\ MaxCrashes \in Nat /\ MaxFaults \in Nat /\ MaxRekeys \in Nat
    /\ \A i \in Pages : i \in Nat /\ 1 <= i /\ i <= NPages
  BY RekeyAssumptions DEF Pages

LEMMA KeyType ==
    ASSUME NEW cred \in Credentials, NEW s \in 0..(MaxRekeys + 1)
    PROVE  Key(cred, s) \in Keys /\ Key(cred, s).cred = cred
  BY Constants DEF Key, Keys

LEMMA NoJournalType ==
    NoJournal \in [logged : 0..NPages, synced : 0..NPages, key : Keys, exists : BOOLEAN]
  BY Constants DEF NoJournal, Keys, Credentials

\* What a fault leaves of the counters.
LEMMA FaultType ==
    ASSUME NEW place, TypeOK, Fault(place)
    PROVE  faults' \in 0..MaxFaults
  BY Constants DEF TypeOK, Fault

-----------------------------------------------------------------------------
(* Types, and the order in which the journal grows                         *)

LEMMA TypeConnecting == TypeOK /\ Journaled /\ Connecting => TypeOK' /\ Journaled'
  <1> SUFFICES ASSUME TypeOK, Journaled, Connecting
               PROVE  TypeOK' /\ Journaled'
    OBVIOUS
  <1> USE Constants
  <1>1. ASSUME NEW cred \in Credentials, Open(cred)
        PROVE  TypeOK' /\ Journaled'
    <2>1. disk[1].salt \in 0..(MaxRekeys + 1)
      BY DEF TypeOK, Keys
    <2>2. readKey' \in Keys /\ writeKey' \in Keys
      BY <1>1, <2>1, KeyType DEF Open
    <2>3. pc' \in {"playback", "check"} /\ (pc' = "check" => ~journal.exists)
      BY <1>1 DEF Open
    <2>4. n' \in 1..(NPages + 1)
      BY <1>1 DEF Open
    <2>5. TypeOK'
      BY <1>1, <2>2, <2>3, <2>4 DEF Open, TypeOK, past, counters
    <2>6. Journaled'
      BY <1>1, <2>3 DEF Open, Journaled
    <2> QED
      BY <2>5, <2>6
  <1>2. CASE PlaybackPage
    <2>1. n \in Pages /\ disk' \in [Pages -> Keys] /\ n' \in 1..(NPages + 1)
      BY <1>2 DEF PlaybackPage, TypeOK, Pages
    <2> QED
      BY <1>2, <2>1 DEF PlaybackPage, TypeOK, Journaled, past, counters
  <1>3. CASE PlaybackFails
    BY <1>3 DEF PlaybackFails, TypeOK, Journaled, conn, past, counters
  <1>4. CASE PlaybackEnds
    <2>1. journal' = NoJournal /\ NoJournal.logged = 0 /\ NoJournal.synced = 0
      BY <1>4 DEF PlaybackEnds, NoJournal
    <2> QED
      BY <1>4, <2>1, NoJournalType DEF PlaybackEnds, TypeOK, Journaled, conn, counters
  <1>5. CASE PlaybackFault
    BY <1>5, FaultType DEF PlaybackFault, TypeOK, Journaled, conn, past
  <1>6. CASE Check
    BY <1>6 DEF Check, TypeOK, Journaled, conn, past, counters
  <1>7. CASE Close
    BY <1>7 DEF Close, TypeOK, Journaled, conn, past, counters
  <1> QED
    BY <1>1, <1>2, <1>3, <1>4, <1>5, <1>6, <1>7 DEF Connecting

LEMMA TypeRekeying == TypeOK /\ Journaled /\ Rekeying => TypeOK' /\ Journaled'
  <1> SUFFICES ASSUME TypeOK, Journaled, Rekeying
               PROVE  TypeOK' /\ Journaled'
    OBVIOUS
  <1> USE Constants
  <1>1. CASE BeginRekey
    <2>1. writeKey' \in Keys
      BY <1>1, KeyType DEF BeginRekey, TypeOK, Credentials
    <2> QED
      BY <1>1, <2>1 DEF BeginRekey, TypeOK, Journaled, past
  <1>2. CASE JournalPage
    <2>1. /\ journal' = [logged |-> n, synced |-> journal.synced, key |-> readKey,
                         exists |-> TRUE]
          /\ n \in Pages /\ journal.synced <= n /\ n' = n + 1
      BY <1>2 DEF JournalPage, Log, TypeOK, Journaled, Pages
    <2>2. /\ journal' \in [logged : 0..NPages, synced : 0..NPages, key : Keys,
                           exists : BOOLEAN]
          /\ journal'.synced <= journal'.logged
          /\ journal'.logged < n' /\ journal'.exists
      BY <2>1 DEF TypeOK
    <2> QED
      BY <1>2, <2>1, <2>2 DEF JournalPage, TypeOK, Journaled, counters
  <1>3. ASSUME SyncJournal
        PROVE  /\ journal' \in [logged : 0..NPages, synced : 0..NPages, key : Keys,
                                exists : BOOLEAN]
               /\ journal'.synced = journal.logged
               /\ journal'.logged = journal.logged /\ journal'.exists = journal.exists
    BY <1>3 DEF SyncJournal, TypeOK
  <1>4. CASE CommitSync
    BY <1>3, <1>4 DEF CommitSync, TypeOK, Journaled, past, counters
  <1>5. CASE CommitEnd
    <2>1. journal' = NoJournal /\ NoJournal.logged = 0 /\ NoJournal.synced = 0
      BY <1>5 DEF CommitEnd, NoJournal
    <2> QED
      BY <1>5, <2>1, NoJournalType DEF CommitEnd, TypeOK, Journaled, past, counters
  <1>6. ASSUME NEW i \in Pages, Spill(i)
        PROVE  TypeOK' /\ Journaled'
    BY <1>3, <1>6 DEF Spill, TypeOK, Journaled, past, counters
  <1>7. ASSUME NEW i \in Pages, CommitPage(i)
        PROVE  TypeOK' /\ Journaled'
    BY <1>7 DEF CommitPage, TypeOK, Journaled, past, counters
  <1> QED
    BY <1>1, <1>2, <1>4, <1>5, <1>6, <1>7 DEF Rekeying

LEMMA TypeFailing == TypeOK /\ Journaled /\ Failing => TypeOK' /\ Journaled'
  <1> SUFFICES ASSUME TypeOK, Journaled, Failing
               PROVE  TypeOK' /\ Journaled'
    OBVIOUS
  <1> USE Constants, FaultType
  <1>1. ASSUME Rollback
        PROVE  /\ n' = 1
               /\ \/ pc' = "rollback" /\ UNCHANGED << journal, result >>
                  \/ pc' = "closed" /\ journal' = NoJournal /\ result' = "error"
    BY <1>1 DEF Rollback
  <1>2. NoJournal.logged = 0 /\ NoJournal.synced = 0
    BY DEF NoJournal
  <1>3. CASE ReadFails
    <2>1. faults' \in 0..MaxFaults
      BY <1>3 DEF ReadFails, TypeOK
    <2> QED
      BY <1>1, <1>2, <1>3, <2>1, NoJournalType DEF ReadFails, TypeOK, Journaled, past
  <1>4. CASE CommitFails
    BY <1>1, <1>2, <1>4, NoJournalType DEF CommitFails, TypeOK, Journaled, past
  <1>5. CASE RollbackPage
    <2>1. n \in Pages /\ disk' \in [Pages -> Keys] /\ n' \in 1..(NPages + 1)
      BY <1>5 DEF RollbackPage, TypeOK, Pages
    <2> QED
      BY <1>5, <2>1 DEF RollbackPage, TypeOK, Journaled, past, counters
  <1>6. CASE RollbackEnd
    BY <1>2, <1>6, NoJournalType DEF RollbackEnd, TypeOK, Journaled, conn, past, counters
  <1>7. CASE RollbackFails
    BY <1>7 DEF RollbackFails, TypeOK, Journaled, conn, past
  <1>8. CASE SpillFails
    BY <1>8 DEF SpillFails, SyncJournal, TypeOK, Journaled, conn, past
  <1>9. CASE DeleteFails
    BY <1>9 DEF DeleteFails, TypeOK, Journaled, conn, past
  <1>10. CASE Crash
    BY <1>10 DEF Crash, TypeOK, Journaled, conn, past
  <1> QED
    BY <1>3, <1>4, <1>5, <1>6, <1>7, <1>8, <1>9, <1>10 DEF Failing

LEMMA TypeStep == TypeOK /\ Journaled /\ [Next]_vars => TypeOK' /\ Journaled'
  <1> SUFFICES ASSUME TypeOK, Journaled, UNCHANGED vars
               PROVE  TypeOK' /\ Journaled'
    BY NextCases, TypeConnecting, TypeRekeying, TypeFailing
  <1> QED
    BY DEF TypeOK, Journaled, vars, conn, past, counters

-----------------------------------------------------------------------------
(* The keys of the file                                                    *)

\* The old credential has one key, whatever page 1 holds.
LEMMA OldKeyFixed ==
    ASSUME Recoverable, TypeOK, NEW s
    PROVE  Key(Old, s) = OldKey
  BY DEF Recoverable, TypeOK, Key, OldKey

\* The new credential has the key that was made with the salt it finds.
LEMMA NewKeyIsItsOwn ==
    ASSUME NEW s
    PROVE  IsNewKey(Key(New, s))
  BY DEF IsNewKey, Key

LEMMA Distinct == Old # New /\ \A k : IsNewKey(k) => k.cred = New /\ k # OldKey
  BY DEF Old, New, IsNewKey, OldKey

\* A key stays one of the new credential, because the environment stays.
LEMMA NewKeyStable ==
    ASSUME env' = env, NEW k
    PROVE  IsNewKey(k)' <=> IsNewKey(k)
  BY DEF IsNewKey, Key

\* Held is all that NeverStranded needs.
LEMMA HeldSuffices ==
    ASSUME Recoverable, IInv
    PROVE  NeverStranded
  <1> SUFFICES ASSUME Held
               PROVE  Recovers(Old) \/ Recovers(New)
    BY DEF IInv, NeverStranded
  <1> USE Constants DEF IInv
  <1>1. CASE OldOpens
    <2>1. journal.synced > 0 => journal.logged > 0
      BY DEF TypeOK
    <2> QED
      BY <1>1, <2>1, OldKeyFixed DEF OldOpens, Held, Recovers
  <1>2. CASE NewOpens
    <2>1. Key(New, disk[1].salt) = disk[1]
      BY <1>2 DEF NewOpens, IsNewKey
    <2> QED
      BY <1>2, <2>1 DEF NewOpens, Held, Recovers
  <1> QED
    BY <1>1, <1>2 DEF Held

\* A step that does not touch the file or the journal, nor drops it, leaves what
\* the file opens with.
LEMMA SameFile ==
    ASSUME env' = env, UNCHANGED << disk, journal >>
    PROVE  (OldOpens' <=> OldOpens) /\ (NewOpens' <=> NewOpens)
  BY NewKeyStable DEF OldOpens, NewOpens, IsNewKey, Key

-----------------------------------------------------------------------------
(* Every step keeps the keys, the journal and the pages together           *)

\* The connection has failed, was closed or died.
LEMMA HeldClosed ==
    ASSUME pc' = "closed", damaged' = damaged, Held, OldOpens' \/ NewOpens'
    PROVE  Held'
  BY DEF Held, Playing, Idle, Writing, Looping, Committing, Rolling

LEMMA HeldConnecting ==
    ASSUME Recoverable, TypeOK, Journaled, Held, Connecting, ~dropped'
    PROVE  Held'
  <1> USE Constants
  <1>1. ASSUME NEW cred \in Credentials, Open(cred)
        PROVE  Held'
    <2>1. pc' \in {"playback", "check"} /\ n' = 1 /\ dirty' = {} /\ ~dbmod'
      BY <1>1 DEF Open
    <2>2. env' = env /\ damaged' = damaged /\ writeKey' = readKey'
          /\ UNCHANGED << disk, journal >>
      BY <1>1 DEF Open, past
    <2>3. OldOpens' \/ NewOpens'
      BY <2>2, SameFile DEF Held
    <2>4. Playing'
      BY <2>1, <2>2 DEF Playing
    <2> QED
      BY <2>1, <2>2, <2>3, <2>4 DEF Held, Idle, Writing, Looping, Committing, Rolling
  <1>2. CASE PlaybackPage
    <2>1. /\ pc = "playback" /\ pc' = "playback" /\ n <= journal.synced
          /\ journal.key = readKey /\ readKey = writeKey
          /\ n \in Pages /\ n' = n + 1
          /\ disk' = [disk EXCEPT ![n] = readKey]
          /\ env' = env /\ damaged' = damaged
          /\ UNCHANGED << journal, readKey, writeKey, dirty, dbmod >>
      BY <1>2 DEF PlaybackPage, past, Held, Playing, TypeOK, Pages
    <2>2. OldOpens'
      <3>1. OldOpens
        BY <2>1 DEF Held, NewOpens, TypeOK
      <3> QED
        BY <2>1, <3>1 DEF OldOpens, TypeOK
    <2>3. Playing'
      BY <2>1 DEF Held, Playing, TypeOK
    <2> QED
      BY <2>1, <2>2, <2>3 DEF Held, Idle, Writing, Looping, Committing, Rolling
  <1>3. CASE PlaybackFails
    BY <1>3, SameFile, HeldClosed DEF PlaybackFails, past, Held
  <1>4. CASE PlaybackEnds
    <2>1. /\ pc = "playback" /\ pc' = "check" /\ n > journal.synced
          /\ journal' = NoJournal
          /\ env' = env /\ damaged' = damaged
          /\ UNCHANGED << disk, readKey, writeKey, n, dirty, dbmod >>
      <3>1. dropped' <=> (dropped \/ n <= journal.synced)
        BY <1>4 DEF PlaybackEnds
      <3>2. ~(n <= journal.synced)
        BY <3>1
      <3>3. n > journal.synced
        BY <3>2 DEF TypeOK
      <3> QED
        BY <1>4, <3>3 DEF PlaybackEnds, conn
    <2>2. OldOpens' \/ NewOpens'
      <3>1. CASE OldOpens
        <4>1. \A i \in Pages : disk[i] = OldKey
          BY <2>1, <3>1 DEF OldOpens, Held, Playing, TypeOK
        <4> QED
          BY <2>1, <4>1 DEF OldOpens, NoJournal
      <3>2. CASE NewOpens
        BY <2>1, <3>2, NewKeyStable DEF NewOpens, NoJournal, IsNewKey, Key
      <3> QED
        BY <3>1, <3>2 DEF Held
    <2> QED
      BY <2>1, <2>2 DEF Held, Playing, Idle, Writing, Looping, Committing, Rolling
  <1>5. CASE PlaybackFault
    BY <1>5, SameFile, HeldClosed DEF PlaybackFault, past, Held
  <1>6. CASE Check
    <2>1. /\ pc = "check" /\ pc' \in {"open", "closed"}
          /\ pc' = "open" => disk[1] = readKey
          /\ env' = env /\ damaged' = damaged
          /\ UNCHANGED << disk, journal, readKey, writeKey, n, dirty, dbmod >>
      BY <1>6 DEF Check, past, conn
    <2> QED
      BY <2>1, SameFile DEF Held, Playing, Idle, Writing, Looping, Committing, Rolling
  <1>7. CASE Close
    BY <1>7, SameFile, HeldClosed DEF Close, past, Held
  <1> QED
    BY <1>1, <1>2, <1>3, <1>4, <1>5, <1>6, <1>7 DEF Connecting

LEMMA HeldRekeying ==
    ASSUME Recoverable, TypeOK, Journaled, Held, Rekeying
    PROVE  Held'
  <1> USE Constants
  <1>1. CASE BeginRekey
    <2>1. /\ pc = "open" /\ pc' = "loop" /\ n' = 1
          /\ readKey.cred = Old /\ disk[1] = readKey /\ dirty = {} /\ ~dbmod
          /\ env' = env /\ damaged' = damaged
          /\ UNCHANGED << disk, journal, readKey, dirty, dbmod >>
      BY <1>1 DEF BeginRekey, past, Held, Idle
    <2>2. IsNewKey(writeKey)'
      <3>1. writeKey' = Key(New, rekeys + 2)
        BY <1>1 DEF BeginRekey
      <3>2. IsNewKey(writeKey')
        BY <3>1, NewKeyIsItsOwn
      <3> QED
        BY <2>1, <3>2 DEF IsNewKey, Key
    <2>3. OldOpens /\ journal.logged = 0 /\ journal.synced = 0
      <3>1. journal.logged = 0 /\ journal.synced = 0
        BY <2>1 DEF Journaled, TypeOK
      <3>2. ~NewOpens
        BY <2>1, Distinct DEF NewOpens, IsNewKey
      <3> QED
        BY <3>1, <3>2 DEF Held
    <2>4. \A i \in Pages : disk[i] = OldKey
      BY <2>3 DEF OldOpens
    <2>5. OldOpens' /\ readKey' = OldKey
      BY <2>1, <2>3, <2>4 DEF OldOpens
    <2>6. Looping'
      BY <2>1, <2>3, <2>4 DEF Looping
    <2>7. Writing'
      BY <2>1, <2>2, <2>5 DEF Writing
    <2> QED
      BY <2>1, <2>5, <2>6, <2>7 DEF Held, Playing, Idle, Committing, Rolling
  <1>2. CASE JournalPage
    <2>1. /\ pc = "loop" /\ pc' = "loop" /\ n' = n + 1 /\ n \in Pages
          /\ dirty' = dirty \cup {n}
          /\ env' = env
          /\ UNCHANGED << disk, readKey, writeKey, dbmod >>
      BY <1>2 DEF JournalPage, TypeOK, Pages
    <2>2. /\ journal.logged = n - 1 /\ OldOpens
          /\ readKey = OldKey /\ IsNewKey(writeKey)
      BY <2>1 DEF Held, Looping, Writing
    <2>3. disk[n] = readKey
      BY <2>1, <2>2 DEF OldOpens, TypeOK
    <2>4. ~damaged'
      <3>1. damaged' <=> (damaged \/ disk[n] # readKey)
        BY <1>2 DEF JournalPage
      <3> QED
        BY <2>3, <3>1 DEF Held
    <2>5. /\ journal'.logged = n /\ journal'.synced = journal.synced
          /\ journal'.key = OldKey
      BY <1>2, <2>2 DEF JournalPage, Log
    <2>6. OldOpens'
      BY <2>1, <2>2, <2>5 DEF OldOpens
    <2>7. Looping'
      BY <2>1, <2>5 DEF Held, Looping, TypeOK
    <2>8. Writing'
      BY <2>1, <2>2, <2>6, NewKeyStable DEF Writing, IsNewKey, Key
    <2> QED
      BY <2>1, <2>4, <2>6, <2>7, <2>8 DEF Held, Playing, Idle, Committing, Rolling
  <1>3. ASSUME SyncJournal
        PROVE  /\ journal'.synced = journal.logged /\ journal'.logged = journal.logged
               /\ journal'.key = journal.key
    BY <1>3 DEF SyncJournal, TypeOK
  <1>4. CASE CommitSync
    <2>1. /\ pc = "loop" /\ pc' = "commit" /\ n = NPages + 1 /\ dbmod'
          /\ env' = env /\ damaged' = damaged /\ SyncJournal
          /\ UNCHANGED << disk, readKey, writeKey, n, dirty >>
      BY <1>4 DEF CommitSync, past, TypeOK
    <2>2. OldOpens' /\ journal'.synced = NPages
      BY <1>3, <2>1 DEF Held, Writing, OldOpens, Looping, TypeOK
    <2>3. Writing'
      BY <2>1, <2>2 DEF Held, Writing, IsNewKey, Key
    <2>4. Committing'
      BY <2>1, <2>2 DEF Held, Looping, Committing
    <2> QED
      BY <2>1, <2>2, <2>3, <2>4 DEF Held, Playing, Idle, Looping, Rolling
  <1>5. CASE CommitEnd
    <2>1. /\ pc = "commit" /\ pc' = "open" /\ dirty = {}
          /\ env' = env /\ damaged' = damaged
          /\ journal' = NoJournal /\ readKey' = writeKey
          /\ UNCHANGED << disk, writeKey, dirty >>
      BY <1>5 DEF CommitEnd, past
    <2>2. IsNewKey(writeKey) /\ \A i \in Pages : disk[i] = writeKey
      BY <2>1 DEF Held, Writing, Committing
    <2>3. NewOpens'
      BY <2>1, <2>2, NewKeyStable DEF NewOpens, NoJournal, IsNewKey, Key
    <2>4. Idle'
      BY <2>1, <2>2, Distinct DEF Idle, IsNewKey
    <2> QED
      BY <2>1, <2>3, <2>4 DEF Held, Playing, Writing, Looping, Committing, Rolling
  <1>6. ASSUME NEW i \in Pages, Spill(i)
        PROVE  Held'
    <2>1. /\ pc = "loop" /\ pc' = "loop" /\ env.spills /\ i \in dirty /\ dbmod'
          /\ env' = env /\ damaged' = damaged /\ SyncJournal
          /\ disk' = [disk EXCEPT ![i] = writeKey] /\ dirty' = dirty \ {i}
          /\ UNCHANGED << readKey, writeKey, n >>
      BY <1>6 DEF Spill, past
    <2>2. i < n /\ journal.logged = n - 1 /\ OldOpens
      BY <2>1 DEF Held, Looping, Writing, TypeOK
    <2>3. OldOpens'
      BY <1>3, <2>1, <2>2 DEF OldOpens, TypeOK
    <2>4. Looping'
      BY <1>3, <2>1, <2>2 DEF Held, Looping, TypeOK
    <2>5. Writing'
      BY <2>1, <2>3 DEF Held, Writing, IsNewKey, Key
    <2> QED
      BY <2>1, <2>3, <2>4, <2>5 DEF Held, Playing, Idle, Committing, Rolling
  <1>7. ASSUME NEW i \in Pages, CommitPage(i)
        PROVE  Held'
    <2>1. /\ pc = "commit" /\ pc' = "commit"
          /\ env' = env /\ damaged' = damaged
          /\ disk' = [disk EXCEPT ![i] = writeKey] /\ dirty' = dirty \ {i}
          /\ UNCHANGED << journal, readKey, writeKey, n, dbmod >>
      BY <1>7 DEF CommitPage, past
    <2>2. Committing'
      BY <2>1 DEF Held, Committing, TypeOK
    <2>3. OldOpens'
      BY <2>1 DEF Held, Committing, Writing, OldOpens
    <2>4. Writing'
      BY <2>1, <2>3 DEF Held, Writing, IsNewKey, Key
    <2> QED
      BY <2>1, <2>2, <2>3, <2>4 DEF Held, Playing, Idle, Looping, Rolling
  <1> QED
    BY <1>1, <1>2, <1>4, <1>5, <1>6, <1>7 DEF Rekeying

LEMMA HeldFailing ==
    ASSUME Recoverable, TypeOK, Journaled, Held, Failing
    PROVE  Held'
  <1> USE Constants
  <1>1. ASSUME pc = "loop", env' = env, disk' = disk, ~dbmod, journal' = NoJournal
        PROVE  OldOpens'
    BY <1>1 DEF Held, Looping, OldOpens, NoJournal
  <1>2. CASE ReadFails
    <2>1. pc = "loop" /\ n <= NPages /\ env' = env /\ damaged' = damaged /\ disk' = disk
      BY <1>2 DEF ReadFails, past
    <2>2. disk[n] = readKey
      BY <2>1 DEF Held, Looping, Writing, OldOpens, TypeOK, Pages
    <2>3. "read" \in env.faults
      BY <1>2, <2>2 DEF ReadFails, Fault
    <2>4. ~dbmod
      BY <2>1, <2>3 DEF Held, Looping, Recoverable, TypeOK
    <2>5. pc' = "closed" /\ journal' = NoJournal
      BY <1>2, <2>4 DEF ReadFails, Rollback
    <2> QED
      BY <1>1, <2>1, <2>4, <2>5, HeldClosed
  <1>3. CASE CommitFails
    <2>1. /\ pc = "commit" /\ dbmod /\ journal.synced = NPages
          /\ env' = env /\ damaged' = damaged
          /\ UNCHANGED << disk, readKey, writeKey, dirty, dbmod >>
      BY <1>3 DEF CommitFails, past, Held, Committing
    <2>2. pc' = "rollback" /\ n' = 1 /\ journal' = journal
      BY <1>3, <2>1 DEF CommitFails, Rollback
    <2>3. OldOpens'
      BY <2>1, <2>2, SameFile DEF Held, Writing
    <2>4. Writing'
      BY <2>1, <2>3, NewKeyStable DEF Held, Writing, IsNewKey, Key
    <2>5. Rolling'
      BY <2>1, <2>2 DEF Rolling
    <2> QED
      BY <2>1, <2>2, <2>3, <2>4, <2>5 DEF Held, Playing, Idle, Looping, Committing
  <1>4. CASE RollbackPage
    <2>1. /\ pc = "rollback" /\ pc' = "rollback" /\ n \in Pages /\ n' = n + 1
          /\ journal.synced = NPages
          /\ disk' = [disk EXCEPT ![n] = writeKey]
          /\ env' = env /\ damaged' = damaged
          /\ UNCHANGED << journal, readKey, writeKey, dirty, dbmod >>
      BY <1>4 DEF RollbackPage, past, Held, Rolling, TypeOK, Pages
    <2>2. OldOpens'
      BY <2>1 DEF Held, Writing, OldOpens
    <2>3. Rolling'
      BY <2>1 DEF Held, Rolling, TypeOK
    <2>4. Writing'
      BY <2>1, <2>2 DEF Held, Writing, IsNewKey, Key
    <2> QED
      BY <2>1, <2>2, <2>3, <2>4 DEF Held, Playing, Idle, Looping, Committing
  <1>5. CASE RollbackEnd
    <2>1. /\ pc = "rollback" /\ n > NPages /\ pc' = "closed" /\ journal' = NoJournal
          /\ env' = env /\ damaged' = damaged /\ disk' = disk
      BY <1>5 DEF RollbackEnd, past, Held, Rolling
    <2>2. IsNewKey(writeKey) /\ \A i \in Pages : disk[i] = writeKey
      BY <2>1 DEF Held, Writing, Rolling, TypeOK
    <2>3. NewOpens'
      BY <2>1, <2>2 DEF NewOpens, NoJournal, IsNewKey, Key
    <2> QED
      BY <2>1, <2>3, HeldClosed
  <1>6. CASE RollbackFails
    BY <1>6, SameFile, HeldClosed DEF RollbackFails, past, Held
  <1>7. CASE SpillFails
    <2>1. /\ pc = "loop" /\ pc' = "closed" /\ env' = env /\ damaged' = damaged
          /\ disk' = disk
          /\ SyncJournal \/ UNCHANGED journal
      BY <1>7 DEF SpillFails, past
    <2>2. OldOpens'
      <3>1. CASE SyncJournal
        <4>1. /\ journal'.synced = journal.logged /\ journal'.logged = journal.logged
              /\ journal'.key = journal.key
          BY <3>1 DEF SyncJournal, TypeOK
        <4> QED
          BY <2>1, <4>1 DEF Held, Writing, OldOpens, TypeOK
      <3>2. CASE UNCHANGED journal
        BY <2>1, <3>2 DEF Held, Writing, OldOpens
      <3> QED
        BY <2>1, <3>1, <3>2
    <2> QED
      BY <2>1, <2>2, HeldClosed
  <1>8. CASE DeleteFails
    BY <1>8, SameFile, HeldClosed DEF DeleteFails, past, Held
  <1>9. CASE Crash
    BY <1>9, SameFile, HeldClosed DEF Crash, past, Held
  <1> QED
    BY <1>2, <1>3, <1>4, <1>5, <1>6, <1>7, <1>8, <1>9 DEF Failing

-----------------------------------------------------------------------------
(* The theorems                                                            *)

LEMMA TypeInit == Init => TypeOK /\ Journaled
  <1> SUFFICES ASSUME Init
               PROVE  TypeOK /\ Journaled
    OBVIOUS
  <1> USE Constants
  <1>1. Key(Old, 1) \in Keys
    BY KeyType DEF Credentials
  <1>2. NoJournal.logged = 0 /\ NoJournal.synced = 0
    BY DEF NoJournal
  <1>3. n \in 1..(NPages + 1) /\ crashes \in 0..MaxCrashes /\ faults \in 0..MaxFaults
        /\ rekeys \in 0..MaxRekeys
    BY DEF Init
  <1>4. disk \in [Pages -> Keys]
    BY <1>1 DEF Init
  <1>5. /\ journal = NoJournal /\ pc = "closed" /\ env \in Environments
        /\ readKey \in Keys /\ writeKey \in Keys
        /\ dirty \subseteq Pages /\ dbmod \in BOOLEAN
        /\ damaged \in BOOLEAN /\ dropped \in BOOLEAN
        /\ result = "idle"
    BY <1>1 DEF Init
  <1>6. TypeOK
    BY <1>2, <1>3, <1>4, <1>5, NoJournalType DEF TypeOK
  <1>7. Journaled
    BY <1>2, <1>5 DEF Journaled
  <1> QED
    BY <1>6, <1>7

LEMMA HeldInit ==
    ASSUME Recoverable, Init
    PROVE  Held
  <1>1. Key(Old, 1) = OldKey
    BY TypeInit, OldKeyFixed
  <1>2. OldOpens
    BY <1>1 DEF Init, NoJournal, OldOpens
  <1> QED
    BY <1>2 DEF Init, Held, Playing, Idle, Writing, Looping, Committing, Rolling

LEMMA IInvStep ==
    ASSUME Recoverable, IInv, [Next]_vars
    PROVE  IInv'
  <1>1. TypeOK' /\ Journaled'
    BY TypeStep DEF IInv
  <1>2. SUFFICES ASSUME ~dropped'
                 PROVE  Held'
    BY <1>1 DEF IInv
  <1>3. ~dropped
    <2>1. dropped => dropped'
      BY DEF Next, vars, past, Open, PlaybackPage, PlaybackFails, PlaybackEnds,
             PlaybackFault, Check, Close, BeginRekey, JournalPage, CommitSync, CommitEnd,
             Spill, CommitPage, ReadFails, CommitFails, RollbackPage, RollbackEnd,
             RollbackFails, SpillFails, DeleteFails, Crash
    <2> QED
      BY <1>2, <2>1
  <1>4. TypeOK /\ Journaled /\ Held
    BY <1>3 DEF IInv
  <1>5. CASE Connecting
    BY <1>2, <1>4, <1>5, HeldConnecting
  <1>6. CASE Rekeying
    BY <1>4, <1>6, HeldRekeying
  <1>7. CASE Failing
    BY <1>4, <1>7, HeldFailing
  <1>8. CASE UNCHANGED vars
    <2>1. /\ env' = env /\ damaged' = damaged
          /\ UNCHANGED << disk, journal, pc, readKey, writeKey, n, dirty, dbmod >>
      BY <1>8 DEF vars, conn, past
    <2>2. (OldOpens' <=> OldOpens) /\ (NewOpens' <=> NewOpens)
      BY <2>1, SameFile
    <2>3. Playing' /\ Idle' /\ Looping' /\ Committing' /\ Rolling'
      BY <1>4, <2>1 DEF Held, Playing, Idle, Looping, Committing, Rolling
    <2>4. Writing'
      BY <1>4, <2>1, <2>2 DEF Held, Writing, IsNewKey, Key
    <2> QED
      BY <1>4, <2>1, <2>2, <2>3, <2>4 DEF Held
  <1> QED
    BY <1>5, <1>6, <1>7, <1>8, NextCases

\* The variables of the rekey keep their types and the header of its journal never
\* counts a record that is not there, in every environment.
THEOREM RekeyTypeCorrect == Spec => []TypeOK
  <1>1. Init => TypeOK /\ Journaled
    BY TypeInit
  <1>2. TypeOK /\ Journaled /\ [Next]_vars => (TypeOK /\ Journaled)'
    BY TypeStep
  <1> QED
    BY <1>1, <1>2, PTL DEF Spec

\* Whatever the size of the file, wherever the process dies or a call fails, in the
\* rekey, its rollback or a recovery, one of the two credentials opens the whole file
\* (sqlite3_rekey_v2 and the pager), as long as no journal was dropped by a cipher
\* that cannot tell a wrong key, if the old key is independent of the file's salt and
\* no page is spilled where reading one may fail.
THEOREM NoFileIsStranded ==
    ASSUME Recoverable
    PROVE  Spec => []NeverStranded
  <1>1. Init => IInv
    BY TypeInit, HeldInit DEF IInv
  <1>2. IInv /\ [Next]_vars => IInv'
    BY IInvStep
  <1>3. IInv => NeverStranded
    BY HeldSuffices
  <1> QED
    BY <1>1, <1>2, <1>3, PTL DEF Spec

-----------------------------------------------------------------------------
(* The refinement of KeySwitch                                             *)

(***************************************************************************)
(* What the mapping needs besides IInv: a caller waits exactly as long as  *)
(* the transaction lasts, and in an atomic environment a connection with   *)
(* the old key never meets a journal it cannot read, so that none is       *)
(* dropped, and no transaction is rolled back page by page.                *)
(***************************************************************************)
Pending == result = "pending" <=> pc \in {"loop", "commit", "rollback"}

Undropped == ~dropped /\ (pc = "playback" /\ readKey.cred = Old => readKey = OldKey)

SwitchInv ==
    /\ IInv
    /\ Pending
    /\ Atomic => Undropped /\ pc # "rollback"

LEMMA SwitchInit ==
    ASSUME Recoverable, Init
    PROVE  SwitchInv
  <1>1. IInv
    BY TypeInit, HeldInit DEF IInv
  <1>2. pc = "closed" /\ result = "idle" /\ ~dropped
    BY DEF Init
  <1> QED
    BY <1>1, <1>2 DEF SwitchInv, Pending, Undropped

LEMMA EnvironmentStays == [Next]_vars => env' = env
  BY DEF Next, vars, past, Open, PlaybackPage, PlaybackFails, PlaybackEnds,
         PlaybackFault, Check, Close, BeginRekey, JournalPage, CommitSync, CommitEnd,
         Spill, CommitPage, ReadFails, CommitFails, RollbackPage, RollbackEnd,
         RollbackFails, SpillFails, DeleteFails, Crash

LEMMA PendingStep == Pending /\ [Next]_vars => Pending'
  <1> SUFFICES ASSUME Pending, [Next]_vars
               PROVE  Pending'
    OBVIOUS
  <1>1. CASE Connecting
    BY <1>1 DEF Pending, Connecting, Open, PlaybackPage, PlaybackFails, PlaybackEnds,
                PlaybackFault, Check, Close
  <1>2. CASE Rekeying
    BY <1>2 DEF Pending, Rekeying, BeginRekey, JournalPage, CommitSync, CommitEnd,
                Spill, CommitPage
  <1>3. CASE Failing
    BY <1>3 DEF Pending, Failing, Rollback, ReadFails, CommitFails, RollbackPage,
                RollbackEnd, RollbackFails, SpillFails, DeleteFails, Crash
  <1> QED
    BY <1>1, <1>2, <1>3, NextCases DEF Pending, vars

\* In an atomic environment only a connection with another key than the journal's
\* could drop it, and the one that could does not come across such a journal.
LEMMA NothingIsDropped ==
    ASSUME Recoverable, TypeOK, Held, Atomic, Undropped, [Next]_vars
    PROVE  Undropped'
  <1>1. CASE PlaybackEnds
    <2>1. /\ pc = "playback" /\ pc' = "check"
          /\ dropped' <=> (dropped \/ n <= journal.synced)
          /\ \/ n > journal.synced
             \/ journal.key # readKey /\ ~Authenticates(readKey)
      BY <1>1 DEF PlaybackEnds
    <2>2. ASSUME n <= journal.synced
          PROVE  FALSE
      <3>1. ~(n > journal.synced) /\ journal.synced > 0 /\ journal.logged > 0
        BY <2>2 DEF TypeOK
      <3>2. journal.key = OldKey
        BY <3>1 DEF Held, NewOpens, OldOpens
      <3>3. readKey.cred # New
        BY <2>1, <3>1 DEF Authenticates, Atomic
      <3>4. readKey = OldKey
        BY <2>1, <3>3 DEF Undropped, TypeOK, Keys, Credentials
      <3> QED
        BY <2>1, <3>1, <3>2, <3>4
    <2> QED
      BY <2>1, <2>2 DEF Undropped
  <1>2. ASSUME NEW cred \in Credentials, Open(cred)
        PROVE  Undropped'
    <2>1. readKey' = Key(cred, disk[1].salt) /\ (dropped' <=> dropped)
      BY <1>2 DEF Open, past
    <2>2. cred = Old => readKey' = OldKey
      BY <2>1, OldKeyFixed
    <2>3. readKey'.cred = cred
      BY <2>1 DEF Key
    <2> QED
      BY <2>1, <2>2, <2>3 DEF Undropped
  <1>3. ASSUME Next, ~PlaybackEnds, \A cred \in Credentials : ~Open(cred)
        PROVE  /\ dropped' <=> dropped
               /\ pc' = "playback" => pc = "playback" /\ readKey' = readKey
    BY <1>3 DEF Next, past, PlaybackPage, PlaybackFails,
           PlaybackFault, Check, Close, BeginRekey, JournalPage, CommitSync, CommitEnd,
           Spill, CommitPage, Rollback, ReadFails, CommitFails, RollbackPage,
           RollbackEnd, RollbackFails, SpillFails, DeleteFails, Crash
  <1>4. CASE UNCHANGED vars
    BY <1>4 DEF vars, past, conn, Undropped
  <1> QED
    BY <1>1, <1>2, <1>3, <1>4 DEF Undropped

\* The transaction cannot fail where it would be rolled back with the new key.
LEMMA NothingIsRolledBack ==
    ASSUME Recoverable, TypeOK, Held, Atomic, pc # "rollback", [Next]_vars
    PROVE  ~ReadFails /\ ~CommitFails /\ pc' # "rollback"
  <1>1. "read" \notin env.faults /\ "commit" \notin env.faults
    BY DEF Atomic
  <1>2. ~CommitFails
    BY <1>1 DEF CommitFails, Fault
  <1>3. ~ReadFails
    <2>1. SUFFICES ASSUME ReadFails
                   PROVE  FALSE
      OBVIOUS
    <2>2. pc = "loop" /\ n <= NPages /\ disk[n] # readKey
      BY <1>1, <2>1 DEF ReadFails, Fault
    <2> QED
      BY <2>2, Constants DEF Held, Looping, Writing, OldOpens, TypeOK, Pages
  <1>4. pc' # "rollback"
    BY <1>2, <1>3 DEF Next, vars, Open, PlaybackPage, PlaybackFails, PlaybackEnds,
           PlaybackFault, Check, Close, BeginRekey, JournalPage, CommitSync, CommitEnd,
           Spill, CommitPage, RollbackPage, RollbackEnd,
           RollbackFails, SpillFails, DeleteFails, Crash
  <1> QED
    BY <1>2, <1>3, <1>4

LEMMA SwitchInvStep ==
    ASSUME Recoverable, SwitchInv, [Next]_vars
    PROVE  SwitchInv'
  <1>1. IInv' /\ Pending'
    BY IInvStep, PendingStep DEF SwitchInv
  <1>2. Atomic' <=> Atomic
    BY EnvironmentStays DEF Atomic
  <1>3. ASSUME Atomic
        PROVE  Undropped' /\ pc' # "rollback"
    <2>1. TypeOK /\ Held /\ Undropped /\ pc # "rollback"
      BY <1>3 DEF SwitchInv, IInv, Undropped
    <2> QED
      BY <1>3, <2>1, NothingIsDropped, NothingIsRolledBack
  <1> QED
    BY <1>1, <1>2, <1>3 DEF SwitchInv

\* The value of KeySwitch's variable key.
FileKey == IF Atomic /\ ~Recovers(Old) THEN New ELSE Old

\* As long as nothing was dropped the old key opens the file, or the new one does.
LEMMA OldRecovers ==
    ASSUME Recoverable, TypeOK, Held
    PROVE  (Recovers(Old) <=> OldOpens) /\ (NewOpens => ~OldOpens)
  <1> USE Constants
  <1>1. Key(Old, disk[1].salt) = OldKey
    BY OldKeyFixed
  <1>2. NewOpens => ~OldOpens /\ ~Recovers(Old)
    BY <1>1, Distinct DEF NewOpens, OldOpens, Recovers
  <1>3. OldOpens => Recovers(Old)
    BY <1>1 DEF OldOpens, Recovers, Held, TypeOK
  <1> QED
    BY <1>2, <1>3 DEF Held

\* A step keeps the key of the file when it keeps what the file opens with.
LEMMA SameKey ==
    ASSUME Recoverable, TypeOK, Held, Atomic, TypeOK', Held', env' = env,
           OldOpens => OldOpens', NewOpens => NewOpens'
    PROVE  FileKey' = FileKey
  <1>1. Atomic' /\ Recoverable'
    BY DEF Atomic, Recoverable
  <1>2. (Recovers(Old) <=> OldOpens) /\ (NewOpens => ~OldOpens)
    BY OldRecovers
  <1>3. (Recovers(Old)' <=> OldOpens') /\ (NewOpens' => ~OldOpens')
    BY <1>1, OldRecovers, PTL
  <1> QED
    BY <1>1, <1>2, <1>3 DEF FileKey, Held

LEMMA SwitchesConnecting ==
    ASSUME Recoverable, SwitchInv, SwitchInv', Atomic, Atomic', env' = env, Connecting
    PROVE  FileKey' = FileKey /\ result' = result
  <1> USE Constants
  <1>1. TypeOK /\ Held /\ ~dropped /\ TypeOK' /\ Held' /\ ~dropped'
    BY DEF SwitchInv, IInv, Undropped
  <1>2. result' = result
    BY DEF Connecting, Open, PlaybackPage, PlaybackFails, PlaybackEnds, PlaybackFault,
           Check, Close
  <1>3. CASE PlaybackPage
    <2>1. /\ pc = "playback" /\ n <= journal.synced /\ journal.synced > 0
          /\ journal.key = readKey /\ readKey = writeKey
          /\ disk' = [disk EXCEPT ![n] = readKey] /\ journal' = journal
      BY <1>1, <1>3 DEF PlaybackPage, Held, Playing, TypeOK
    <2>2. OldOpens => OldOpens'
      BY <2>1, <1>1 DEF OldOpens, TypeOK
    <2>3. ~NewOpens
      BY <2>1 DEF NewOpens
    <2> QED
      BY <1>1, <1>2, <2>2, <2>3, SameKey
  <1>4. CASE PlaybackEnds
    <2>1. /\ pc = "playback" /\ ~(n <= journal.synced) /\ journal' = NoJournal
          /\ disk' = disk
      <3>1. dropped' <=> (dropped \/ n <= journal.synced)
        BY <1>4 DEF PlaybackEnds
      <3> QED
        BY <1>1, <1>4, <3>1 DEF PlaybackEnds
    <2>2. OldOpens => OldOpens'
      <3>1. OldOpens => \A i \in Pages : disk[i] = OldKey
        BY <1>1, <2>1 DEF OldOpens, Held, Playing, TypeOK
      <3> QED
        BY <2>1, <3>1 DEF OldOpens, NoJournal
    <2>3. NewOpens => NewOpens'
      BY <2>1, NewKeyStable DEF NewOpens, NoJournal, IsNewKey, Key
    <2> QED
      BY <1>1, <1>2, <2>2, <2>3, SameKey
  <1>5. ASSUME ~PlaybackPage, ~PlaybackEnds
        PROVE  UNCHANGED << disk, journal >>
    BY <1>5 DEF Connecting, Open, PlaybackFails, PlaybackFault, Check, Close
  <1> QED
    BY <1>1, <1>2, <1>3, <1>4, <1>5, SameFile, SameKey

\* While the transaction lasts the file belongs to the old key ...
LEMMA OldWhilePending ==
    ASSUME Recoverable, TypeOK, Held, pc \in {"loop", "commit"}
    PROVE  FileKey = Old
  BY OldRecovers DEF Held, Writing, FileKey

\* ... and where it cannot be damaged its key is the old one if that opens it.
LEMMA SwitchesRekeying ==
    ASSUME Recoverable, SwitchInv, SwitchInv', Atomic, Atomic', env' = env, Rekeying
    PROVE  \/ Promise!Request \/ Promise!Switch
           \/ FileKey' = FileKey /\ result' = result
  <1> USE Constants
  <1>1. TypeOK /\ Journaled /\ Held /\ TypeOK' /\ Held' /\ Recoverable' /\ Pending
    BY DEF SwitchInv, IInv, Undropped, Recoverable
  <1>2. pc' \in {"loop", "commit"} => FileKey' = Old
    <2>1. Recovers(Old)' <=> OldOpens'
      BY <1>1, OldRecovers, PTL
    <2> QED
      BY <1>1, <2>1 DEF Held, Writing, FileKey
  <1>3. CASE BeginRekey
    <2>1. pc = "open" /\ pc' = "loop" /\ result' = "pending" /\ UNCHANGED << disk, journal >>
      BY <1>3 DEF BeginRekey
    <2>2. result # "pending"
      BY <1>1, <2>1 DEF Pending
    <2>3. FileKey' = FileKey
      BY <1>1, <2>1, SameFile, SameKey
    <2> QED
      BY <1>2, <2>1, <2>2, <2>3 DEF Promise!Request, FileKey
  <1>4. CASE CommitEnd
    <2>1. /\ pc = "commit" /\ pc' = "open" /\ dirty = {} /\ result' = "ok"
          /\ journal' = NoJournal /\ disk' = disk
      BY <1>4 DEF CommitEnd
    <2>2. FileKey = Old /\ result = "pending"
      BY <1>1, <2>1, OldWhilePending DEF Pending
    <2>3. IsNewKey(writeKey) /\ disk[1] = writeKey
      BY <1>1, <2>1 DEF Held, Writing, Committing
    <2>4. ~OldOpens'
      BY <2>1, <2>3, Distinct DEF OldOpens, NoJournal
    <2>5. FileKey' = New
      <3>1. Recovers(Old)' <=> OldOpens'
        BY <1>1, OldRecovers, PTL
      <3> QED
        BY <2>4, <3>1 DEF FileKey
    <2> QED
      BY <2>1, <2>2, <2>5 DEF Promise!Switch, FileKey
  <1>5. ASSUME ~BeginRekey, ~CommitEnd
        PROVE  /\ pc \in {"loop", "commit"} /\ pc' \in {"loop", "commit"}
               /\ result' = result
    BY <1>5 DEF Rekeying, JournalPage, CommitSync, Spill, CommitPage
  <1> QED
    BY <1>1, <1>2, <1>3, <1>4, <1>5, OldWhilePending

LEMMA SwitchesFailing ==
    ASSUME Recoverable, SwitchInv, SwitchInv', Atomic, Atomic', env' = env, Failing
    PROVE  \/ Promise!ReportError \/ Promise!Interrupt
           \/ FileKey' = FileKey /\ result' = result
  <1> USE Constants
  <1>7. TypeOK' /\ Held'
    BY DEF SwitchInv, IInv, Undropped
  <1>1. TypeOK /\ Held /\ Pending /\ pc # "rollback"
    BY DEF SwitchInv, IInv, Undropped
  <1>2. ~ReadFails /\ ~CommitFails
    <2>1. [Next]_vars
      BY DEF Failing, Next
    <2> QED
      BY <1>1, <2>1, NothingIsRolledBack
  <1>3. CASE SpillFails
    <2>1. /\ pc = "loop" /\ result' = "error" /\ disk' = disk
          /\ SyncJournal \/ UNCHANGED journal
      BY <1>3 DEF SpillFails
    <2>2. OldOpens'
      <3>1. CASE SyncJournal
        <4>1. /\ journal'.synced = journal.logged /\ journal'.logged = journal.logged
              /\ journal'.key = journal.key
          BY <1>1, <3>1 DEF SyncJournal, TypeOK
        <4> QED
          BY <1>1, <2>1, <4>1 DEF Held, Writing, OldOpens, TypeOK
      <3>2. CASE UNCHANGED journal
        BY <1>1, <2>1, <3>2 DEF Held, Writing, OldOpens
      <3> QED
        BY <2>1, <3>1, <3>2
    <2>3. OldOpens
      BY <1>1, <2>1 DEF Held, Writing
    <2>4. FileKey' = FileKey /\ FileKey = Old
      <3>1. NewOpens => NewOpens'
        BY <1>1, <2>3, OldRecovers
      <3>2. FileKey' = FileKey
        BY <1>1, <1>7, <2>2, <3>1, SameKey
      <3> QED
        BY <1>1, <2>1, <3>2, OldWhilePending
    <2> QED
      BY <1>1, <2>1, <2>4 DEF Promise!ReportError, Pending, FileKey
  <1>4. CASE DeleteFails
    <2>1. pc = "commit" /\ result' = "error" /\ UNCHANGED << disk, journal >>
      BY <1>4 DEF DeleteFails
    <2>2. FileKey' = FileKey /\ FileKey = Old
      BY <1>1, <1>7, <2>1, SameFile, OldWhilePending, SameKey
    <2> QED
      BY <1>1, <2>1, <2>2 DEF Promise!ReportError, Pending, FileKey
  <1>5. CASE Crash
    <2>1. result' = "idle" /\ UNCHANGED << disk, journal >>
      BY <1>5 DEF Crash
    <2>2. FileKey' = FileKey
      BY <1>1, <1>7, <2>1, SameFile, SameKey
    <2> QED
      BY <2>1, <2>2 DEF Promise!Interrupt, FileKey
  <1> QED
    BY <1>1, <1>2, <1>3, <1>4, <1>5 DEF Failing, RollbackPage, RollbackEnd, RollbackFails

LEMMA SwitchesStep ==
    ASSUME Recoverable, SwitchInv, SwitchInv', [Next]_vars
    PROVE  [Promise!Next]_(Promise!vars)
  <1>1. env' = env /\ (Atomic' <=> Atomic)
    BY EnvironmentStays DEF Atomic
  <1>2. CASE ~Atomic
    BY <1>1, <1>2 DEF Promise!vars
  <1>3. CASE Atomic
    <2>1. ASSUME FileKey' = FileKey, result' = result
          PROVE  UNCHANGED Promise!vars
      BY <1>1, <1>3, <2>1 DEF FileKey, Promise!vars
    <2>2. CASE UNCHANGED vars
      BY <2>1, <2>2 DEF vars, past, FileKey, Atomic, Recovers, Key
    <2> QED
      BY <1>1, <1>3, <2>1, <2>2, NextCases, SwitchesConnecting, SwitchesRekeying,
         SwitchesFailing DEF Promise!Next
  <1> QED
    BY <1>2, <1>3

\* PRAGMA rekey implements the switch of KeySwitch in every environment in which no
\* read and no commit fails and the new cipher authenticates its pages: whatever the
\* size of the file and wherever the process dies or another call fails, the file has
\* the old key until the journal is deleted (sqlite3PagerCommitPhaseTwo) and the new
\* one from then on, and the caller is told which.
THEOREM RekeyIsAtomic ==
    ASSUME Recoverable
    PROVE  Spec => AtomicSwitch
  <1>1. Init => SwitchInv
    BY SwitchInit
  <1>2. SwitchInv /\ [Next]_vars => SwitchInv'
    BY SwitchInvStep
  <1>3. Init => Promise!Init
    <2> SUFFICES ASSUME Init
                 PROVE  Promise!Init
      OBVIOUS
    <2>1. TypeOK /\ Held
      BY TypeInit, HeldInit
    <2>2. Key(Old, 1) = OldKey
      BY <2>1, OldKeyFixed
    <2>3. OldOpens
      BY <2>2 DEF Init, NoJournal, OldOpens
    <2>4. FileKey = Old /\ result = "idle"
      BY <2>1, <2>3, OldRecovers DEF Init, FileKey
    <2> QED
      BY <2>4 DEF Promise!Init, FileKey
  <1>4. SwitchInv /\ SwitchInv' /\ [Next]_vars => [Promise!Next]_(Promise!vars)
    BY SwitchesStep
  <1> QED
    BY <1>1, <1>2, <1>3, <1>4, PTL DEF Spec, AtomicSwitch, Promise!Spec
=============================================================================
