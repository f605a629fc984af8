------------------------------------ MODULE Rekey ------------------------------------
(***************************************************************************)
(* sqlite3_rekey_v2 at the level of pages: the transaction that rewrites   *)
(* every page with the new key, its rollback journal, cache spills, errors, *)
(* a crash of the process at any step, and the next connection, which plays *)
(* back a hot journal before it reads the file.                            *)
(*                                                                         *)
(* The contents of a page never change, so a page is the key it is         *)
(* encrypted with.  A key is a credential and, for ciphers that derive     *)
(* their key from it, the salt in the first 16 bytes of the file: the key  *)
(* a connection uses depends on what page 1 holds when it opens.           *)
(* The pager is the one of the amalgamation; page 1 is pinned for the      *)
(* length of the transaction.                                              *)
(***************************************************************************)
EXTENDS Integers, FiniteSets

CONSTANTS
    Environments,  \* what the transaction runs in, see below
    NPages,        \* pages of the file
    MaxCrashes, MaxFaults, MaxRekeys

Old == "old"
New == "new"
Credentials == {Old, New}

\* Where an I/O error may happen.
Places == {"read", "spill", "commit", "delete", "rollback", "playback"}

ASSUME RekeyAssumptions ==
    /\ Environments \subseteq
          [salted : SUBSET Credentials,  \* keys derived with the salt of the file
           mac : SUBSET Credentials,     \* ciphers that authenticate a page
           spills : BOOLEAN,             \* the cache is too small for the transaction
           faults : SUBSET Places]
    /\ NPages \in Nat /\ NPages >= 1
    /\ MaxCrashes \in Nat /\ MaxFaults \in Nat /\ MaxRekeys \in Nat

VARIABLES
    env,       \* one of Environments
    disk,      \* [Pages -> Keys]
    journal,   \* records 1..logged, of which the header counts 1..synced
    pc,        \* what the connection is doing
    readKey, writeKey,
    n,         \* the page that is next
    dirty,     \* pages written in the cache only
    dbmod,     \* the pager is in state WRITER_DBMOD
    damaged,   \* a page was rewritten from what the wrong key made of it
    dropped,   \* a hot journal was dropped by a connection with another key
    result,    \* what the caller of the latest rekey knows
    crashes, faults, rekeys

conn == << readKey, writeKey, n, dirty, dbmod >>
counters == << crashes, faults, rekeys >>
past == << env, damaged, dropped >>
vars == << disk, journal, pc, conn, past, result, counters >>

Pages == 1..NPages
Key(cred, salt) == [cred |-> cred, salt |-> IF cred \in env.salted THEN salt ELSE 0]
Keys == [cred : Credentials, salt : 0..(MaxRekeys + 1)]
Authenticates(key) == key.cred \in env.mac

NoJournal ==
    [logged |-> 0, synced |-> 0, key |-> [cred |-> Old, salt |-> 0], exists |-> FALSE]

Init ==
    /\ env \in Environments
    /\ disk = [i \in Pages |-> Key(Old, 1)]
    /\ journal = NoJournal
    /\ pc = "closed"
    /\ readKey = Key(Old, 1) /\ writeKey = Key(Old, 1)
    /\ n = 1 /\ dirty = {} /\ dbmod = FALSE
    /\ damaged = FALSE /\ dropped = FALSE
    /\ result = "idle"
    /\ crashes = 0 /\ faults = 0 /\ rekeys = 0

Fault(place) ==
    /\ place \in env.faults /\ faults < MaxFaults
    /\ faults' = faults + 1

-----------------------------------------------------------------------------
(* A connection opens: key, hot journal, first read                        *)

\* PRAGMA key: both keys are derived with the salt found in the file.
Open(cred) ==
    /\ pc = "closed"
    /\ readKey' = Key(cred, disk[1].salt)
    /\ writeKey' = readKey'
    /\ n' = 1 /\ dirty' = {} /\ dbmod' = FALSE
    /\ pc' = IF journal.exists THEN "playback" ELSE "check"
    /\ UNCHANGED << disk, journal, past, result, counters >>

\* One record of a hot journal is decrypted, checked and written back.
PlaybackPage ==
    /\ pc = "playback" /\ n <= journal.synced
    /\ journal.key = readKey
    /\ disk' = [disk EXCEPT ![n] = writeKey]
    /\ n' = n + 1
    /\ UNCHANGED << journal, pc, readKey, writeKey, dirty, dbmod, past, result, counters >>

\* The record is not authentic: the connection fails, the journal stays.
PlaybackFails ==
    /\ pc = "playback" /\ n <= journal.synced
    /\ journal.key # readKey /\ Authenticates(readKey)
    /\ pc' = "closed"
    /\ UNCHANGED << disk, journal, conn, past, result, counters >>

\* The journal ends, or a record's checksum does not match, which the pager
\* takes for the end: the journal is deleted.
PlaybackEnds ==
    /\ pc = "playback"
    /\ \/ n > journal.synced
       \/ journal.key # readKey /\ ~Authenticates(readKey)
    /\ dropped' = (dropped \/ n <= journal.synced)
    /\ journal' = NoJournal
    /\ pc' = "check"
    /\ UNCHANGED << env, damaged, disk, conn, result, counters >>

\* A page cannot be written or the journal not deleted: the connection fails,
\* the journal stays.
PlaybackFault ==
    /\ pc = "playback"
    /\ Fault("playback")
    /\ pc' = "closed"
    /\ UNCHANGED << disk, journal, conn, past, result, crashes, rekeys >>

\* SELECT 1 FROM sqlite_schema
Check ==
    /\ pc = "check"
    /\ pc' = IF disk[1] = readKey THEN "open" ELSE "closed"
    /\ UNCHANGED << disk, journal, conn, past, result, counters >>

Close ==
    /\ pc = "open"
    /\ pc' = "closed"
    /\ UNCHANGED << disk, journal, conn, past, result, counters >>

-----------------------------------------------------------------------------
(* PRAGMA rekey                                                            *)

\* The new key has a salt of its own.
BeginRekey ==
    /\ pc = "open" /\ readKey.cred = Old
    /\ rekeys < MaxRekeys
    /\ rekeys' = rekeys + 1
    /\ writeKey' = Key(New, rekeys + 2)
    /\ n' = 1
    /\ result' = "pending"
    /\ pc' = "loop"
    /\ UNCHANGED << disk, journal, readKey, dirty, dbmod, past, crashes, faults >>

\* Mutation: the header counts one record too many.
LogOneTooMany(key) ==
    journal' = [logged |-> n + 1, synced |-> journal.synced, key |-> key, exists |-> TRUE]

Log(key) ==
    journal' = [logged |-> n, synced |-> journal.synced, key |-> key, exists |-> TRUE]

\* sqlite3PagerGet and sqlite3PagerWrite: the page goes to the journal, which
\* is written with the read key, and is changed in the cache.
JournalPage ==
    /\ pc = "loop" /\ n <= NPages
    /\ disk[n] = readKey \/ ~Authenticates(readKey)
    /\ Log(readKey)
    /\ damaged' = (damaged \/ disk[n] # readKey)
    /\ dirty' = dirty \cup {n}
    /\ n' = n + 1
    /\ UNCHANGED << env, dropped, disk, pc, readKey, writeKey, dbmod, result, counters >>

\* The header counts the records, which reach the disk before any page does.
SyncJournal == journal' = [journal EXCEPT !.synced = journal.logged]

\* Mutation: a page is spilled before its journal record is synced.
SpillNoSync(i) ==
    /\ pc = "loop" /\ env.spills
    /\ i \in dirty \ {1}
    /\ disk' = [disk EXCEPT ![i] = writeKey]
    /\ dirty' = dirty \ {i}
    /\ dbmod' = TRUE
    /\ UNCHANGED << journal, pc, readKey, writeKey, n, past, result, counters >>

\* pagerStress writes a dirty page that nobody holds.
Spill(i) ==
    /\ pc = "loop" /\ env.spills
    /\ i \in dirty \ {1}
    /\ SyncJournal
    /\ disk' = [disk EXCEPT ![i] = writeKey]
    /\ dirty' = dirty \ {i}
    /\ dbmod' = TRUE
    /\ UNCHANGED << pc, readKey, writeKey, n, past, result, counters >>

\* Commit, first half: the journal is synced.
CommitSync ==
    /\ pc = "loop" /\ n > NPages
    /\ SyncJournal
    /\ dbmod' = TRUE
    /\ pc' = "commit"
    /\ UNCHANGED << disk, readKey, writeKey, n, dirty, past, result, counters >>

\* The dirty pages are written in the order of their numbers.
CommitPage(i) ==
    /\ pc = "commit"
    /\ i \in dirty /\ \A j \in dirty : i <= j
    /\ disk' = [disk EXCEPT ![i] = writeKey]
    /\ dirty' = dirty \ {i}
    /\ UNCHANGED << journal, pc, readKey, writeKey, n, dbmod, past, result, counters >>

\* Mutation: the result of the commit gets lost.
CommitEndUnreported ==
    /\ pc = "commit" /\ dirty = {}
    /\ journal' = NoJournal
    /\ readKey' = writeKey
    /\ pc' = "open"
    /\ UNCHANGED << disk, writeKey, n, dirty, dbmod, past, result, counters >>

\* Commit, second half: the journal is deleted, the read key becomes the new one.
CommitEnd ==
    /\ pc = "commit" /\ dirty = {}
    /\ journal' = NoJournal
    /\ readKey' = writeKey
    /\ result' = "ok"
    /\ pc' = "open"
    /\ UNCHANGED << disk, writeKey, n, dirty, dbmod, past, counters >>

-----------------------------------------------------------------------------
(* Errors: "Rollback in case of error"                                     *)

\* The transaction rolls back: with the database file untouched the journal is
\* only deleted, otherwise it is played back.
Rollback ==
    /\ n' = 1
    /\ IF dbmod THEN /\ pc' = "rollback" /\ UNCHANGED << journal, result >>
                ELSE /\ pc' = "closed" /\ journal' = NoJournal /\ result' = "error"

\* A page cannot be read, for an I/O error or because it is not authentic.
ReadFails ==
    /\ pc = "loop" /\ n <= NPages
    /\ \/ Fault("read")
       \/ disk[n] # readKey /\ Authenticates(readKey) /\ UNCHANGED faults
    /\ Rollback
    /\ UNCHANGED << disk, readKey, writeKey, dirty, dbmod, past, crashes, rekeys >>

CommitFails ==
    /\ pc = "commit" /\ dirty # {}
    /\ Fault("commit")
    /\ Rollback
    /\ UNCHANGED << disk, readKey, writeKey, dirty, dbmod, past, crashes, rekeys >>

\* Playback in the connection that rekeys: the page is written with the write
\* key, which still is the new one.
RollbackPage ==
    /\ pc = "rollback" /\ n <= journal.synced
    /\ disk' = [disk EXCEPT ![n] = writeKey]
    /\ n' = n + 1
    /\ UNCHANGED << journal, pc, readKey, writeKey, dirty, dbmod, past, result, counters >>

\* The journal is deleted, the error returned, and the driver gives up the
\* connection.
RollbackEnd ==
    /\ pc = "rollback" /\ n > journal.synced
    /\ journal' = NoJournal
    /\ result' = "error"
    /\ pc' = "closed"
    /\ UNCHANGED << disk, conn, past, counters >>

\* An error in the playback ends it; the pager keeps the journal.
RollbackFails ==
    /\ pc = "rollback"
    /\ Fault("rollback")
    /\ result' = "error"
    /\ pc' = "closed"
    /\ UNCHANGED << disk, journal, conn, past, crashes, rekeys >>

\* The journal cannot be deleted after all pages were written: the pager is in its
\* error state, in which sqlite3PagerRollback does nothing.
DeleteFails ==
    /\ pc = "commit" /\ dirty = {}
    /\ Fault("delete")
    /\ result' = "error"
    /\ pc' = "closed"
    /\ UNCHANGED << disk, journal, conn, past, crashes, rekeys >>

\* A failed spill puts the pager in its error state: nothing is rolled back, the
\* journal stays for the next connection.
SpillFails ==
    /\ pc = "loop" /\ env.spills /\ dirty \ {1} # {}
    /\ Fault("spill")
    /\ SyncJournal \/ UNCHANGED journal
    /\ result' = "error"
    /\ pc' = "closed"
    /\ UNCHANGED << disk, conn, past, crashes, rekeys >>

\* The process dies; what it wrote stays.
Crash ==
    /\ pc # "closed" /\ crashes < MaxCrashes
    /\ crashes' = crashes + 1
    /\ pc' = "closed"
    /\ result' = "idle"
    /\ UNCHANGED << disk, journal, conn, past, faults, rekeys >>

Next ==
    \/ \E cred \in Credentials : Open(cred)
    \/ PlaybackPage \/ PlaybackFails \/ PlaybackEnds \/ PlaybackFault \/ Check \/ Close
    \/ BeginRekey \/ JournalPage \/ CommitSync \/ CommitEnd
    \/ \E i \in Pages : Spill(i) \/ CommitPage(i)
    \/ ReadFails \/ CommitFails \/ RollbackPage \/ RollbackEnd \/ RollbackFails
    \/ SpillFails \/ DeleteFails
    \/ Crash

Spec == Init /\ [][Next]_vars

-----------------------------------------------------------------------------
(* Properties                                                              *)

\* The types; the header of the journal never counts records it does not have.
TypeOK ==
    /\ env \in Environments
    /\ disk \in [Pages -> Keys]
    /\ journal \in [logged : 0..NPages, synced : 0..NPages, key : Keys, exists : BOOLEAN]
    /\ journal.synced <= journal.logged
    /\ pc \in {"closed", "playback", "check", "open", "loop", "commit", "rollback"}
    /\ readKey \in Keys /\ writeKey \in Keys
    /\ n \in 1..(NPages + 1)
    /\ dirty \subseteq Pages
    /\ dbmod \in BOOLEAN /\ damaged \in BOOLEAN /\ dropped \in BOOLEAN
    /\ result \in {"idle", "pending", "ok", "error"}
    /\ crashes \in 0..MaxCrashes /\ faults \in 0..MaxFaults /\ rekeys \in 0..MaxRekeys

\* A new connection with this credential gets the whole file.
Recovers(cred) ==
    LET key == Key(cred, disk[1].salt)
    IN  /\ ~damaged
        /\ journal.synced > 0 => journal.key = key
        /\ \A i \in Pages : i <= journal.synced \/ disk[i] = key

\* At no point of a rekey, of its rollback or of a recovery does a crash or an
\* error leave a file that neither credential opens (the journal written with the
\* read key, sqlite3mcCodec), unless the journal was dropped by a connection whose
\* cipher cannot tell a wrong key.
NeverStranded == dropped \/ Recovers(Old) \/ Recovers(New)

\* The pager's invariant (7): whatever happens before the commit, rolling back
\* the journal brings back the file of the beginning of the transaction.
RollbackRestores == journal.exists => Recovers(Old)

\* What pager_playback says of its end: after the playback of a hot journal the file
\* is back in the state before the transaction.
PlaybackRestores == dropped => Recovers(Old)

\* A rekey that reports an error leaves the file to the old key.
ErrorKeepsOldKey == result = "error" => Recovers(Old)

\* The environments in which the code can be atomic: a rollback by the connection
\* that rekeys writes with the new key, and a connection whose cipher does not
\* authenticate drops the journal of another key.
Atomic == env.faults \cap {"read", "commit"} = {} /\ New \in env.mac

\* There PRAGMA rekey implements the switch: until the journal is deleted the file
\* has the old key, and from then on the new one; the caller is told which.
Promise == INSTANCE KeySwitch
             WITH key <- IF Atomic /\ ~Recovers(Old) THEN New ELSE Old,
                  status <- IF Atomic THEN result ELSE "idle"
AtomicSwitch == Promise!Spec
=============================================================================
