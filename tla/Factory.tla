---------------------------------- MODULE Factory ----------------------------------
(***************************************************************************)
(* SQLiteMCDriver.Factory: create(key) and create(key, rekey) of several   *)
(* factories on one database file, concurrent calls, encryption migrations, *)
(* cancellation, failures and restarts of the process.                     *)
(*                                                                         *)
(* The file is what its pages are written with: a configuration and a key. *)
(* That the driver's statements really leave the file with the credentials *)
(* they name is the subject of KeyConnection; that PRAGMA rekey is atomic  *)
(* is the subject of Rekey.  Here it is one step.                          *)
(*                                                                         *)
(* Variables epoch, basis, wrote and trouble are history: no action reads  *)
(* them to decide what to do.                                              *)
(***************************************************************************)
EXTENDS Integers, Sequences, FiniteSets

CONSTANTS
    Factories, Calls,
    Configs,        \* encryption configurations, each with a scheme of its own
    NoConfig,       \* the scheme of a file that is not encrypted
    NoFile,         \* the scheme of a file that does not exist yet
    Keys, EmptyKey, \* keys of create; Key.Empty is one of them
    NoKey,          \* rekey = null
    Current,        \* [Factories -> Configs]: FilesystemConfig.encryptionConfig
    Migrations,     \* [Factories -> Seq(Configs)]: encryptionMigrationConfig
    Accepts,        \* [Configs -> SUBSET Keys]: raw keys suit only some ciphers
    Compatible,     \* pairs of configurations whose page sizes allow a rekey
    Requests,       \* the calls an application makes: [factory, key, rekey]
    MaxCrashes, MaxFaults

Credential == [config : Configs \cup {NoConfig, NoFile}, key : Keys]
Absent == [config |-> NoFile, key |-> EmptyKey]
Cred(c, k) == [config |-> IF k = EmptyKey THEN NoConfig ELSE c, key |-> k]

ASSUME FactoryAssumptions ==
    /\ EmptyKey \in Keys /\ NoKey \notin Keys
    /\ NoConfig \notin Configs /\ NoFile \notin Configs /\ NoConfig # NoFile
    /\ Current \in [Factories -> Configs]
    /\ Migrations \in [Factories -> Seq(Configs)]
    /\ Accepts \in [Configs -> SUBSET Keys]
    /\ Compatible \subseteq Configs \X Configs
    /\ Requests \subseteq [factory : Factories, key : Keys, rekey : Keys \cup {NoKey}]
    /\ MaxCrashes \in Nat /\ MaxFaults \in Nat

VARIABLES
    file,        \* the credentials the file is written with
    hasOpened,   \* Factory.hasOpened
    pc, args,    \* where each call is, and what it was called with
    attempt,     \* 0: current configuration; j > 0: j-th migration, newest first
    held,        \* credentials of the pragmas that the connections of a call use
    cancelled,   \* the coroutine of the caller was cancelled
    outcome,     \* what the caller got
    crashes, faults,
    epoch,       \* history: number of times the credentials changed
    basis,       \* history: the epoch up to which a call caused every change
    wrote,       \* history: the call changed the credentials of the file
    trouble      \* history: a fault hit the call

call == << pc, args, attempt, held, cancelled, outcome >>
history == << epoch, basis, wrote, trouble >>
vars == << file, hasOpened, call, crashes, faults, history >>

Running == {"attempt", "verify", "rekey", "schema", "opened", "failed"}

\* A connection with these pragmas reads the file; a new file takes any key.
Opens(cred) == file = Absent \/ file = cred

-----------------------------------------------------------------------------
(* What the attempts of a call use                                         *)

MigrationsOf(c) == Migrations[args[c].factory]
CurrentOf(c) == Current[args[c].factory]

\* migrations.reversed()
AttemptConfig(c) ==
    IF attempt[c] = 0 THEN CurrentOf(c)
    ELSE MigrationsOf(c)[Len(MigrationsOf(c)) + 1 - attempt[c]]

\* rekey ?: key
Target(c) == IF args[c].rekey = NoKey THEN args[c].key ELSE args[c].rekey

\* The rekey pragma of this attempt: a migration always has one.
AttemptRekey(c) == IF attempt[c] = 0 THEN args[c].rekey ELSE Target(c)

-----------------------------------------------------------------------------
Init ==
    /\ file \in {Absent} \cup {Cred(c, k) : c \in Configs, k \in Keys}
    /\ hasOpened = [f \in Factories |-> FALSE]
    /\ pc = [c \in Calls |-> "idle"]
    /\ args \in [Calls -> Requests]
    /\ attempt = [c \in Calls |-> 0]
    /\ held = [c \in Calls |-> Absent]
    /\ cancelled = [c \in Calls |-> FALSE]
    /\ outcome = [c \in Calls |-> "none"]
    /\ crashes = 0 /\ faults = 0
    /\ epoch = 0
    /\ basis = [c \in Calls |-> 0]
    /\ wrote = [c \in Calls |-> FALSE]
    /\ trouble = [c \in Calls |-> FALSE]

Goto(c, from, to) == pc[c] = from /\ pc' = [pc EXCEPT ![c] = to]

\* The call ends.  A cancelled caller gets the CancellationException whatever
\* the block did (withContext resumes it cancellably).
Finish(c, result) ==
    /\ pc' = [pc EXCEPT ![c] = "done"]
    /\ outcome' = [outcome EXCEPT ![c] = IF cancelled[c] THEN "cancelled" ELSE result]

Busy(f) == \E d \in Calls : args[d].factory = f /\ pc[d] \in Running

-----------------------------------------------------------------------------
(* Steps of a call                                                         *)

\* create: withContext(dispatcher) queues the block.
Create(c) ==
    /\ Goto(c, "idle", "queued")
    /\ UNCHANGED << file, hasOpened, args, attempt, held, cancelled, outcome,
                    crashes, faults, history >>

\* Mutation: the dispatcher runs the calls of a factory in parallel.
StartParallel(c) ==
    /\ Goto(c, "queued", "attempt")
    /\ basis' = [basis EXCEPT ![c] = epoch]
    /\ UNCHANGED << file, hasOpened, args, attempt, held, cancelled, outcome,
                    crashes, faults, epoch, wrote, trouble >>

\* The dispatcher of a factory has a parallelism of one.
Start(c) ==
    /\ ~Busy(args[c].factory)
    /\ Goto(c, "queued", "attempt")
    /\ basis' = [basis EXCEPT ![c] = epoch]
    /\ UNCHANGED << file, hasOpened, args, attempt, held, cancelled, outcome,
                    crashes, faults, epoch, wrote, trouble >>

KeysAccepted(c) ==
    /\ args[c].key \in Accepts[AttemptConfig(c)]
    /\ AttemptRekey(c) # NoKey => AttemptRekey(c) \in Accepts[CurrentOf(c)]

\* applyPragmas and applyKeyPragma: Key.retrieveFormatted throws an
\* IllegalArgumentException for a raw key the cipher does not support, which
\* createActual does not catch and attemptUpgrade does.
BuildPragmas(c) ==
    /\ pc[c] = "attempt"
    /\ held' = [held EXCEPT ![c] = Cred(AttemptConfig(c), args[c].key)]
    /\ \/ KeysAccepted(c) /\ Goto(c, "attempt", "verify") /\ UNCHANGED outcome
       \/ ~KeysAccepted(c) /\ attempt[c] = 0 /\ Finish(c, "illegal_argument")
       \/ ~KeysAccepted(c) /\ attempt[c] > 0 /\ Goto(c, "attempt", "failed")
          /\ UNCHANGED outcome
    /\ UNCHANGED << file, hasOpened, args, attempt, cancelled, crashes, faults, history >>

\* The first read of the connection, after the key statements.
Verify(c) ==
    /\ pc[c] = "verify"
    /\ pc' = [pc EXCEPT ![c] = IF ~Opens(held[c]) THEN "failed"
                               ELSE IF AttemptRekey(c) # NoKey THEN "rekey"
                               ELSE "schema"]
    /\ UNCHANGED << file, hasOpened, args, attempt, held, cancelled, outcome,
                    crashes, faults, history >>

\* The credentials of the file change; call c caused it.
Rewrite(c, cred) ==
    /\ file' = cred
    /\ epoch' = IF cred = file THEN epoch ELSE epoch + 1
    /\ basis' = IF basis[c] = epoch THEN [basis EXCEPT ![c] = epoch'] ELSE basis
    /\ wrote' = [wrote EXCEPT ![c] = @ \/ (file # Absent /\ cred # file)]

RekeyPossible(c) ==
    \/ file = Absent
    \/ AttemptRekey(c) = EmptyKey
    \/ held[c].key = EmptyKey
    \/ << AttemptConfig(c), CurrentOf(c) >> \in Compatible

\* Mutation: the old pragmas are kept after a successful rekey.
DoRekeyNoSwap(c) ==
    /\ pc[c] = "rekey"
    /\ \/ /\ Opens(held[c]) /\ RekeyPossible(c)
          /\ Rewrite(c, IF file = Absent THEN file
                        ELSE Cred(CurrentOf(c), AttemptRekey(c)))
          /\ Goto(c, "rekey", "opened")
          /\ UNCHANGED << held, trouble >>
       \/ /\ ~(Opens(held[c]) /\ RekeyPossible(c))
          /\ Goto(c, "rekey", "failed")
          /\ UNCHANGED << file, held, history >>
    /\ UNCHANGED << hasOpened, args, attempt, cancelled, outcome, crashes, faults >>

\* Mutation: the rekey trusts what Verify saw.
DoRekeyStale(c) ==
    /\ pc[c] = "rekey"
    /\ LET new == Cred(CurrentOf(c), AttemptRekey(c))
       IN  \/ /\ RekeyPossible(c)
              /\ Rewrite(c, IF file = Absent THEN file ELSE new)
              /\ held' = [held EXCEPT ![c] = new]
              /\ Goto(c, "rekey", "schema")
              /\ UNCHANGED trouble
           \/ /\ ~RekeyPossible(c)
              /\ Goto(c, "rekey", "failed")
              /\ UNCHANGED << file, held, history >>
    /\ UNCHANGED << hasOpened, args, attempt, cancelled, outcome, crashes, faults >>

\* PRAGMA rekey.  The connection reads page 1 again, so it notices when another
\* call changed the file after Verify.  On success the driver forgets the old
\* pragmas: later connections use the current configuration and the new key.
DoRekey(c) ==
    /\ pc[c] = "rekey"
    /\ LET new == Cred(CurrentOf(c), AttemptRekey(c))
       IN  \/ /\ Opens(held[c]) /\ RekeyPossible(c)
              /\ Rewrite(c, IF file = Absent THEN file ELSE new)
              /\ held' = [held EXCEPT ![c] = new]
              /\ Goto(c, "rekey", "schema")
              /\ UNCHANGED trouble
           \/ /\ ~(Opens(held[c]) /\ RekeyPossible(c))
              /\ Goto(c, "rekey", "failed")
              /\ UNCHANGED << file, held, history >>
    /\ UNCHANGED << hasOpened, args, attempt, cancelled, outcome, crashes, faults >>

\* The schema of a new file is created, of an old one migrated, on connections
\* that read the file with the pragmas now held.
DoSchema(c) ==
    /\ pc[c] = "schema"
    /\ \/ /\ Opens(held[c])
          /\ Rewrite(c, held[c])
          /\ Goto(c, "schema", "opened")
          /\ UNCHANGED trouble
       \/ /\ ~Opens(held[c])
          /\ Goto(c, "schema", "failed")
          /\ UNCHANGED << file, history >>
    /\ UNCHANGED << hasOpened, args, attempt, held, cancelled, outcome, crashes, faults >>

\* An I/O error, a lock held by others or an exception of the application's
\* schema ends the attempt with an IllegalStateException.
Fault(c) ==
    /\ pc[c] \in {"verify", "rekey", "schema"}
    /\ faults < MaxFaults
    /\ faults' = faults + 1
    /\ trouble' = [trouble EXCEPT ![c] = TRUE]
    /\ pc' = [pc EXCEPT ![c] = "failed"]
    /\ UNCHANGED << file, hasOpened, args, attempt, held, cancelled, outcome, crashes,
                    epoch, basis, wrote >>

\* Mutation: the last declared migration is never tried.
MoreAttemptsOneLess(c) ==
    /\ attempt[c] + 1 < Len(MigrationsOf(c))
    /\ attempt[c] = 0 => ~hasOpened[args[c].factory]

\* Mutation: the loop over the migrations has no end.
MoreAttemptsForever(c) == attempt[c] = 0 => ~hasOpened[args[c].factory]

\* The catch blocks of createActual and attemptUpgrade.
MoreAttempts(c) ==
    /\ attempt[c] < Len(MigrationsOf(c))
    /\ attempt[c] = 0 => ~hasOpened[args[c].factory]

\* Mutation: the same attempt is made again.
AttemptFailedRetry(c) ==
    /\ pc[c] = "failed"
    /\ \/ /\ MoreAttempts(c)
          /\ Goto(c, "failed", "attempt")
          /\ UNCHANGED << attempt, outcome >>
       \/ /\ ~MoreAttempts(c)
          /\ Finish(c, "illegal_state")
          /\ UNCHANGED attempt
    /\ UNCHANGED << file, hasOpened, args, held, cancelled, crashes, faults, history >>

AttemptFailed(c) ==
    /\ pc[c] = "failed"
    /\ \/ /\ MoreAttempts(c)
          /\ attempt' = [attempt EXCEPT ![c] = @ + 1]
          /\ Goto(c, "failed", "attempt")
          /\ UNCHANGED outcome
       \/ /\ ~MoreAttempts(c)
          /\ Finish(c, "illegal_state")
          /\ UNCHANGED attempt
    /\ UNCHANGED << file, hasOpened, args, held, cancelled, crashes, faults, history >>

\* The driver is built, hasOpened is set and the block returns.
Return(c) ==
    /\ pc[c] = "opened"
    /\ hasOpened' = [hasOpened EXCEPT ![args[c].factory] = TRUE]
    /\ Finish(c, "driver")
    /\ UNCHANGED << file, args, attempt, held, cancelled, crashes, faults, history >>

\* The caller's coroutine is cancelled: a queued block never runs, a running
\* one is not interrupted.
Cancel(c) ==
    /\ pc[c] \in {"queued"} \cup Running /\ ~cancelled[c]
    /\ cancelled' = [cancelled EXCEPT ![c] = TRUE]
    /\ \/ pc[c] = "queued" /\ pc' = [pc EXCEPT ![c] = "done"]
          /\ outcome' = [outcome EXCEPT ![c] = "cancelled"]
       \/ pc[c] \in Running /\ UNCHANGED << pc, outcome >>
    /\ UNCHANGED << file, hasOpened, args, attempt, held, crashes, faults, history >>

\* The process dies; the next one has new factories on the same file.
Crash ==
    /\ crashes < MaxCrashes
    /\ crashes' = crashes + 1
    /\ hasOpened' = [f \in Factories |-> FALSE]
    /\ LET lost == {c \in Calls : pc[c] # "idle" /\ pc[c] # "done"}
       IN  /\ pc' = [c \in Calls |-> IF c \in lost THEN "done" ELSE pc[c]]
           /\ outcome' = [c \in Calls |-> IF c \in lost THEN "crashed" ELSE outcome[c]]
    /\ UNCHANGED << file, args, attempt, held, cancelled, faults, history >>

Step(c) ==
    \/ Start(c) \/ BuildPragmas(c) \/ Verify(c) \/ DoRekey(c) \/ DoSchema(c)
    \/ AttemptFailed(c) \/ Return(c)

Next ==
    \/ \E c \in Calls : Create(c) \/ Step(c) \/ Fault(c) \/ Cancel(c)
    \/ Crash

\* The dispatcher's thread keeps running the blocks it has; callers, faults and
\* crashes come when they come.
Spec == Init /\ [][Next]_vars /\ \A c \in Calls : WF_vars(Step(c))

-----------------------------------------------------------------------------
(* Properties                                                              *)

Outcomes == {"none", "driver", "illegal_state", "illegal_argument", "cancelled", "crashed"}

TypeOK ==
    /\ file \in Credential
    /\ hasOpened \in [Factories -> BOOLEAN]
    /\ pc \in [Calls -> {"idle", "queued", "done"} \cup Running]
    /\ args \in [Calls -> Requests]
    /\ attempt \in [Calls -> Nat]
    /\ \A c \in Calls : attempt[c] <= Len(MigrationsOf(c))
    /\ held \in [Calls -> Credential]
    /\ cancelled \in [Calls -> BOOLEAN]
    /\ outcome \in [Calls -> Outcomes]
    /\ crashes \in 0..MaxCrashes /\ faults \in 0..MaxFaults
    /\ epoch \in Nat /\ basis \in [Calls -> Nat]
    /\ wrote \in [Calls -> BOOLEAN] /\ trouble \in [Calls -> BOOLEAN]

\* Once a factory has opened its database, no call of it is trying a migration
\* (hasOpened; RekeyTest: "Any further openings ... should not have attempted
\* any migrations").  It takes the one-at-a-time dispatcher as well: hasOpened
\* is read once, before the first migration.
NoLateMigration ==
    \A c \in Calls : pc[c] \in Running /\ attempt[c] > 0 =>
                       ~hasOpened[args[c].factory]

\* Nobody else changed the credentials of the file since the call started.
Undisturbed(c) == basis[c] = epoch

\* A driver that was handed out holds the current configuration and rekey, or
\* key without one, and its connections keep opening the file until another
\* call changes the credentials, however many attempts it took to open it.
DriverOpensFile ==
    \A c \in Calls : outcome[c] = "driver" =>
        /\ held[c] = Cred(CurrentOf(c), Target(c))
        /\ Undisturbed(c) => file = held[c]

\* The configuration of attempt j, and why the attempt cannot succeed.
ConfigOfAttempt(c, j) ==
    IF j = 0 THEN CurrentOf(c) ELSE MigrationsOf(c)[Len(MigrationsOf(c)) + 1 - j]

RekeyOfAttempt(c, j) == IF j = 0 THEN args[c].rekey ELSE Target(c)

Refused(c, j) ==
    \/ args[c].key \notin Accepts[ConfigOfAttempt(c, j)]
    \/ RekeyOfAttempt(c, j) # NoKey
          /\ RekeyOfAttempt(c, j) \notin Accepts[CurrentOf(c)]
    \/ ~Opens(Cred(ConfigOfAttempt(c, j), args[c].key))
    \/ /\ RekeyOfAttempt(c, j) \notin {NoKey, EmptyKey}
       /\ args[c].key # EmptyKey
       /\ << ConfigOfAttempt(c, j), CurrentOf(c) >> \notin Compatible

\* The attempts a failed call must have made: all of them, unless its factory had
\* opened the file before (a crash clears that flag).
Due(c) ==
    IF attempt[c] > 0 \/ (crashes = 0 /\ ~hasOpened[args[c].factory])
    THEN 0..Len(MigrationsOf(c)) ELSE {0}

\* IllegalStateException means what it says: unless a fault or another call
\* interfered, the file opens neither with the current configuration nor, when
\* migrations were due, with any of them, and it was left as it was.
HonestFailure ==
    \A c \in Calls :
        outcome[c] = "illegal_state" /\ ~trouble[c] /\ Undisturbed(c) =>
            /\ ~wrote[c]
            /\ \A j \in Due(c) : Refused(c, j)

\* The credentials of an existing file change only in a call that can read it
\* at that moment, only to the configuration of its factory and the key it was
\* asked for, and without a rekey only in a migration, which keeps the key.
CredentialsChangeOnRequest ==
    [][file # Absent /\ file' # file =>
         \E c \in Calls :
            /\ pc[c] = "rekey" /\ file = held[c]
            /\ file' = Cred(CurrentOf(c), Target(c))
            /\ args[c].rekey = NoKey =>
                  /\ file'.key = file.key
                  /\ attempt[c] > 0 /\ ~hasOpened[args[c].factory]]_vars

\* Every call that was queued ends.
EveryCallEnds == \A c \in Calls : pc[c] = "queued" ~> pc[c] = "done"
=============================================================================
