------------------------------- MODULE FactoryProofs -------------------------------
(* What Factory guarantees for any number of factories, calls, configurations, *)
(* migrations, keys, faults and crashes.                                       *)
EXTENDS Factory, TLAPS

(***************************************************************************)
(* The inductive invariant.  TypeOK, NoLateMigration, DriverOpensFile and  *)
(* HonestFailure are about ends of calls; what carries them there is what  *)
(* a call in the middle knows about its own credentials and the file.      *)
(***************************************************************************)
RekeyRequested == \A c \in Calls : pc[c] = "rekey" => AttemptRekey(c) # NoKey

Fresh == \A c \in Calls : pc[c] \in {"idle", "queued"} => attempt[c] = 0 /\ ~wrote[c]

Ended == \A c \in Calls : outcome[c] \in {"driver", "illegal_state"} => pc[c] = "done"

OneAtATime ==
    \A c, d \in Calls :
        /\ pc[c] \in Running /\ pc[d] \in Running
        /\ args[c].factory = args[d].factory
        => c = d

HeldCredentials ==
    \A c \in Calls :
        /\ pc[c] \in {"verify", "rekey"} =>
              held[c] = Cred(AttemptConfig(c), args[c].key)
        /\ pc[c] \in {"schema", "opened"} \/ outcome[c] = "driver" =>
              held[c] = Cred(CurrentOf(c), Target(c))

StillOpens ==
    \A c \in Calls :
        /\ basis[c] <= epoch
        /\ Undisturbed(c) /\ pc[c] \in {"rekey", "schema"} => Opens(held[c])
        /\ Undisturbed(c) /\ (pc[c] = "opened" \/ outcome[c] = "driver") =>
              file = held[c]

\* While a call looks for a configuration that opens the file, it has not
\* changed the file and every earlier attempt was rightly refused.
Looking(c) == pc[c] \in {"attempt", "verify", "rekey", "failed"}

RefusedSoFar ==
    \A c \in Calls : Undisturbed(c) /\ ~trouble[c] =>
        /\ Looking(c) => ~wrote[c] /\ \A j \in 0..(attempt[c] - 1) : Refused(c, j)
        /\ pc[c] = "failed" => Refused(c, attempt[c])
        /\ outcome[c] = "illegal_state" =>
              ~wrote[c] /\ \A j \in 0..attempt[c] : Refused(c, j)

AllTried ==
    \A c \in Calls : outcome[c] = "illegal_state" =>
        \/ attempt[c] = Len(MigrationsOf(c))
        \/ attempt[c] = 0 /\ (hasOpened[args[c].factory] \/ crashes > 0)

IInv ==
    /\ TypeOK /\ RekeyRequested /\ Fresh /\ Ended
    /\ OneAtATime /\ NoLateMigration
    /\ HeldCredentials /\ StillOpens
    /\ RefusedSoFar /\ AllTried

Quiet == UNCHANGED vars

\* The disjuncts of a step, one fact per operation.
LEMMA NextCases ==
    ASSUME [Next]_vars
    PROVE  \/ \E c \in Calls : Create(c)
           \/ \E c \in Calls : Start(c)
           \/ \E c \in Calls : BuildPragmas(c)
           \/ \E c \in Calls : Verify(c)
           \/ \E c \in Calls : DoRekey(c)
           \/ \E c \in Calls : DoSchema(c)
           \/ \E c \in Calls : Fault(c)
           \/ \E c \in Calls : AttemptFailed(c)
           \/ \E c \in Calls : Return(c)
           \/ \E c \in Calls : Cancel(c)
           \/ Crash
           \/ Quiet
  BY DEF Next, Step, Quiet

\* The request of a call, and the credentials its attempts use, are well typed:
\* the migration of attempt j exists because attempts are counted up to Len.
LEMMA AttemptTypes ==
    ASSUME TypeOK, NEW c \in Calls
    PROVE  /\ args[c].factory \in Factories
           /\ args[c].key \in Keys
           /\ args[c].rekey \in Keys \cup {NoKey}
           /\ CurrentOf(c) \in Configs
           /\ MigrationsOf(c) \in Seq(Configs)
           /\ Len(MigrationsOf(c)) \in Nat
           /\ AttemptConfig(c) \in Configs
           /\ Target(c) \in Keys
           /\ AttemptRekey(c) \in Keys \cup {NoKey}
  <1>1. args[c] \in [factory : Factories, key : Keys, rekey : Keys \cup {NoKey}]
    BY FactoryAssumptions DEF TypeOK
  <1>2. CurrentOf(c) \in Configs /\ MigrationsOf(c) \in Seq(Configs)
    BY <1>1, FactoryAssumptions DEF CurrentOf, MigrationsOf
  <1>3. attempt[c] \in Nat /\ attempt[c] <= Len(MigrationsOf(c))
    BY DEF TypeOK
  <1>4. AttemptConfig(c) \in Configs
    BY <1>2, <1>3 DEF AttemptConfig
  <1>5. Target(c) \in Keys /\ AttemptRekey(c) \in Keys \cup {NoKey}
    BY <1>1 DEF Target, AttemptRekey
  <1> QED
    BY <1>1, <1>2, <1>4, <1>5

LEMMA CredType ==
    ASSUME NEW f \in Configs, NEW k \in Keys
    PROVE  Cred(f, k) \in Credential
  BY DEF Cred, Credential

LEMMA CredKey == \A f, k : Cred(f, k).key = k
  BY DEF Cred

\* No step changes the request of a call, nor what follows from it alone.
LEMMA RequestFixed ==
    ASSUME [Next]_vars
    PROVE  /\ args' = args
           /\ \A c \in Calls : /\ MigrationsOf(c)' = MigrationsOf(c)
                               /\ CurrentOf(c)' = CurrentOf(c)
                               /\ Target(c)' = Target(c)
  <1>1. args' = args
    BY NextCases DEF Create, Start, BuildPragmas, Verify, DoRekey, DoSchema, Fault,
         AttemptFailed, Return, Cancel, Crash, Quiet, vars, call
  <1> QED
    BY <1>1 DEF MigrationsOf, CurrentOf, Target

\* A call that stays in its attempt keeps what it opens the file with.
LEMMA AttemptFixed ==
    ASSUME [Next]_vars, NEW c \in Calls, attempt'[c] = attempt[c]
    PROVE  /\ AttemptConfig(c)' = AttemptConfig(c)
           /\ AttemptRekey(c)' = AttemptRekey(c)
  BY RequestFixed DEF AttemptConfig, AttemptRekey

\* Whether an attempt is refused depends on the request and the file only.
LEMMA RefusedFixed ==
    ASSUME [Next]_vars, file' = file, NEW c \in Calls, NEW j
    PROVE  Refused(c, j)' <=> Refused(c, j)
  <1>1. /\ args' = args
        /\ ConfigOfAttempt(c, j)' = ConfigOfAttempt(c, j)
        /\ RekeyOfAttempt(c, j)' = RekeyOfAttempt(c, j)
        /\ CurrentOf(c)' = CurrentOf(c)
    BY RequestFixed DEF ConfigOfAttempt, RekeyOfAttempt
  <1> QED
    BY <1>1 DEF Refused, Opens

\* An attempt that has a rekey changes the file to what the caller asked for.
LEMMA RekeyIsTarget ==
    ASSUME TypeOK, NEW c \in Calls
    PROVE  /\ AttemptRekey(c) # NoKey => AttemptRekey(c) = Target(c)
           /\ AttemptRekey(c) = NoKey =>
                 /\ attempt[c] = 0 /\ args[c].rekey = NoKey
                 /\ AttemptConfig(c) = CurrentOf(c) /\ Target(c) = args[c].key
  BY AttemptTypes, FactoryAssumptions DEF AttemptRekey, Target, AttemptConfig

-----------------------------------------------------------------------------
(* Type correctness                                                        *)

LEMMA TypeInit == Init => TypeOK
  <1> SUFFICES ASSUME Init PROVE TypeOK
    OBVIOUS
  <1>1. file \in Credential /\ Absent \in Credential
    BY CredType, FactoryAssumptions DEF Init, Absent, Credential
  <1>2. \A c \in Calls : attempt[c] = 0 /\ MigrationsOf(c) \in Seq(Configs)
    BY FactoryAssumptions DEF Init, MigrationsOf
  <1> QED
    BY <1>1, <1>2, FactoryAssumptions DEF Init, TypeOK, Running, Outcomes

\* Rewrite keeps the types of what it changes.
LEMMA RewriteType ==
    ASSUME TypeOK, NEW c \in Calls, NEW cred \in Credential, Rewrite(c, cred)
    PROVE  /\ file' \in Credential
           /\ epoch' \in Nat
           /\ basis' \in [Calls -> Nat]
           /\ wrote' \in [Calls -> BOOLEAN]
  BY DEF TypeOK, Rewrite

LEMMA TypeStep == TypeOK /\ RekeyRequested /\ [Next]_vars => TypeOK'
  <1> SUFFICES ASSUME TypeOK, RekeyRequested, [Next]_vars PROVE TypeOK'
    OBVIOUS
  <1>0. \A c \in Calls : MigrationsOf(c)' = MigrationsOf(c)
    BY RequestFixed
  <1>1. CASE \E c \in Calls : Create(c)
    BY <1>0, <1>1 DEF TypeOK, Create, Goto, history, Running
  <1>2. CASE \E c \in Calls : Start(c)
    BY <1>0, <1>2 DEF TypeOK, Start, Goto, Running
  <1>3. CASE \E c \in Calls : BuildPragmas(c)
    <2> PICK c \in Calls : BuildPragmas(c)
      BY <1>3
    <2>1. Cred(AttemptConfig(c), args[c].key) \in Credential
      BY AttemptTypes, CredType
    <2>2. held' \in [Calls -> Credential]
      BY <2>1 DEF BuildPragmas, TypeOK
    <2>3. /\ pc' \in [Calls -> {"idle", "queued", "done"} \cup Running]
          /\ outcome' \in [Calls -> Outcomes]
      BY DEF BuildPragmas, Goto, Finish, Running, Outcomes, TypeOK
    <2> QED
      BY <1>0, <2>2, <2>3 DEF BuildPragmas, history, TypeOK
  <1>4. CASE \E c \in Calls : Verify(c)
    BY <1>0, <1>4 DEF TypeOK, Verify, history, Running
  <1>5. CASE \E c \in Calls : DoRekey(c)
    <2> PICK c \in Calls : DoRekey(c)
      BY <1>5
    <2> DEFINE new == Cred(CurrentOf(c), AttemptRekey(c))
    <2>1. pc' \in [Calls -> {"idle", "queued", "done"} \cup Running]
      BY DEF DoRekey, Goto, Running, TypeOK
    <2>2. CASE Opens(held[c]) /\ RekeyPossible(c)
      <3>1. AttemptRekey(c) \in Keys /\ CurrentOf(c) \in Configs
        BY AttemptTypes DEF DoRekey, RekeyRequested
      <3>2. new \in Credential /\ (IF file = Absent THEN file ELSE new) \in Credential
        BY <3>1, CredType DEF TypeOK
      <3>3. /\ Rewrite(c, IF file = Absent THEN file ELSE new)
            /\ held' = [held EXCEPT ![c] = new]
            /\ UNCHANGED trouble
        BY <2>2 DEF DoRekey
      <3> HIDE DEF new
      <3>4. /\ file' \in Credential /\ epoch' \in Nat
            /\ basis' \in [Calls -> Nat] /\ wrote' \in [Calls -> BOOLEAN]
        BY <3>2, <3>3, RewriteType
      <3> QED
        BY <1>0, <2>1, <3>2, <3>3, <3>4 DEF DoRekey, TypeOK
    <2>3. CASE ~(Opens(held[c]) /\ RekeyPossible(c))
      BY <1>0, <2>1, <2>3 DEF DoRekey, history, TypeOK
    <2> QED
      BY <2>2, <2>3
  <1>6. CASE \E c \in Calls : DoSchema(c)
    <2> PICK c \in Calls : DoSchema(c)
      BY <1>6
    <2>1. pc' \in [Calls -> {"idle", "queued", "done"} \cup Running]
      BY DEF DoSchema, Goto, Running, TypeOK
    <2>2. CASE Opens(held[c])
      <3>1. held[c] \in Credential /\ Rewrite(c, held[c]) /\ UNCHANGED trouble
        BY <2>2 DEF DoSchema, TypeOK
      <3>2. /\ file' \in Credential /\ epoch' \in Nat
            /\ basis' \in [Calls -> Nat] /\ wrote' \in [Calls -> BOOLEAN]
        BY <3>1, RewriteType
      <3> QED
        BY <1>0, <2>1, <3>1, <3>2 DEF DoSchema, TypeOK
    <2>3. CASE ~Opens(held[c])
      BY <1>0, <2>1, <2>3 DEF DoSchema, history, TypeOK
    <2> QED
      BY <2>2, <2>3
  <1>7. CASE \E c \in Calls : Fault(c)
    BY <1>0, <1>7, FactoryAssumptions DEF TypeOK, Fault, Running
  <1>8. CASE \E c \in Calls : AttemptFailed(c)
    <2> PICK c \in Calls : AttemptFailed(c)
      BY <1>8
    <2>1. /\ pc' \in [Calls -> {"idle", "queued", "done"} \cup Running]
          /\ outcome' \in [Calls -> Outcomes]
      BY DEF AttemptFailed, Goto, Finish, Running, Outcomes, TypeOK
    <2>2. Len(MigrationsOf(c)) \in Nat
      BY AttemptTypes
    <2>3. /\ attempt' \in [Calls -> Nat]
          /\ \A d \in Calls : attempt'[d] <= Len(MigrationsOf(d))
      <3>1. CASE MoreAttempts(c)
        <4>1. /\ attempt' = [attempt EXCEPT ![c] = @ + 1]
              /\ attempt[c] < Len(MigrationsOf(c))
          BY <3>1 DEF AttemptFailed, MoreAttempts
        <4> QED
          BY <2>2, <4>1 DEF TypeOK
      <3>2. CASE ~MoreAttempts(c)
        BY <3>2 DEF AttemptFailed, TypeOK
      <3> QED
        BY <3>1, <3>2
    <2> QED
      BY <1>0, <2>1, <2>3 DEF AttemptFailed, history, TypeOK
  <1>9. CASE \E c \in Calls : Return(c)
    BY <1>0, <1>9 DEF TypeOK, Return, Finish, history, Outcomes
  <1>10. CASE \E c \in Calls : Cancel(c)
    BY <1>0, <1>10 DEF TypeOK, Cancel, history, Outcomes
  <1>11. CASE Crash
    BY <1>0, <1>11, FactoryAssumptions DEF TypeOK, Crash, history, Outcomes
  <1>12. CASE Quiet
    BY <1>0, <1>12 DEF TypeOK, Quiet, vars, call, history
  <1> QED
    BY <1>1, <1>2, <1>3, <1>4, <1>5, <1>6, <1>7, <1>8, <1>9, <1>10, <1>11, <1>12,
       NextCases

-----------------------------------------------------------------------------
(* What a call in the middle knows                                         *)

LEMMA RekeyRequestedStep == IInv /\ [Next]_vars => RekeyRequested'
  <1> SUFFICES ASSUME IInv, [Next]_vars, NEW d \in Calls, pc'[d] = "rekey"
               PROVE  AttemptRekey(d)' # NoKey
    BY DEF RekeyRequested
  <1>1. TypeOK /\ RekeyRequested
    BY DEF IInv
  <1>2. /\ attempt'[d] = attempt[d]
        /\ pc[d] = "rekey" \/ (pc[d] = "verify" /\ AttemptRekey(d) # NoKey)
    BY <1>1, NextCases DEF TypeOK, Running, Create, Start, BuildPragmas, Verify, DoRekey,
         DoSchema, Fault, AttemptFailed, Return, Cancel, Crash, Quiet, Goto, Finish,
         vars, call
  <1> QED
    BY <1>1, <1>2, AttemptFixed DEF RekeyRequested

LEMMA FreshStep == IInv /\ [Next]_vars => Fresh'
  <1> SUFFICES ASSUME IInv, [Next]_vars, NEW d \in Calls, pc'[d] \in {"idle", "queued"}
               PROVE  attempt'[d] = 0 /\ ~wrote'[d]
    BY DEF Fresh
  <1>1. TypeOK /\ Fresh
    BY DEF IInv
  <1>2. /\ pc[d] \in {"idle", "queued"}
        /\ attempt'[d] = attempt[d]
        /\ wrote'[d] = wrote[d]
    BY <1>1, NextCases DEF TypeOK, Running, Create, Start, BuildPragmas, Verify, DoRekey,
         DoSchema, Fault, AttemptFailed, Return, Cancel, Crash, Quiet, Goto, Finish,
         Rewrite, vars, call, history
  <1> QED
    BY <1>1, <1>2 DEF Fresh

LEMMA EndedStep == IInv /\ [Next]_vars => Ended'
  <1> SUFFICES ASSUME IInv, [Next]_vars, NEW d \in Calls,
                      outcome'[d] \in {"driver", "illegal_state"}
               PROVE  pc'[d] = "done"
    BY DEF Ended
  <1>1. TypeOK /\ Ended
    BY DEF IInv
  <1> QED
    BY <1>1, NextCases DEF Ended, TypeOK, Running, Create, Start, BuildPragmas, Verify,
         DoRekey, DoSchema, Fault, AttemptFailed, Return, Cancel, Crash, Quiet, Goto,
         Finish, vars, call

\* Only Start makes a call run, and only when no other call of the factory does.
LEMMA OneAtATimeStep == IInv /\ [Next]_vars => OneAtATime'
  <1> SUFFICES ASSUME IInv, [Next]_vars, NEW c \in Calls, NEW d \in Calls,
                      pc'[c] \in Running, pc'[d] \in Running,
                      args[c].factory = args[d].factory
               PROVE  c = d
    BY RequestFixed DEF OneAtATime
  <1>1. TypeOK /\ OneAtATime
    BY DEF IInv
  <1>2. CASE \E e \in Calls : Start(e)
    BY <1>1, <1>2 DEF Start, Goto, Busy, OneAtATime, TypeOK
  <1>3. CASE ~(\E e \in Calls : Start(e))
    <2>1. ASSUME NEW e \in Calls, pc'[e] \in Running PROVE pc[e] \in Running
      BY <1>1, <1>3, <2>1, NextCases DEF TypeOK, Running, Create, BuildPragmas, Verify, DoRekey,
           DoSchema, Fault, AttemptFailed, Return, Cancel, Crash, Quiet, Goto, Finish,
           vars, call
    <2> QED
      BY <1>1, <2>1 DEF OneAtATime
  <1> QED
    BY <1>2, <1>3

\* hasOpened is read once, before the first migration; that the dispatcher runs
\* one call of a factory at a time keeps it FALSE until the call is over.
LEMMA NoLateMigrationStep == IInv /\ [Next]_vars => NoLateMigration'
  <1> SUFFICES ASSUME IInv, [Next]_vars, NEW d \in Calls,
                      pc'[d] \in Running, attempt'[d] > 0
               PROVE  ~hasOpened'[args[d].factory]
    BY RequestFixed DEF NoLateMigration
  <1>1. TypeOK /\ OneAtATime /\ NoLateMigration /\ Fresh
    BY DEF IInv
  <1>2. args[d].factory \in Factories
    BY <1>1, AttemptTypes
  <1>3. CASE \E c \in Calls : Return(c)
    <2> PICK c \in Calls : Return(c)
      BY <1>3
    <2>1. d # c /\ pc[d] \in Running /\ pc[c] \in Running /\ attempt[d] > 0
      BY <1>1 DEF Return, Finish, TypeOK, Running
    <2>2. args[d].factory # args[c].factory
      BY <1>1, <2>1 DEF OneAtATime
    <2> QED
      BY <1>1, <1>2, <2>1, <2>2 DEF Return, NoLateMigration, TypeOK
  <1>4. CASE \E c \in Calls : AttemptFailed(c)
    <2> PICK c \in Calls : AttemptFailed(c)
      BY <1>4
    <2>1. hasOpened' = hasOpened /\ pc[d] \in Running
      BY <1>1 DEF AttemptFailed, Goto, Finish, TypeOK, Running
    <2>2. CASE attempt[d] > 0
      BY <1>1, <2>1, <2>2 DEF NoLateMigration
    <2>3. CASE ~(attempt[d] > 0)
      <3>1. d = c /\ MoreAttempts(c) /\ attempt[c] = 0
        BY <1>1, <2>3 DEF AttemptFailed, TypeOK
      <3> QED
        BY <2>1, <3>1 DEF MoreAttempts
    <2> QED
      BY <2>2, <2>3
  <1>5. CASE Crash
    BY <1>2, <1>5 DEF Crash
  <1>6. CASE ~(\/ \E c \in Calls : Return(c) \/ AttemptFailed(c)
               \/ Crash)
    <2>1. /\ hasOpened' = hasOpened /\ attempt'[d] = attempt[d]
          /\ pc[d] \in Running \cup {"idle", "queued"}
      BY <1>1, <1>6, NextCases DEF TypeOK, Running, Create, Start, BuildPragmas, Verify,
           DoRekey, DoSchema, Fault, Cancel, Quiet, Goto, Finish, vars, call
    <2> QED
      BY <1>1, <2>1 DEF NoLateMigration, Fresh
  <1> QED
    BY <1>3, <1>4, <1>5, <1>6

\* The pragmas a call holds: those of its attempt until a rekey swaps them for
\* the current configuration and the new key.
LEMMA HeldCredentialsStep == IInv /\ [Next]_vars => HeldCredentials'
  <1> SUFFICES ASSUME IInv, [Next]_vars PROVE HeldCredentials'
    OBVIOUS
  <1>1. TypeOK /\ HeldCredentials /\ RekeyRequested /\ Ended
    BY DEF IInv
  <1>2. ASSUME NEW d \in Calls, pc'[d] \in {"verify", "rekey"}
        PROVE  held'[d] = Cred(AttemptConfig(d), args[d].key)' /\ attempt'[d] = attempt[d]
    <2>1. /\ attempt'[d] = attempt[d]
          /\ \/ BuildPragmas(d)
             \/ pc[d] \in {"verify", "rekey"} /\ held'[d] = held[d]
      BY <1>1, <1>2, NextCases DEF TypeOK, Running, Create, Start, BuildPragmas, Verify,
           DoRekey, DoSchema, Fault, AttemptFailed, Return, Cancel, Crash, Quiet, Goto,
           Finish, vars, call
    <2>2. held'[d] = Cred(AttemptConfig(d), args[d].key)
      BY <1>1, <2>1 DEF BuildPragmas, HeldCredentials, TypeOK
    <2>3. AttemptConfig(d)' = AttemptConfig(d) /\ args' = args
      BY <2>1, AttemptFixed, RequestFixed
    <2> QED
      BY <2>1, <2>2, <2>3 DEF Cred
  <1>3. ASSUME NEW d \in Calls, pc'[d] \in {"schema", "opened"} \/ outcome'[d] = "driver"
        PROVE  held'[d] = Cred(CurrentOf(d), Target(d))'
    <2>1. \/ Verify(d) /\ AttemptRekey(d) = NoKey
          \/ DoRekey(d) /\ held'[d] = Cred(CurrentOf(d), AttemptRekey(d))
          \/ /\ pc[d] \in {"schema", "opened"} \/ outcome[d] = "driver"
             /\ held'[d] = held[d]
      BY <1>1, <1>3, NextCases DEF TypeOK, Running, Create, Start, BuildPragmas, Verify,
           DoRekey, DoSchema, Fault, AttemptFailed, Return, Cancel, Crash, Quiet, Goto,
           Finish, Ended, vars, call
    <2>2. CASE Verify(d) /\ AttemptRekey(d) = NoKey
      <3>1. held'[d] = held[d] /\ held[d] = Cred(AttemptConfig(d), args[d].key)
        BY <1>1, <2>2 DEF Verify, HeldCredentials
      <3> QED
        BY <1>1, <2>2, <3>1, RekeyIsTarget, RequestFixed DEF Cred
    <2>3. CASE DoRekey(d) /\ held'[d] = Cred(CurrentOf(d), AttemptRekey(d))
      <3>1. AttemptRekey(d) = Target(d)
        BY <1>1, <2>3, RekeyIsTarget DEF DoRekey, RekeyRequested
      <3> QED
        BY <2>3, <3>1, RequestFixed DEF Cred
    <2>4. CASE /\ pc[d] \in {"schema", "opened"} \/ outcome[d] = "driver"
               /\ held'[d] = held[d]
      BY <1>1, <2>4, RequestFixed DEF HeldCredentials, Cred
    <2> QED
      BY <2>1, <2>2, <2>3, <2>4
  <1> QED
    BY <1>2, <1>3 DEF HeldCredentials

\* The history of the file: as long as nobody else changed the credentials, only
\* a rekey or the schema of the call itself can have changed the file.
LEMMA FileStep ==
    ASSUME IInv, [Next]_vars, NEW d \in Calls
    PROVE  /\ basis'[d] <= epoch'
           /\ Undisturbed(d)' =>
                \/ file' = file /\ (Undisturbed(d) \/ Start(d))
                \/ Undisturbed(d) /\ (DoRekey(d) \/ DoSchema(d))
  <1>1. TypeOK /\ basis[d] <= epoch
    BY DEF IInv, StillOpens
  <1>2. CASE \E c \in Calls : DoRekey(c) \/ DoSchema(c)
    <2> PICK c \in Calls : DoRekey(c) \/ DoSchema(c)
      BY <1>2
    <2>1. \/ UNCHANGED << file, epoch, basis >>
          \/ \E cred : Rewrite(c, cred)
      BY DEF DoRekey, DoSchema, history
    <2>2. CASE UNCHANGED << file, epoch, basis >>
      BY <1>1, <2>2 DEF Undisturbed
    <2>3. CASE \E cred : Rewrite(c, cred)
      <3>1. /\ epoch' = IF file' = file THEN epoch ELSE epoch + 1
            /\ basis' = IF basis[c] = epoch THEN [basis EXCEPT ![c] = epoch'] ELSE basis
        BY <2>3 DEF Rewrite
      <3>2. epoch \in Nat /\ basis \in [Calls -> Nat]
        BY <1>1 DEF TypeOK
      <3>3. basis'[d] <= epoch'
        BY <1>1, <3>1, <3>2
      <3>4. ASSUME basis'[d] = epoch', ~(file' = file)
            PROVE  d = c /\ basis[d] = epoch
        BY <1>1, <3>1, <3>2, <3>4
      <3>5. ASSUME basis'[d] = epoch', file' = file
            PROVE  basis[d] = epoch
        BY <1>1, <3>1, <3>2, <3>5
      <3> QED
        BY <3>3, <3>4, <3>5 DEF Undisturbed
    <2> QED
      BY <2>1, <2>2, <2>3
  <1>3. CASE \E c \in Calls : Start(c)
    <2> PICK c \in Calls : Start(c)
      BY <1>3
    <2>1. file' = file /\ epoch' = epoch /\ basis' = [basis EXCEPT ![c] = epoch]
      BY DEF Start
    <2>2. epoch \in Nat /\ basis \in [Calls -> Nat]
      BY <1>1 DEF TypeOK
    <2>3. CASE d = c
      BY <2>1, <2>2, <2>3 DEF Undisturbed
    <2>4. CASE d # c
      BY <1>1, <2>1, <2>2, <2>4 DEF Undisturbed
    <2> QED
      BY <2>3, <2>4
  <1>4. CASE ~(\E c \in Calls : Start(c) \/ DoRekey(c) \/ DoSchema(c))
    <2>1. UNCHANGED << file, epoch, basis >>
      BY <1>4, NextCases DEF Create, BuildPragmas, Verify, Fault, AttemptFailed, Return,
           Cancel, Crash, Quiet, vars, history
    <2> QED
      BY <1>1, <2>1 DEF Undisturbed
  <1> QED
    BY <1>2, <1>3, <1>4

\* What a call that was not disturbed learned of the file is still true.
LEMMA StillOpensStep == IInv /\ [Next]_vars => StillOpens'
  <1> SUFFICES ASSUME IInv, [Next]_vars, NEW d \in Calls
               PROVE  /\ basis'[d] <= epoch'
                      /\ Undisturbed(d)' /\ pc'[d] \in {"rekey", "schema"} => Opens(held[d])'
                      /\ Undisturbed(d)' /\ (pc'[d] = "opened" \/ outcome'[d] = "driver") =>
                            file' = held'[d]
    BY DEF StillOpens
  <1>1. TypeOK /\ StillOpens /\ Ended
    BY DEF IInv
  <1>2. basis'[d] <= epoch'
    BY FileStep
  <1> SUFFICES ASSUME Undisturbed(d)'
               PROVE  /\ pc'[d] \in {"rekey", "schema"} => Opens(held[d])'
                      /\ pc'[d] = "opened" \/ outcome'[d] = "driver" => file' = held'[d]
    BY <1>2
  <1>3. CASE Start(d)
    <2>1. pc[d] = "queued" /\ pc'[d] = "attempt" /\ outcome' = outcome
      BY <1>1, <1>3 DEF Start, Goto, TypeOK
    <2> QED
      BY <1>1, <2>1 DEF Ended
  <1>4. CASE DoRekey(d)
    <2>1. pc[d] = "rekey" /\ outcome'[d] = outcome[d] /\ outcome[d] # "driver"
      BY <1>1, <1>4 DEF DoRekey, Ended
    <2>2. pc'[d] # "rekey" /\ pc'[d] # "opened"
      BY <1>1, <1>4 DEF DoRekey, Goto, TypeOK
    <2>3. ASSUME pc'[d] = "schema"
          PROVE  file' = held'[d] \/ file' = Absent
      BY <1>1, <1>4, <2>3 DEF DoRekey, Goto, Rewrite, TypeOK
    <2> QED
      BY <2>1, <2>2, <2>3 DEF Opens
  <1>5. CASE DoSchema(d)
    <2>1. pc[d] = "schema" /\ outcome'[d] = outcome[d] /\ outcome[d] # "driver"
      BY <1>1, <1>5 DEF DoSchema, Ended
    <2>2. pc'[d] \notin {"rekey", "schema"}
      BY <1>1, <1>5 DEF DoSchema, Goto, TypeOK
    <2>3. ASSUME pc'[d] = "opened" PROVE file' = held'[d]
      BY <1>1, <1>5, <2>3 DEF DoSchema, Goto, Rewrite, TypeOK
    <2> QED
      BY <2>1, <2>2, <2>3
  <1>6. CASE ~Start(d) /\ ~DoRekey(d) /\ ~DoSchema(d)
    <2>1. file' = file /\ Undisturbed(d)
      BY <1>6, FileStep
    <2>2. CASE Verify(d)
      <3>1. /\ outcome'[d] # "driver" /\ pc'[d] # "opened"
            /\ pc'[d] \in {"rekey", "schema"} => Opens(held[d]) /\ held'[d] = held[d]
        BY <1>1, <2>2 DEF Verify, Ended, TypeOK
      <3> QED
        BY <2>1, <3>1 DEF Opens
    <2>3. CASE ~Verify(d)
      <3>1. pc'[d] \in {"rekey", "schema", "opened"} => pc'[d] = pc[d]
        BY <1>1, <1>6, <2>3, NextCases DEF TypeOK, Running, Create, Start, BuildPragmas,
             Verify, DoRekey, DoSchema, Fault, AttemptFailed, Return, Cancel, Crash, Quiet,
             Goto, Finish, vars, call
      <3>2. outcome'[d] = "driver" => outcome[d] = "driver" \/ pc[d] = "opened"
        BY <1>1, <1>6, <2>3, NextCases DEF TypeOK, Running, Create, Start, BuildPragmas,
             Verify, DoRekey, DoSchema, Fault, AttemptFailed, Return, Cancel, Crash, Quiet,
             Finish, Ended, vars, call
      <3>3. held'[d] = held[d] \/ BuildPragmas(d)
        BY <1>1, <1>6, <2>3, NextCases DEF TypeOK, Running, Create, Start, BuildPragmas,
             Verify, DoRekey, DoSchema, Fault, AttemptFailed, Return, Cancel, Crash, Quiet,
             vars, call
      <3>4. BuildPragmas(d) => pc'[d] \notin {"rekey", "schema", "opened"}
                               /\ outcome'[d] # "driver"
        BY <1>1 DEF BuildPragmas, Goto, Finish, Ended, TypeOK
      <3> QED
        BY <1>1, <2>1, <3>1, <3>2, <3>3, <3>4 DEF StillOpens, Opens
    <2> QED
      BY <2>2, <2>3
  <1> QED
    BY <1>3, <1>4, <1>5, <1>6

LEMMA RefusedNow ==
    ASSUME NEW c \in Calls
    PROVE  /\ ~KeysAccepted(c) => Refused(c, attempt[c])
           /\ ~Opens(Cred(AttemptConfig(c), args[c].key)) => Refused(c, attempt[c])
           /\ /\ AttemptRekey(c) \notin {NoKey, EmptyKey} /\ args[c].key # EmptyKey
              /\ << AttemptConfig(c), CurrentOf(c) >> \notin Compatible
              => Refused(c, attempt[c])
  <1>1. /\ ConfigOfAttempt(c, attempt[c]) = AttemptConfig(c)
        /\ RekeyOfAttempt(c, attempt[c]) = AttemptRekey(c)
    BY DEF ConfigOfAttempt, RekeyOfAttempt, AttemptConfig, AttemptRekey
  <1> QED
    BY <1>1 DEF Refused, KeysAccepted

\* An undisturbed call that fails was refused in every attempt it made.
LEMMA RefusedSoFarStep == IInv /\ [Next]_vars => RefusedSoFar'
  <1> SUFFICES ASSUME IInv, [Next]_vars, NEW d \in Calls, Undisturbed(d)', ~trouble'[d]
               PROVE  /\ Looking(d)' => /\ ~wrote'[d]
                                        /\ \A j \in 0..(attempt'[d] - 1) : Refused(d, j)'
                      /\ pc'[d] = "failed" => Refused(d, attempt[d])'
                      /\ outcome'[d] = "illegal_state" =>
                            ~wrote'[d] /\ \A j \in 0..attempt'[d] : Refused(d, j)'
    BY DEF RefusedSoFar
  <1>1. TypeOK /\ RefusedSoFar /\ StillOpens /\ HeldCredentials /\ Ended /\ Fresh
        /\ RekeyRequested
    BY DEF IInv
  <1>2. ~trouble[d]
    BY <1>1, NextCases DEF TypeOK, Create, Start, BuildPragmas, Verify, DoRekey, DoSchema,
         Fault, AttemptFailed, Return, Cancel, Crash, Quiet, vars, history
  <1>3. pc[d] # "done" => outcome[d] # "illegal_state"
    BY <1>1 DEF Ended
  <1>4. file' = file => \A j : Refused(d, j)' <=> Refused(d, j)
    BY RefusedFixed
  <1>5. CASE Start(d)
    <2>1. /\ pc'[d] = "attempt" /\ outcome'[d] # "illegal_state"
          /\ attempt'[d] = 0 /\ ~wrote'[d]
      BY <1>1, <1>3, <1>5 DEF Start, Goto, Fresh, TypeOK
    <2> QED
      BY <2>1
  <1>6. CASE DoRekey(d)
    <2>1. pc[d] = "rekey" /\ outcome'[d] # "illegal_state" /\ attempt'[d] = attempt[d]
      BY <1>3, <1>6 DEF DoRekey
    <2>2. CASE Opens(held[d]) /\ RekeyPossible(d)
      <3>1. pc'[d] = "schema"
        BY <1>1, <1>6, <2>2 DEF DoRekey, Goto, TypeOK
      <3> QED
        BY <2>1, <3>1 DEF Looking
    <2>3. CASE ~(Opens(held[d]) /\ RekeyPossible(d))
      <3>1. pc'[d] = "failed" /\ file' = file /\ UNCHANGED history
        BY <1>1, <1>6, <2>3 DEF DoRekey, Goto, TypeOK
      <3>2. Undisturbed(d)
        BY <3>1 DEF Undisturbed, history
      <3>3. ~RekeyPossible(d)
        BY <1>1, <2>1, <2>3, <3>2 DEF StillOpens
      <3>4. held[d].key = args[d].key
        BY <1>1, <2>1, CredKey DEF HeldCredentials
      <3>5. Refused(d, attempt[d])
        BY <1>1, <2>1, <3>3, <3>4, RefusedNow DEF RekeyPossible, RekeyRequested
      <3>6. ~wrote[d] /\ \A j \in 0..(attempt[d] - 1) : Refused(d, j)
        BY <1>1, <1>2, <2>1, <3>2 DEF RefusedSoFar, Looking
      <3>7. Refused(d, attempt[d])'
        BY <1>4, <2>1, <3>1, <3>5 DEF Refused, ConfigOfAttempt, RekeyOfAttempt
      <3> QED
        BY <1>4, <2>1, <3>1, <3>6, <3>7 DEF history
    <2> QED
      BY <2>2, <2>3
  <1>7. CASE DoSchema(d)
    <2>1. pc[d] = "schema" /\ outcome'[d] # "illegal_state"
      BY <1>3, <1>7 DEF DoSchema
    <2>2. CASE Opens(held[d])
      <3>1. pc'[d] = "opened"
        BY <1>1, <1>7, <2>2 DEF DoSchema, Goto, TypeOK
      <3> QED
        BY <2>1, <3>1 DEF Looking
    <2>3. CASE ~Opens(held[d])
      <3>1. Undisturbed(d)
        BY <1>7, <2>3 DEF DoSchema, Undisturbed, history
      <3> QED
        BY <1>1, <2>1, <2>3, <3>1 DEF StillOpens
    <2> QED
      BY <2>2, <2>3
  <1>8. CASE ~Start(d) /\ ~DoRekey(d) /\ ~DoSchema(d)
    <2>1. file' = file /\ Undisturbed(d)
      BY <1>8, FileStep
    <2>2. wrote'[d] = wrote[d]
      BY <1>1, <1>8, NextCases DEF TypeOK, Create, Start, BuildPragmas, Verify, DoRekey,
           DoSchema, Rewrite, Fault, AttemptFailed, Return, Cancel, Crash, Quiet, vars,
           history
    <2>3. CASE BuildPragmas(d)
      <3>1. /\ pc[d] = "attempt" /\ outcome'[d] # "illegal_state"
            /\ attempt' = attempt
            /\ pc'[d] = "failed" => ~KeysAccepted(d)
        BY <1>1, <1>3, <2>3 DEF BuildPragmas, Goto, Finish, TypeOK
      <3>2. pc'[d] = "failed" => Refused(d, attempt[d])'
        BY <1>4, <2>1, <3>1, RefusedNow
      <3> QED
        BY <1>1, <1>2, <1>4, <2>1, <2>2, <3>1, <3>2 DEF RefusedSoFar, Looking
    <2>4. CASE Verify(d)
      <3>1. /\ pc[d] = "verify" /\ outcome'[d] # "illegal_state"
            /\ attempt' = attempt
            /\ pc'[d] = "failed" => ~Opens(held[d])
        BY <1>1, <1>3, <2>4 DEF Verify, TypeOK
      <3>2. pc'[d] = "failed" => Refused(d, attempt[d])'
        BY <1>1, <1>4, <2>1, <3>1, RefusedNow DEF HeldCredentials
      <3> QED
        BY <1>1, <1>2, <1>4, <2>1, <2>2, <3>1, <3>2 DEF RefusedSoFar, Looking
    <2>5. CASE AttemptFailed(d)
      <3>1. /\ pc[d] = "failed" /\ pc'[d] # "failed" /\ attempt[d] \in Nat
            /\ pc'[d] = "attempt" =>
                  attempt'[d] = attempt[d] + 1 /\ outcome'[d] # "illegal_state"
            /\ pc'[d] # "attempt" => pc'[d] = "done" /\ attempt'[d] = attempt[d]
        BY <1>1, <1>3, <2>5 DEF AttemptFailed, Goto, Finish, TypeOK
      <3>2. ~wrote[d] /\ \A j \in 0..(attempt[d] - 1) : Refused(d, j)
        BY <1>1, <1>2, <2>1, <3>1 DEF RefusedSoFar, Looking
      <3>3. Refused(d, attempt[d])
        BY <1>1, <1>2, <2>1, <3>1 DEF RefusedSoFar
      <3>4. \A j \in 0..attempt[d] : Refused(d, j)
        BY <3>1, <3>2, <3>3
      <3>5. \A j \in 0..attempt[d] : Refused(d, j)'
        BY <1>4, <2>1, <3>4
      <3> QED
        BY <2>2, <3>1, <3>2, <3>5 DEF Looking
    <2>6. CASE ~BuildPragmas(d) /\ ~Verify(d) /\ ~AttemptFailed(d)
      <3>1. /\ pc'[d] \in {pc[d], "queued", "done"}
            /\ attempt'[d] = attempt[d]
            /\ outcome'[d] = "illegal_state" => outcome[d] = "illegal_state"
        BY <1>1, <1>2, <1>8, <2>6, NextCases DEF TypeOK, Create, Start, BuildPragmas,
             Verify, DoRekey, DoSchema, Fault, AttemptFailed, Return, Cancel, Crash, Quiet,
             Goto, Finish, vars, call
      <3>2. Refused(d, attempt[d])' <=> Refused(d, attempt[d])
        BY <2>1, <3>1, <1>4 DEF Refused, ConfigOfAttempt, RekeyOfAttempt
      <3> QED
        BY <1>1, <1>2, <1>4, <2>1, <2>2, <3>1, <3>2 DEF RefusedSoFar, Looking
    <2> QED
      BY <2>3, <2>4, <2>5, <2>6
  <1> QED
    BY <1>5, <1>6, <1>7, <1>8

\* A call that fails has made every attempt that was due.
LEMMA AllTriedStep == IInv /\ [Next]_vars => AllTried'
  <1> SUFFICES ASSUME IInv, [Next]_vars, NEW d \in Calls, outcome'[d] = "illegal_state"
               PROVE  \/ attempt'[d] = Len(MigrationsOf(d))
                      \/ attempt'[d] = 0 /\ (hasOpened'[args[d].factory] \/ crashes' > 0)
    BY RequestFixed DEF AllTried
  <1>1. TypeOK /\ AllTried /\ Ended /\ NoLateMigration
    BY DEF IInv
  <1>2. args[d].factory \in Factories /\ Len(MigrationsOf(d)) \in Nat
    BY <1>1, AttemptTypes
  <1>3. CASE AttemptFailed(d)
    <2>1. outcome[d] # "illegal_state" /\ pc[d] = "failed"
      BY <1>1, <1>3 DEF AttemptFailed, Ended
    <2>2. ~MoreAttempts(d) /\ attempt' = attempt /\ hasOpened' = hasOpened
      BY <1>3, <2>1 DEF AttemptFailed
    <2> QED
      BY <1>1, <1>2, <2>1, <2>2 DEF MoreAttempts, TypeOK
  <1>4. CASE ~AttemptFailed(d)
    <2>1. outcome[d] = "illegal_state" /\ attempt'[d] = attempt[d]
      BY <1>1, <1>4, NextCases DEF TypeOK, Ended, Create, Start, BuildPragmas, Verify,
           DoRekey, DoSchema, Fault, AttemptFailed, Return, Cancel, Crash, Quiet, Finish,
           vars, call
    <2>2. /\ hasOpened[args[d].factory] => hasOpened'[args[d].factory] \/ crashes' > 0
          /\ crashes > 0 => crashes' > 0
      <3>1. crashes \in Nat /\ hasOpened \in [Factories -> BOOLEAN]
        BY <1>1, FactoryAssumptions DEF TypeOK
      <3>2. CASE \E c \in Calls : Return(c)
        BY <1>2, <3>1, <3>2 DEF Return
      <3>3. CASE Crash
        BY <3>1, <3>3 DEF Crash
      <3>4. CASE ~Crash /\ ~(\E c \in Calls : Return(c))
        <4>1. crashes' = crashes /\ hasOpened' = hasOpened
          BY <3>4, NextCases DEF Create, Start, BuildPragmas, Verify, DoRekey, DoSchema,
               Fault, AttemptFailed, Cancel, Quiet, vars
        <4> QED
          BY <4>1
      <3> QED
        BY <3>2, <3>3, <3>4
    <2> QED
      BY <1>1, <2>1, <2>2 DEF AllTried
  <1> QED
    BY <1>3, <1>4

-----------------------------------------------------------------------------
(* Theorems                                                                *)

LEMMA IInvInit == Init => IInv
  <1> SUFFICES ASSUME Init PROVE IInv
    OBVIOUS
  <1>1. TypeOK
    BY TypeInit
  <1>2. RekeyRequested /\ Fresh /\ Ended /\ OneAtATime /\ NoLateMigration /\ HeldCredentials
    BY DEF Init, RekeyRequested, Fresh, Ended, OneAtATime, NoLateMigration, HeldCredentials,
           Running
  <1>3. StillOpens /\ RefusedSoFar /\ AllTried
    BY DEF Init, StillOpens, RefusedSoFar, AllTried, Looking
  <1> QED
    BY <1>1, <1>2, <1>3 DEF IInv

LEMMA IInvStep == IInv /\ [Next]_vars => IInv'
  <1> SUFFICES ASSUME IInv, [Next]_vars PROVE IInv'
    OBVIOUS
  <1>1. TypeOK'
    BY TypeStep DEF IInv
  <1>2. RekeyRequested' /\ Fresh' /\ Ended' /\ OneAtATime' /\ NoLateMigration'
    BY RekeyRequestedStep, FreshStep, EndedStep, OneAtATimeStep, NoLateMigrationStep
  <1>3. HeldCredentials' /\ StillOpens' /\ RefusedSoFar' /\ AllTried'
    BY HeldCredentialsStep, StillOpensStep, RefusedSoFarStep, AllTriedStep
  <1> QED
    BY <1>1, <1>2, <1>3 DEF IInv

\* The inductive invariant holds in every behaviour.
THEOREM Invariance == Spec => []IInv
  BY IInvInit, IInvStep, PTL DEF Spec

\* Every variable keeps its type; in particular no call asks for a migration
\* that its factory does not declare (attemptUpgrade).
THEOREM TypeCorrect == Spec => []TypeOK
  <1>1. IInv => TypeOK
    BY DEF IInv
  <1> QED
    BY <1>1, Invariance, PTL

\* No call tries a migration once its factory has opened the file (hasOpened
\* and the dispatcher of a factory).
THEOREM MigratesOnlyBeforeFirstOpen == Spec => []NoLateMigration
  <1>1. IInv => NoLateMigration
    BY DEF IInv
  <1> QED
    BY <1>1, Invariance, PTL

\* The driver create returns opens the file (createActual, the swap of pragmas
\* after a rekey).
THEOREM ReturnedDriverOpens == Spec => []DriverOpensFile
  <1>1. IInv => DriverOpensFile
    BY DEF IInv, HeldCredentials, StillOpens, DriverOpensFile
  <1> QED
    BY <1>1, Invariance, PTL

\* IllegalStateException is thrown only if no configuration that was due opens
\* the file, and then the file was not changed (createActual, attemptUpgrade).
THEOREM FailureIsHonest == Spec => []HonestFailure
  <1>1. ASSUME IInv PROVE HonestFailure
    <2> SUFFICES ASSUME NEW c \in Calls, outcome[c] = "illegal_state", ~trouble[c],
                        Undisturbed(c)
                 PROVE  ~wrote[c] /\ \A j \in Due(c) : Refused(c, j)
      BY DEF HonestFailure
    <2>1. ~wrote[c] /\ \A j \in 0..attempt[c] : Refused(c, j)
      BY <1>1 DEF IInv, RefusedSoFar
    <2>2. attempt[c] \in Nat /\ crashes \in Nat
      BY <1>1, FactoryAssumptions DEF IInv, TypeOK
    <2>3. Due(c) \subseteq 0..attempt[c]
      BY <1>1, <2>2 DEF IInv, AllTried, Due
    <2> QED
      BY <2>1, <2>3
  <1> QED
    BY <1>1, Invariance, PTL

\* A step changes the credentials of an existing file only for a call that reads
\* it and asks for that change (rekey, attemptUpgrade).
THEOREM ChangesAreRequested == Spec => CredentialsChangeOnRequest
  <1> DEFINE Change ==
        file # Absent /\ file' # file =>
          \E c \in Calls :
            /\ pc[c] = "rekey" /\ file = held[c]
            /\ file' = Cred(CurrentOf(c), Target(c))
            /\ args[c].rekey = NoKey =>
                  /\ file'.key = file.key
                  /\ attempt[c] > 0 /\ ~hasOpened[args[c].factory]
  <1>1. ASSUME IInv, [Next]_vars PROVE [Change]_vars
    <2> SUFFICES ASSUME file # Absent, file' # file
                 PROVE  Change
      OBVIOUS
    <2>1. PICK c \in Calls : DoRekey(c) \/ DoSchema(c)
      BY <1>1, NextCases DEF Create, Start, BuildPragmas, Verify, Fault, AttemptFailed,
           Return, Cancel, Crash, Quiet, vars
    <2>2. ~DoSchema(c)
      BY <2>1 DEF DoSchema, Opens, Rewrite
    <2>3. /\ pc[c] = "rekey" /\ file = held[c]
          /\ file' = Cred(CurrentOf(c), AttemptRekey(c))
      BY <2>1, <2>2 DEF DoRekey, Opens, Rewrite
    <2>4. TypeOK /\ AttemptRekey(c) # NoKey /\ AttemptRekey(c) = Target(c)
      BY <1>1, <2>3, RekeyIsTarget DEF IInv, RekeyRequested
    <2>5. ASSUME args[c].rekey = NoKey
          PROVE  /\ file'.key = file.key
                 /\ attempt[c] > 0 /\ ~hasOpened[args[c].factory]
      <3>1. Target(c) = args[c].key
        BY <2>5 DEF Target
      <3>2. held[c] = Cred(AttemptConfig(c), args[c].key)
        BY <1>1, <2>3 DEF IInv, HeldCredentials
      <3>3. file'.key = args[c].key /\ file.key = args[c].key
        BY <2>3, <2>4, <3>1, <3>2, CredKey
      <3>4. attempt[c] > 0
        BY <2>4, <2>5 DEF AttemptRekey, TypeOK
      <3> QED
        BY <1>1, <2>3, <3>3, <3>4 DEF IInv, NoLateMigration, Running
    <2> QED
      BY <2>3, <2>4, <2>5
  <1> QED
    BY <1>1, Invariance, PTL DEF Spec, CredentialsChangeOnRequest
=============================================================================
