----------------------------- MODULE JDBCDriverProofs -----------------------------
(* What JDBCDriver guarantees for any set of threads and any number of requests. *)
EXTENDS JDBCDriver, TLAPS

\* The key of the file when create returns.
Target == Promise!Target

\* The statements of the first connection, and those of every later one.
First == [key |-> Key, rekey |-> Rekey]
Later == [key |-> Target, rekey |-> {}]

(***************************************************************************)
(* The inductive invariant: how far the first connection is decides what   *)
(* the maps, the properties and the file hold (Maps, Entries, FileKey);    *)
(* only the creator takes the path under the lock (Alone, Slow); and what  *)
(* a thread has copied is what the first connection left behind, unless    *)
(* close meets it (Copied).                                                *)
(***************************************************************************)
Copying == {"copy", "copy_password", "copy_pragmas"}
AfterConnect == {"strip", "swap", "pack", "initialized"}
UnderLock == {"first", "connect"} \cup AfterConnect
Labels == {"idle", "lock", "using"} \cup Copying \cup UnderLock

Alone ==
    /\ driver = "created" => isInitialized
    /\ driver = "failed" => closing = "done"
    /\ driver # "created" =>
          \A t \in Threads : pc[t] # "idle" =>
              t = Creator /\ driver = "creating" /\ closing = "no"

Slow ==
    /\ \A t \in Threads : lock = t <=> ~isInitialized /\ pc[t] \in UnderLock
    /\ \A t \in Threads :
          IF isInitialized
          THEN pc[t] \notin {"lock", "first", "swap", "pack", "initialized"}
          ELSE pc[t] \in {"idle", "lock"} \cup UnderLock

Connected == isInitialized \/ pc[Creator] \in AfterConnect
Swapped == isInitialized \/ pc[Creator] \in {"pack", "initialized"}
Packed == isInitialized \/ pc[Creator] = "initialized"

Maps ==
    IF closing \in {"no", "pragmas"}
    THEN /\ keyPragma = IF Swapped THEN {Target} ELSE {Key}
         /\ rekeyPragma = IF Swapped THEN {} ELSE Rekey
    ELSE keyPragma = {} /\ rekeyPragma = {}

Entries ==
    /\ properties.password = {} \/ (Packed /\ properties.password = {Later})
    /\ closing \in {"no", "pragmas"} =>
          properties.pragmas /\ (Packed => properties.password = {Later})
    /\ closing = "done" => properties.password = {}

FileKey ==
    /\ rekeys \in {0, 1}
    /\ IF Connected THEN file = Target ELSE rekeys = 0
    /\ rekeys = 1 \/ (\E t \in Threads : pc[t] # "idle") => requests >= 1

CopiedBy(t) ==
    /\ pc[t] \notin Copying \cup {"connect"} => prop[t] = NoProperties
    /\ pc[t] = "connect" /\ ~isInitialized =>
          prop[t].password = {First} /\ prop[t].pragmas
    /\ isInitialized => prop[t].password \in {{}, {Later}}
    /\ isInitialized /\ closing = "no" =>
          /\ pc[t] \in {"copy_pragmas", "connect"} => prop[t].password = {Later}
          /\ pc[t] \in {"copy_password", "connect"} => prop[t].pragmas

HeldBy(t) ==
    /\ conn[t] # {} <=> pc[t] \in AfterConnect \cup {"using"}
    /\ \A c \in conn[t] :
          /\ pc[t] # "strip" => c.password = {}
          /\ closing = "no" => c.pragmas

Copied == \A t \in Threads : CopiedBy(t)
Held == \A t \in Threads : HeldBy(t)

Served == closing = "no" => \A t \in Threads : ~refused[t]

IInv ==
    /\ TypeOK
    /\ Alone /\ Slow /\ Maps /\ Entries /\ FileKey /\ Copied /\ Held /\ Served

\* The actions of a thread, on its way to the first connection and elsewhere, and those
\* of the driver.
Opening(t) ==
    EnterLock(t) \/ PrepareFirst(t) \/ Swap(t) \/ Pack(t) \/ SetInitialized(t)

Serving(t) ==
    \/ Request(t) \/ CopyPassword(t) \/ CopyPragmas(t) \/ CopyInterrupted(t)
    \/ Connect(t) \/ Strip(t) \/ Release(t)

Driving == Created \/ SchemaFails \/ Close \/ ClearPragmas \/ ClearEntry

LEMMA NextCases ==
    [Next]_vars =>
        \/ \E t \in Threads : Opening(t) \/ Serving(t)
        \/ Driving \/ UNCHANGED vars
  BY DEF Next, Opening, Serving, Driving

\* The key that create leaves behind is the one asked for.
LEMMA TargetKey ==
    /\ Rekey = {} => Target = Key
    /\ Rekey # {} => Rekey = {Target}
  <1>1. ASSUME NEW k \in Rekey
        PROVE  Rekey = {Target}
    <2>1. Rekey = {k}
      BY RekeyAssumption
    <2>2. (CHOOSE x \in Rekey : TRUE) \in Rekey
      BY <2>1
    <2> QED
      BY <2>1, <2>2 DEF Target, Promise!Target
  <1> QED
    BY <1>1 DEF Target, Promise!Target

LEMMA AloneStep == IInv /\ [Next]_vars => Alone'
  <1> SUFFICES ASSUME IInv, [Next]_vars
               PROVE  Alone'
    OBVIOUS
  <1> USE ThreadAssumption DEF IInv, TypeOK, Alone, Slow, shared
  <1>1. ASSUME NEW t \in Threads, Opening(t)
        PROVE  Alone'
    BY <1>1 DEF Opening, EnterLock, PrepareFirst, Swap, Pack, SetInitialized, Goto, UnderLock, AfterConnect
  <1>2. ASSUME NEW t \in Threads, Serving(t)
        PROVE  Alone'
    BY <1>2 DEF Serving, Request, CopyPassword, CopyPragmas, CopyInterrupted, Connect,
                Strip, Release, Refuse, Goto
  <1>3. CASE Driving
    BY <1>3 DEF Driving, Created, SchemaFails, Close, ClearPragmas, ClearEntry
  <1>4. CASE UNCHANGED vars
    BY <1>4 DEF vars
  <1> QED
    BY <1>1, <1>2, <1>3, <1>4, NextCases

LEMMA SlowStep == IInv /\ [Next]_vars => Slow'
  <1> SUFFICES ASSUME IInv, [Next]_vars
               PROVE  Slow'
    OBVIOUS
  <1> USE ThreadAssumption DEF IInv, TypeOK, Alone, Slow, UnderLock, AfterConnect, Copying, shared
  <1>1. ASSUME NEW t \in Threads, Opening(t)
        PROVE  Slow'
    BY <1>1 DEF Opening, EnterLock, PrepareFirst, Swap, Pack, SetInitialized, Goto
  <1>2. ASSUME NEW t \in Threads, Serving(t)
        PROVE  Slow'
    BY <1>2 DEF Serving, Request, CopyPassword, CopyPragmas, CopyInterrupted, Connect,
                Strip, Release, Refuse, Goto
  <1>3. CASE Driving
    BY <1>3 DEF Driving, Created, SchemaFails, Close, ClearPragmas, ClearEntry
  <1>4. CASE UNCHANGED vars
    BY <1>4 DEF vars
  <1> QED
    BY <1>1, <1>2, <1>3, <1>4, NextCases

\* A thread on the path of the first connection is the one that creates the driver.
LEMMA OnlyTheCreator ==
    ASSUME IInv, NEW t \in Threads, pc[t] # "idle",
           ~isInitialized \/ pc[t] \in {"lock", "first", "swap", "pack", "initialized"}
    PROVE  t = Creator /\ ~isInitialized /\ driver = "creating" /\ closing = "no"
  BY DEF IInv, Alone, Slow

LEMMA MapsStep == IInv /\ [Next]_vars => Maps'
  <1> SUFFICES ASSUME IInv, [Next]_vars
               PROVE  Maps'
    OBVIOUS
  <1> USE ThreadAssumption DEF Maps, Swapped
  <1>1. pc \in [Threads -> Labels] /\ Maps
    BY DEF IInv, TypeOK, Labels, Copying, UnderLock, AfterConnect
  <1>2. ASSUME NEW t \in Threads, Opening(t)
        PROVE  Maps'
    <2>1. t = Creator /\ ~isInitialized /\ closing = "no"
      BY <1>2, OnlyTheCreator DEF Opening, EnterLock, PrepareFirst, Swap, Pack, SetInitialized
    <2>2. CASE Swap(t)
      BY <1>1, <2>1, <2>2, TargetKey DEF Swap, Goto
    <2> QED
      BY <1>1, <1>2, <2>1, <2>2 DEF Opening, EnterLock, PrepareFirst, Pack,
                                     SetInitialized, Goto, shared
  <1>3. ASSUME NEW t \in Threads, Serving(t)
        PROVE  Maps'
    <2>1. /\ UNCHANGED << keyPragma, rekeyPragma, isInitialized >>
          /\ pc[t] \notin {"pack", "initialized"} /\ pc'[t] \notin {"pack", "initialized"}
          /\ \E l : pc' = [pc EXCEPT ![t] = l]
      BY <1>1, <1>3 DEF Serving, Request, CopyPassword, CopyPragmas, CopyInterrupted, Connect,
                 Strip, Release, Refuse, Goto, shared
    <2>2. closing' = closing \/ (closing = "no" /\ closing' = "pragmas")
      BY <1>3 DEF IInv, Alone, Serving, Request, CopyPassword, CopyPragmas, CopyInterrupted, Connect,
                 Strip, Release, Refuse
    <2> QED
      BY <1>1, <2>1, <2>2
  <1>4. CASE Driving
    BY <1>1, <1>4 DEF Driving, Created, SchemaFails, Close, ClearPragmas, ClearEntry, shared, IInv, TypeOK
  <1>5. CASE UNCHANGED vars
    BY <1>1, <1>5 DEF vars, shared
  <1> QED
    BY <1>2, <1>3, <1>4, <1>5, NextCases

\* What one step of a thread may do to the others: nothing.
LEMMA OneThread ==
    ASSUME IInv, NEW t \in Threads, Opening(t) \/ Serving(t)
    PROVE  /\ \E l \in Labels : pc' = [pc EXCEPT ![t] = l]
           /\ \A u \in Threads \ {t} : pc'[u] = pc[u] /\ prop'[u] = prop[u] /\ conn'[u] = conn[u]
           /\ pc[t] # "idle" \/ Request(t)
           /\ closing' = closing \/ (closing = "no" /\ closing' = "pragmas")
  <1> USE DEF IInv, TypeOK, Alone, shared, Goto, Labels, Copying, UnderLock, AfterConnect
  <1>1. CASE Opening(t)
    BY <1>1 DEF Opening, EnterLock, PrepareFirst, Swap, Pack, SetInitialized
  <1>2. CASE Serving(t)
    BY <1>2 DEF Serving, Request, CopyPassword, CopyPragmas, CopyInterrupted, Connect,
                Strip, Release, Refuse
  <1> QED
    BY <1>1, <1>2

LEMMA EntriesStep == IInv /\ [Next]_vars => Entries'
  <1> SUFFICES ASSUME IInv, [Next]_vars
               PROVE  Entries'
    OBVIOUS
  <1> USE ThreadAssumption DEF Entries, Packed
  <1>1. /\ pc \in [Threads -> Labels] /\ Entries
        /\ properties = [password |-> properties.password, pragmas |-> properties.pragmas]
    BY DEF IInv, TypeOK, Labels, Copying, UnderLock, AfterConnect, PropertySets
  <1>2. ASSUME NEW t \in Threads, Opening(t)
        PROVE  Entries'
    <2>1. t = Creator /\ ~isInitialized /\ closing = "no" /\ closing' = closing
      BY <1>2, OnlyTheCreator DEF Opening, EnterLock, PrepareFirst, Swap, Pack, SetInitialized
    <2>2. CASE Pack(t)
      <3>1. keyPragma = {Target} /\ rekeyPragma = {}
        BY <2>1, <2>2 DEF IInv, Maps, Swapped, Pack
      <3>2. {[key |-> k, rekey |-> rekeyPragma] : k \in keyPragma} = {Later}
        BY <3>1 DEF Later
      <3>3. properties'.password = {Later} /\ properties'.pragmas = properties.pragmas
        BY <1>1, <2>2, <3>2 DEF Pack
      <3>4. pc'[Creator] = "initialized"
        BY <1>1, <2>1, <2>2 DEF Pack, Goto
      <3> QED
        BY <1>1, <2>1, <3>3, <3>4
    <2>3. CASE ~Pack(t)
      BY <1>1, <1>2, <2>1, <2>3 DEF Opening, EnterLock, PrepareFirst, Swap,
                                     SetInitialized, Goto, shared
    <2> QED
      BY <2>2, <2>3
  <1>3. ASSUME NEW t \in Threads, Serving(t)
        PROVE  Entries'
    <2>1. /\ UNCHANGED << properties, isInitialized >>
          /\ pc'[t] # "initialized" /\ pc[t] # "initialized"
      BY <1>1, <1>3 DEF Serving, Request, CopyPassword, CopyPragmas, CopyInterrupted, Connect,
                 Strip, Release, Refuse, Goto, shared
    <2> QED
      BY <1>1, <1>3, <2>1, OneThread
  <1>4. CASE Driving
    BY <1>1, <1>4 DEF Driving, Created, SchemaFails, Close, ClearPragmas, ClearEntry, shared,
                      NoProperties
  <1>5. CASE UNCHANGED vars
    BY <1>1, <1>5 DEF vars, shared
  <1> QED
    BY <1>2, <1>3, <1>4, <1>5, NextCases

\* What a new connection finds: the first one gets the statements that open the file
\* with the key of create and change it; those after it change nothing.
LEMMA NewKeys ==
    ASSUME IInv, NEW t \in Threads, pc[t] = "connect"
    PROVE  /\ UNION {s.rekey : s \in prop[t].password} = IF isInitialized THEN {} ELSE Rekey
           /\ ~isInitialized => (KeyFits(t) <=> file = Key)
           /\ isInitialized /\ closing = "no" => KeyFits(t)
  <1>1. CASE isInitialized
    <2>1. prop[t].password \in {{}, {Later}}
      BY <1>1 DEF IInv, Copied, CopiedBy
    <2>2. UNION {s.rekey : s \in prop[t].password} = {}
      BY <2>1 DEF Later
    <2>3. ASSUME closing = "no"
          PROVE  KeyFits(t)
      <3>1. prop[t].password = {Later} /\ file = Later.key
        BY <1>1, <2>3 DEF IInv, Copied, CopiedBy, FileKey, Connected, Later
      <3> QED
        BY <3>1 DEF KeyFits
    <2> QED
      BY <1>1, <2>2, <2>3
  <1>2. CASE ~isInitialized
    <2>1. prop[t].password = {First}
      BY <1>2 DEF IInv, Copied, CopiedBy
    <2>2. UNION {s.rekey : s \in prop[t].password} = Rekey
      BY <2>1 DEF First
    <2>3. KeyFits(t) <=> file = Key
      <3>1. /\ First \in prop[t].password /\ First.key = Key
            /\ \A s \in prop[t].password : s = First
        BY <2>1 DEF First
      <3> QED
        BY <3>1 DEF KeyFits
    <2> QED
      BY <1>2, <2>2, <2>3
  <1> QED
    BY <1>1, <1>2

\* The two outcomes of a connection.
LEMMA ConnectCases ==
    ASSUME IInv, NEW t \in Threads, Connect(t)
    PROVE  /\ pc[t] = "connect" /\ pc'[t] \in {"strip", "idle"}
           /\ \/ /\ KeyFits(t) /\ pc'[t] = "strip"
                 /\ conn'[t] = {prop[t]} /\ prop'[t] = NoProperties
                 /\ UNCHANGED << closing, refused, lock >>
                 /\ IF isInitialized \/ Rekey = {}
                    THEN UNCHANGED << file, rekeys >>
                    ELSE file' = Target /\ rekeys' = rekeys + 1
              \/ /\ ~KeyFits(t) /\ Refuse(t) /\ pc'[t] = "idle"
                 /\ UNCHANGED << file, rekeys, conn >>
                 /\ driver = "created" => closing # "no"
           /\ UNCHANGED << keyPragma, rekeyPragma, properties, isInitialized, driver, late,
                           requests >>
  <1> USE DEF shared
  <1>1. pc[t] = "connect" /\ pc \in [Threads -> Labels]
    BY DEF Connect, IInv, TypeOK, Labels, Copying, UnderLock, AfterConnect
  <1>2. conn \in [Threads -> {{}} \cup {{p} : p \in PropertySets}]
        /\ prop \in [Threads -> PropertySets]
    BY DEF IInv, TypeOK
  <1>3. CASE KeyFits(t)
    <2>1. /\ \/ UNION {s.rekey : s \in prop[t].password} = {} /\ UNCHANGED << file, rekeys >>
             \/ /\ file' \in UNION {s.rekey : s \in prop[t].password}
                /\ rekeys' = rekeys + 1
          /\ conn' = [conn EXCEPT ![t] = {prop[t]}]
          /\ prop' = [prop EXCEPT ![t] = NoProperties]
          /\ Goto(t, "strip")
          /\ UNCHANGED << shared, driver, closing, late, refused, requests >>
      BY <1>3 DEF Connect
    <2>2. pc'[t] = "strip" /\ conn'[t] = {prop[t]} /\ prop'[t] = NoProperties
      BY <1>1, <1>2, <2>1 DEF Goto
    <2>3. IF isInitialized \/ Rekey = {}
          THEN UNCHANGED << file, rekeys >>
          ELSE file' = Target /\ rekeys' = rekeys + 1
      BY <1>1, <2>1, NewKeys, TargetKey
    <2> QED
      BY <1>1, <1>3, <2>1, <2>2, <2>3
  <1>4. CASE ~KeyFits(t)
    <2>1. Refuse(t)
      BY <1>4 DEF Connect
    <2>2. driver = "created" => closing # "no"
      BY <1>1, <1>4, NewKeys DEF IInv, Alone
    <2> QED
      BY <1>1, <1>4, <2>1, <2>2 DEF Refuse, Goto
  <1> QED
    BY <1>3, <1>4

LEMMA FileKeyStep == IInv /\ [Next]_vars => FileKey'
  <1> SUFFICES ASSUME IInv, [Next]_vars
               PROVE  FileKey'
    OBVIOUS
  <1> USE ThreadAssumption DEF FileKey, Connected
  <1>1. pc \in [Threads -> Labels] /\ FileKey /\ requests \in Nat
    BY RequestAssumption DEF IInv, TypeOK, Labels, Copying, UnderLock, AfterConnect
  <1>2. ASSUME NEW t \in Threads, Opening(t)
        PROVE  FileKey'
    BY <1>1, <1>2, OneThread, OnlyTheCreator
       DEF Opening, EnterLock, PrepareFirst, Swap, Pack, SetInitialized, Goto, shared, AfterConnect
  <1>3. ASSUME NEW t \in Threads, Request(t)
        PROVE  FileKey'
    BY <1>1, <1>3 DEF Request, Goto, shared, AfterConnect
  <1>4. ASSUME NEW t \in Threads, Connect(t)
        PROVE  FileKey'
    <2>1. /\ pc[t] = "connect" /\ requests >= 1
          /\ (~isInitialized => t = Creator)
          /\ \A u \in Threads \ {t} : pc'[u] = pc[u]
      BY <1>1, <1>4, ConnectCases, OneThread, OnlyTheCreator DEF Serving
    <2>2. CASE ~isInitialized
      <3>1. rekeys = 0 /\ pc'[Creator] \in {"strip", "idle"}
        BY <1>1, <1>4, <2>1, <2>2, ConnectCases DEF AfterConnect
      <3>2. pc'[Creator] = "strip" => file' = Target
        BY <1>4, <2>1, <2>2, ConnectCases, NewKeys, TargetKey
      <3> QED
        BY <1>4, <2>1, <2>2, <3>1, <3>2, ConnectCases DEF AfterConnect
    <2>3. CASE isInitialized
      BY <1>1, <1>4, <2>1, <2>3, ConnectCases
    <2> QED
      BY <2>2, <2>3
  <1>5. ASSUME NEW t \in Threads, Serving(t), ~Request(t), ~Connect(t)
        PROVE  FileKey'
    <2>1. /\ UNCHANGED << file, rekeys, isInitialized, requests >> /\ pc[t] # "idle"
          /\ ~isInitialized => (pc[t] \in AfterConnect <=> pc'[t] \in AfterConnect)
      BY <1>1, <1>5 DEF IInv, Slow, UnderLock, Serving, CopyPassword, CopyPragmas, CopyInterrupted, Strip, Release,
                        Refuse, Goto, shared, AfterConnect
    <2>2. \A u \in Threads \ {t} : pc'[u] = pc[u]
      BY <1>5, OneThread
    <2> QED
      BY <1>1, <2>1, <2>2
  <1>6. CASE Driving
    BY <1>1, <1>6 DEF Driving, Created, SchemaFails, Close, ClearPragmas, ClearEntry, shared
  <1>7. CASE UNCHANGED vars
    BY <1>1, <1>7 DEF vars, shared
  <1> QED
    BY <1>2, <1>3, <1>4, <1>5, <1>6, <1>7, NextCases DEF Serving

LEMMA CopiedStep == IInv /\ [Next]_vars => Copied'
  <1> SUFFICES ASSUME IInv, [Next]_vars
               PROVE  Copied'
    OBVIOUS
  <1> USE ThreadAssumption DEF Copied, CopiedBy
  <1>1. /\ pc \in [Threads -> Labels] /\ prop \in [Threads -> PropertySets]
        /\ Copied /\ Entries
    BY DEF IInv, TypeOK, Labels, Copying, UnderLock, AfterConnect
  <1>2. ASSUME NEW t \in Threads, Opening(t) \/ Serving(t), CopiedBy(t)',
               isInitialized' <=> isInitialized
        PROVE  Copied'
    BY <1>1, <1>2, OneThread
  <1>3. ASSUME NEW t \in Threads, Opening(t)
        PROVE  Copied'
    <2>1. t = Creator /\ ~isInitialized /\ closing = "no"
      BY <1>3, OnlyTheCreator DEF Opening, EnterLock, PrepareFirst, Swap, Pack, SetInitialized
    <2>2. CASE PrepareFirst(t)
      <3>1. keyPragma = {Key} /\ rekeyPragma = Rekey
        BY <2>1, <2>2 DEF IInv, Maps, Swapped, PrepareFirst
      <3>2. {[key |-> k, rekey |-> rekeyPragma] : k \in keyPragma} = {First}
        BY <3>1 DEF First
      <3>3. properties.pragmas /\ properties \in PropertySets
        BY <2>1 DEF IInv, TypeOK, Entries
      <3>4. prop'[t].password = {First} /\ prop'[t].pragmas
        BY <1>1, <2>2, <3>2, <3>3 DEF PrepareFirst, PropertySets
      <3>5. CopiedBy(t)' /\ (isInitialized' <=> isInitialized)
        BY <1>1, <2>1, <2>2, <3>4 DEF PrepareFirst, Goto, shared, Copying
      <3> QED
        BY <1>2, <1>3, <3>5
    <2>3. CASE SetInitialized(t)
      <3>1. \A u \in Threads : prop'[u] = NoProperties
        BY <1>1, <2>1, <2>3 DEF SetInitialized, IInv, Alone, Copying
      <3>2. isInitialized' /\ \A u \in Threads : pc'[u] \in {"idle", "using"}
        BY <1>1, <2>1, <2>3 DEF SetInitialized, Goto, IInv, Alone
      <3> QED
        BY <3>1, <3>2 DEF NoProperties
    <2>4. CASE ~PrepareFirst(t) /\ ~SetInitialized(t)
      BY <1>1, <1>2, <1>3, <2>1, <2>4
         DEF Opening, EnterLock, Swap, Pack, Goto, shared, Copying
    <2> QED
      BY <2>2, <2>3, <2>4
  <1>4. ASSUME NEW t \in Threads, CopyPassword(t) \/ CopyPragmas(t)
        PROVE  Copied'
    <2>1. isInitialized
      BY <1>1, <1>4 DEF IInv, Slow, UnderLock, AfterConnect, CopyPassword, CopyPragmas
    <2>2. /\ properties.password \in {{}, {Later}}
          /\ closing = "no" => properties.password = {Later} /\ properties.pragmas
      BY <1>1, <2>1 DEF Entries, Packed
    <2>3. prop[t] \in PropertySets /\ properties \in PropertySets
      BY <1>1 DEF IInv, TypeOK
    <2>4. CASE CopyPassword(t)
      <3>1. /\ prop'[t].password = properties.password
            /\ prop'[t].pragmas = prop[t].pragmas
        BY <1>1, <2>3, <2>4 DEF CopyPassword, PropertySets
      <3>2. CopiedBy(t)' /\ (isInitialized' <=> isInitialized)
        BY <1>1, <2>1, <2>2, <2>4, <3>1 DEF CopyPassword, Goto, shared, Copying
      <3> QED
        BY <1>2, <2>4, <3>2 DEF Serving
    <2>5. CASE CopyPragmas(t)
      <3>1. /\ prop'[t].pragmas = properties.pragmas
            /\ prop'[t].password = prop[t].password
        BY <1>1, <2>3, <2>5 DEF CopyPragmas, PropertySets
      <3>2. CopiedBy(t)' /\ (isInitialized' <=> isInitialized)
        BY <1>1, <2>1, <2>2, <2>5, <3>1 DEF CopyPragmas, Goto, shared, Copying
      <3> QED
        BY <1>2, <2>5, <3>2 DEF Serving
    <2> QED
      BY <1>4, <2>4, <2>5
  <1>5. ASSUME NEW t \in Threads, Serving(t), ~CopyPassword(t), ~CopyPragmas(t)
        PROVE  Copied'
    <2>1. prop'[t] = NoProperties /\ pc'[t] # "connect" /\ isInitialized' = isInitialized
      BY <1>1, <1>5 DEF Serving, Request, CopyInterrupted, Connect, Strip, Release, Refuse,
                        Goto, shared, Copying
    <2>2. CopiedBy(t)'
      <3>1. pc'[t] \notin {"copy_password", "copy_pragmas"}
        BY <1>1, <1>5 DEF Serving, Request, CopyInterrupted, Connect, Strip, Release, Refuse,
                          Goto
      <3> QED
        BY <2>1, <3>1 DEF NoProperties
    <2> QED
      BY <1>2, <1>5, <2>1, <2>2
  <1>6. CASE Driving
    BY <1>1, <1>6 DEF Driving, Created, SchemaFails, Close, ClearPragmas, ClearEntry, shared
  <1>7. CASE UNCHANGED vars
    BY <1>1, <1>7 DEF vars, shared
  <1> QED
    BY <1>3, <1>4, <1>5, <1>6, <1>7, NextCases

LEMMA HeldStep == IInv /\ [Next]_vars => Held'
  <1> SUFFICES ASSUME IInv, [Next]_vars
               PROVE  Held'
    OBVIOUS
  <1> USE DEF Held, HeldBy
  <1>1. /\ pc \in [Threads -> Labels] /\ Held
        /\ conn \in [Threads -> {{}} \cup {{p} : p \in PropertySets}]
    BY DEF IInv, TypeOK, Labels, Copying, UnderLock, AfterConnect
  <1>2. ASSUME NEW t \in Threads, Opening(t) \/ Serving(t), HeldBy(t)'
        PROVE  Held'
    BY <1>1, <1>2, OneThread
  <1>3. ASSUME NEW t \in Threads, Opening(t)
        PROVE  Held'
    BY <1>1, <1>2, <1>3, OneThread
       DEF Opening, EnterLock, PrepareFirst, Swap, Pack, SetInitialized, Goto, AfterConnect
  <1>4. ASSUME NEW t \in Threads, Connect(t)
        PROVE  Held'
    <2>1. CASE KeyFits(t)
      <3>1. /\ conn'[t] = {prop[t]} /\ pc'[t] = "strip" /\ closing' = closing
            /\ pc[t] = "connect"
        BY <1>4, <2>1, ConnectCases
      <3>2. closing = "no" => prop[t].pragmas
        BY <3>1 DEF IInv, Copied, CopiedBy
      <3>3. HeldBy(t)'
        BY <3>1, <3>2 DEF AfterConnect
      <3> QED
        BY <1>2, <1>4, <3>3 DEF Serving
    <2>2. CASE ~KeyFits(t)
      <3>1. conn' = conn /\ pc[t] = "connect" /\ pc'[t] = "idle"
        BY <1>4, <2>2, ConnectCases
      <3>2. HeldBy(t)'
        BY <1>1, <3>1 DEF AfterConnect
      <3> QED
        BY <1>2, <1>4, <3>2 DEF Serving
    <2> QED
      BY <2>1, <2>2
  <1>5. ASSUME NEW t \in Threads, Strip(t)
        PROVE  Held'
    <2>1. conn[t] # {} /\ conn'[t] = {[c EXCEPT !.password = {}] : c \in conn[t]}
          /\ pc'[t] \in {"swap", "using"} /\ closing' = closing
      BY <1>1, <1>5 DEF Strip, Goto, AfterConnect
    <2>2. PICK c \in PropertySets : conn[t] = {c}
      BY <1>1, <2>1
    <2>3. conn'[t] = {[c EXCEPT !.password = {}]}
      BY <2>1, <2>2
    <2>4. \A d \in conn'[t] : d.password = {} /\ d.pragmas = c.pragmas
      BY <2>2, <2>3 DEF PropertySets
    <2>5. HeldBy(t)'
      BY <1>1, <2>1, <2>2, <2>3, <2>4 DEF AfterConnect
    <2> QED
      BY <1>2, <1>5, <2>5 DEF Serving
  <1>6. ASSUME NEW t \in Threads, Serving(t), ~Connect(t), ~Strip(t)
        PROVE  Held'
    <2>1. CASE Release(t)
      BY <1>1, <2>1 DEF Release, Goto, AfterConnect
    <2>2. CASE Request(t)
      BY <1>1, <2>2 DEF Request, Goto, AfterConnect
    <2>3. CASE CopyPassword(t) \/ CopyPragmas(t)
      BY <1>1, <2>3 DEF CopyPassword, CopyPragmas, Goto, AfterConnect
    <2>4. CASE CopyInterrupted(t)
      BY <1>1, <2>4 DEF CopyInterrupted, Refuse, Goto, AfterConnect
    <2>5. HeldBy(t)'
      BY <1>6, <2>1, <2>2, <2>3, <2>4 DEF Serving
    <2> QED
      BY <1>2, <1>6, <2>5
  <1>7. CASE Driving
    BY <1>1, <1>7 DEF Driving, Created, SchemaFails, Close, ClearPragmas, ClearEntry
  <1>8. CASE UNCHANGED vars
    BY <1>1, <1>8 DEF vars
  <1> QED
    BY <1>3, <1>4, <1>5, <1>6, <1>7, <1>8, NextCases DEF Serving

LEMMA ServedStep == IInv /\ [Next]_vars => Served'
  <1> SUFFICES ASSUME IInv, [Next]_vars
               PROVE  Served'
    OBVIOUS
  <1> USE DEF Served, IInv
  <1>1. ASSUME NEW t \in Threads, Opening(t)
        PROVE  Served'
    BY <1>1 DEF Opening, EnterLock, PrepareFirst, Swap, Pack, SetInitialized
  <1>2. ASSUME NEW t \in Threads, CopyInterrupted(t)
        PROVE  Served'
    BY <1>2 DEF CopyInterrupted, Refuse
  <1>3. ASSUME NEW t \in Threads, Connect(t)
        PROVE  Served'
    BY <1>3, ConnectCases DEF Refuse, TypeOK, Alone
  <1>4. ASSUME NEW t \in Threads, Serving(t), ~CopyInterrupted(t), ~Connect(t)
        PROVE  Served'
    BY <1>4 DEF Serving, Request, CopyPassword, CopyPragmas, Strip, Release
  <1>5. CASE Driving
    BY <1>5 DEF Driving, Created, SchemaFails, Close, ClearPragmas, ClearEntry
  <1>6. CASE UNCHANGED vars
    BY <1>6 DEF vars
  <1> QED
    BY <1>1, <1>2, <1>3, <1>4, <1>5, <1>6, NextCases

LEMMA TargetType == Target \in {Key} \cup Rekey
  BY TargetKey

LEMMA PropertyTypes ==
    /\ NoProperties \in PropertySets
    /\ First \in Passwords /\ Later \in Passwords
    /\ \A p \in PropertySets : [p EXCEPT !.password = {}] \in PropertySets
    /\ \A p, q \in PropertySets :
          /\ [p EXCEPT !.password = q.password] \in PropertySets
          /\ [p EXCEPT !.pragmas = q.pragmas] \in PropertySets
    /\ \A p \in PropertySets, w \in Passwords : [p EXCEPT !.password = {w}] \in PropertySets
  BY TargetType DEF NoProperties, PropertySets, Passwords, First, Later

\* The types follow from the other conjuncts where those say what a variable holds.
LEMMA TypeStep == IInv /\ [Next]_vars => TypeOK'
  <1> SUFFICES ASSUME IInv, [Next]_vars
               PROVE  TypeOK'
    OBVIOUS
  <1>1. Maps' /\ FileKey' /\ Copied' /\ Entries'
    BY MapsStep, FileKeyStep, CopiedStep, EntriesStep
  <1>2. keyPragma' \in {{}, {Key}, Rekey} /\ rekeyPragma' \in {{}, Rekey}
    BY <1>1, TargetKey DEF Maps
  <1>3. requests' \in 0 .. MaxRequests
    BY RequestAssumption DEF IInv, TypeOK, Next, vars, shared, Request, EnterLock, PrepareFirst,
       CopyPassword, CopyPragmas, CopyInterrupted, Connect, Strip, Swap, Pack, SetInitialized,
       Release, Refuse, Created, SchemaFails, Close, ClearPragmas, ClearEntry
  <1>4. rekeys' \in 0 .. requests'
    BY <1>1, <1>3, RequestAssumption DEF FileKey
  <1>5. file' \in Files \cup Rekey
    <2>1. ASSUME NEW t \in Threads, Connect(t)
          PROVE  file' \in Files \cup Rekey
      BY <2>1, ConnectCases, TargetKey DEF IInv, TypeOK
    <2> QED
      BY <2>1 DEF IInv, TypeOK, Next, vars, shared, Request, EnterLock, PrepareFirst,
         CopyPassword, CopyPragmas, CopyInterrupted, Strip, Swap, Pack, SetInitialized,
         Release, Refuse, Created, SchemaFails, Close, ClearPragmas, ClearEntry
  <1>6. /\ driver' \in {"creating", "created", "failed"}
        /\ closing' \in {"no", "pragmas", "entries", "done"}
    BY DEF IInv, TypeOK, Next, vars, shared, Request, EnterLock, PrepareFirst,
       CopyPassword, CopyPragmas, CopyInterrupted, Connect, Strip, Swap, Pack, SetInitialized,
       Release, Refuse, Created, SchemaFails, Close, ClearPragmas, ClearEntry
  <1>7. isInitialized' \in BOOLEAN
    BY DEF IInv, TypeOK, Next, vars, shared, Request, EnterLock, PrepareFirst,
       CopyPassword, CopyPragmas, CopyInterrupted, Connect, Strip, Swap, Pack, SetInitialized,
       Release, Refuse, Created, SchemaFails, Close, ClearPragmas, ClearEntry
  <1>8. lock' \in Threads \cup {Nobody}
    BY DEF IInv, TypeOK, Next, vars, shared, Request, EnterLock, PrepareFirst,
       CopyPassword, CopyPragmas, CopyInterrupted, Connect, Strip, Swap, Pack, SetInitialized,
       Release, Refuse, Created, SchemaFails, Close, ClearPragmas, ClearEntry
  <1>9. late' \in [Threads -> BOOLEAN] /\ refused' \in [Threads -> BOOLEAN]
    BY DEF IInv, TypeOK, Next, vars, shared, Request, EnterLock, PrepareFirst,
       CopyPassword, CopyPragmas, CopyInterrupted, Connect, Strip, Swap, Pack, SetInitialized,
       Release, Refuse, Created, SchemaFails, Close, ClearPragmas, ClearEntry
  <1>10. pc' \in [Threads -> Labels]
    BY DEF IInv, TypeOK, Next, vars, Goto, Request, EnterLock, PrepareFirst,
       CopyPassword, CopyPragmas, CopyInterrupted, Connect, Strip, Swap, Pack, SetInitialized,
       Release, Refuse, Created, SchemaFails, Close, ClearPragmas, ClearEntry,
       Labels, Copying, UnderLock, AfterConnect
  <1>11. properties' \in PropertySets
    <2>1. ASSUME NEW t \in Threads, Pack(t)
          PROVE  properties' \in PropertySets
      <3>1. pc[t] = "pack" /\ keyPragma = {Target} /\ rekeyPragma = {}
        BY <2>1, OnlyTheCreator DEF Pack, IInv, Maps, Swapped
      <3>2. {[key |-> k, rekey |-> rekeyPragma] : k \in keyPragma} = {Later}
        BY <3>1 DEF Later
      <3>3. properties' = [password |-> {Later}, pragmas |-> properties.pragmas]
        BY <2>1, <3>2 DEF Pack, IInv, TypeOK, PropertySets
      <3> QED
        BY <3>3, PropertyTypes DEF IInv, TypeOK, PropertySets
    <2>2. CASE ClearEntry
      BY <2>2 DEF ClearEntry, IInv, TypeOK, PropertySets
    <2> QED
      BY <2>1, <2>2 DEF IInv, TypeOK, Next, vars, shared, Request, EnterLock, PrepareFirst,
         CopyPassword, CopyPragmas, CopyInterrupted, Connect, Strip, Swap, SetInitialized,
         Release, Refuse, Created, SchemaFails, Close, ClearPragmas
  <1>12. prop' \in [Threads -> PropertySets]
    <2>1. ASSUME NEW t \in Threads, PrepareFirst(t)
          PROVE  prop' \in [Threads -> PropertySets]
      <3> DEFINE w == {[key |-> k, rekey |-> rekeyPragma] : k \in keyPragma}
      <3>1. prop' = [prop EXCEPT ![t] = [properties EXCEPT !.password = w]]
        BY <2>1 DEF PrepareFirst
      <3>2. pc[t] = "first" /\ keyPragma = {Key} /\ rekeyPragma = Rekey
        BY <2>1, OnlyTheCreator DEF PrepareFirst, IInv, Maps, Swapped
      <3>3. w = {First}
        BY <3>2 DEF First
      <3> HIDE DEF w
      <3>4. [properties EXCEPT !.password = w] \in PropertySets
        BY <3>3, PropertyTypes DEF IInv, TypeOK
      <3> QED
        BY <3>1, <3>4 DEF IInv, TypeOK
    <2>2. ASSUME NEW t \in Threads, CopyPassword(t) \/ CopyPragmas(t)
          PROVE  prop' \in [Threads -> PropertySets]
      <3>1. /\ [prop[t] EXCEPT !.password = properties.password] \in PropertySets
            /\ [prop[t] EXCEPT !.pragmas = properties.pragmas] \in PropertySets
        BY PropertyTypes DEF IInv, TypeOK
      <3>2. \/ prop' = [prop EXCEPT ![t] = [prop[t] EXCEPT !.password = properties.password]]
            \/ prop' = [prop EXCEPT ![t] = [prop[t] EXCEPT !.pragmas = properties.pragmas]]
        BY <2>2 DEF CopyPassword, CopyPragmas
      <3> QED
        BY <3>1, <3>2 DEF IInv, TypeOK
    <2> QED
      BY <2>1, <2>2, PropertyTypes DEF IInv, TypeOK, Next, vars, shared, Request, EnterLock,
         CopyInterrupted, Connect, Strip, Swap, Pack, SetInitialized,
         Release, Refuse, Created, SchemaFails, Close, ClearPragmas, ClearEntry
  <1>13. conn' \in [Threads -> {{}} \cup {{p} : p \in PropertySets}]
    <2>1. ASSUME NEW t \in Threads, Strip(t)
          PROVE  conn' \in [Threads -> {{}} \cup {{p} : p \in PropertySets}]
      <3>1. conn[t] \in {{}} \cup {{p} : p \in PropertySets}
        BY DEF IInv, TypeOK
      <3>2. PICK c \in PropertySets : conn[t] = {c}
        BY <2>1, <3>1 DEF IInv, Held, HeldBy, AfterConnect, Strip
      <3>3. conn' = [conn EXCEPT ![t] = {[c EXCEPT !.password = {}]}]
        BY <2>1, <3>2 DEF Strip
      <3> QED
        BY <3>3, PropertyTypes DEF IInv, TypeOK
    <2> QED
      BY <2>1 DEF IInv, TypeOK, Next, vars, Request, EnterLock, PrepareFirst,
         CopyPassword, CopyPragmas, CopyInterrupted, Connect, Swap, Pack, SetInitialized,
         Release, Refuse, Created, SchemaFails, Close, ClearPragmas, ClearEntry
  <1> QED
    BY <1>2, <1>3, <1>4, <1>5, <1>6, <1>7, <1>8, <1>9, <1>10, <1>11, <1>12, <1>13
       DEF TypeOK, Labels, Copying, UnderLock, AfterConnect

LEMMA Initially == Init => IInv
  <1> SUFFICES ASSUME Init
               PROVE  IInv
    OBVIOUS
  <1> USE ThreadAssumption DEF Init
  <1>1. \A t \in Threads : pc[t] = "idle" /\ conn[t] = {} /\ prop[t] = NoProperties
    OBVIOUS
  <1>2. TypeOK
    <2>1. properties \in PropertySets
      BY DEF PropertySets
    <2>2. prop \in [Threads -> PropertySets]
      BY PropertyTypes
    <2>3. conn \in [Threads -> {{}} \cup {{p} : p \in PropertySets}]
      OBVIOUS
    <2>4. requests \in 0 .. MaxRequests /\ rekeys \in 0 .. requests
      BY RequestAssumption
    <2> QED
      BY <2>1, <2>2, <2>3, <2>4 DEF TypeOK
  <1>3. Alone /\ Slow /\ Served
    BY <1>1 DEF Alone, Slow, Served, UnderLock, AfterConnect
  <1>4. Maps /\ Entries /\ FileKey
    BY <1>1 DEF Maps, Entries, FileKey, Swapped, Packed, Connected, AfterConnect
  <1>5. Copied /\ Held
    BY <1>1 DEF Copied, CopiedBy, Held, HeldBy, AfterConnect, NoProperties
  <1> QED
    BY <1>2, <1>3, <1>4, <1>5 DEF IInv

LEMMA Inductive == IInv /\ [Next]_vars => IInv'
  BY TypeStep, AloneStep, SlowStep, MapsStep, EntriesStep, FileKeyStep, CopiedStep, HeldStep,
     ServedStep DEF IInv

LEMMA Invariant == Spec => []IInv
  BY Initially, Inductive, PTL DEF Spec

-----------------------------------------------------------------------------
(* The theorems                                                            *)

\* The fields of JDBCMCProperties, the file and every connection keep their types; the
\* maps of pragmas hold one key at most.
THEOREM JDBCTypeCorrect == Spec => []TypeOK
  <1>1. IInv => TypeOK
    BY DEF IInv
  <1> QED
    BY <1>1, Invariant, PTL

\* However many threads ask for connections while the first one rekeys the file, nobody
\* is turned away before close, and every connection has the configured pragmas
\* (withKeyProps).
THEOREM EveryThreadIsServed == Spec => []ServedWhileOpen
  <1>1. IInv => ServedWhileOpen
    BY DEF IInv, Served, Held, HeldBy, ServedWhileOpen
  <1> QED
    BY <1>1, Invariant, PTL

\* When close has returned, or a failed creation has, the key is gone from the maps, the
\* properties and every connection that a thread still uses, whatever copies were being
\* made of them (JDBCMCProperties.clear, JDBCMC.connect).
THEOREM NoKeyOutlivesClose == Spec => []CredentialsErased
  <1>1. IInv => CredentialsErased
    <2> SUFFICES ASSUME IInv, closing = "done"
                 PROVE  CredentialsErased
      BY DEF CredentialsErased
    <2>1. keyPragma = {} /\ rekeyPragma = {} /\ properties.password = {}
      BY DEF IInv, Maps, Entries
    <2>2. ASSUME NEW t \in Threads, pc[t] \in {"idle", "using"}
          PROVE  prop[t].password = {} /\ \A c \in conn[t] : c.password = {}
      <3>1. prop[t] = NoProperties
        BY <2>2 DEF IInv, Copied, CopiedBy, Copying
      <3>2. \A c \in conn[t] : c.password = {}
        BY <2>2 DEF IInv, Held, HeldBy
      <3> QED
        BY <3>1, <3>2 DEF NoProperties
    <2> QED
      BY <2>1, <2>2 DEF CredentialsErased
  <1> QED
    BY <1>1, Invariant, PTL

-----------------------------------------------------------------------------
(* The refinement of DriverPromise                                         *)

\* The file is encrypted, before and after create.  A closed driver has lost its keys,
\* which is all that keeps it from opening the file.
Encrypted == Empty \notin Files \cup Rekey

\* Who asks after close has returned finds no credentials to copy.
LateBy(t) ==
    late[t] => /\ closing = "done" /\ prop[t].password = {}
               /\ pc[t] \in {"idle", "connect"} \cup Copying

PromiseInv == IInv /\ \A t \in Threads : LateBy(t)

\* The variables of DriverPromise.
Status ==
    IF closing = "done" THEN "closed"
    ELSE IF closing # "no" THEN "closing"
    ELSE IF driver = "created" THEN "open" ELSE "creating"
Waiting == {"lock", "first", "copy", "copy_password", "copy_pragmas", "connect"}
Asking == {t \in Threads : ~late[t] /\ pc[t] \in Waiting}
Using == {t \in Threads : conn[t] # {}}

\* A late request does not connect.
LEMMA LateIsRefused ==
    ASSUME Encrypted, IInv, NEW t \in Threads, LateBy(t), late[t]
    PROVE  ~KeyFits(t)
  <1>1. prop[t].password = {} /\ file # Empty
    BY DEF LateBy, IInv, TypeOK, Encrypted
  <1> QED
    BY <1>1 DEF KeyFits

LEMMA LateStep ==
    ASSUME Encrypted, PromiseInv, [Next]_vars
    PROVE  \A t \in Threads : LateBy(t)'
  <1> USE DEF PromiseInv
  <1>1. /\ pc \in [Threads -> Labels] /\ prop \in [Threads -> PropertySets]
        /\ late \in [Threads -> BOOLEAN] /\ Alone /\ Slow /\ Entries
        /\ \A t \in Threads : LateBy(t)
    BY DEF IInv, TypeOK, Labels, Copying, UnderLock, AfterConnect
  <1>2. closing = "done" => closing' = "done"
    BY <1>1 DEF Alone, Next, vars, Request, EnterLock, PrepareFirst, CopyPassword, CopyPragmas,
       CopyInterrupted, Connect, Strip, Swap, Pack, SetInitialized, Release, Refuse, Created,
       SchemaFails, Close, ClearPragmas, ClearEntry
  <1>3. ASSUME NEW t \in Threads, Opening(t) \/ Serving(t), LateBy(t)',
               \A u \in Threads \ {t} : late'[u] = late[u]
        PROVE  \A u \in Threads : LateBy(u)'
    BY <1>1, <1>2, <1>3, OneThread DEF LateBy
  <1>4. ASSUME NEW t \in Threads, Opening(t)
        PROVE  \A u \in Threads : LateBy(u)'
    <2>1. late' = late /\ closing # "done"
      BY <1>4, OnlyTheCreator
         DEF Opening, EnterLock, PrepareFirst, Swap, Pack, SetInitialized, shared
    <2> QED
      BY <1>1, <1>3, <1>4, <2>1 DEF LateBy
  <1>5. ASSUME NEW t \in Threads, Request(t)
        PROVE  \A u \in Threads : LateBy(u)'
    <2>1. late'[t] => closing = "done" /\ isInitialized
      BY <1>1, <1>5 DEF Request, Alone
    <2>2. LateBy(t)'
      BY <1>1, <1>2, <1>5, <2>1 DEF LateBy, Request, Goto, NoProperties, Copying
    <2>3. \A u \in Threads \ {t} : late'[u] = late[u]
      BY <1>1, <1>5 DEF Request
    <2> QED
      BY <1>3, <1>5, <2>2, <2>3 DEF Serving
  <1>6. ASSUME NEW t \in Threads, CopyPassword(t) \/ CopyPragmas(t)
        PROVE  \A u \in Threads : LateBy(u)'
    <2>1. late' = late /\ closing' = closing /\ pc'[t] \in {"connect"} \cup Copying
      BY <1>1, <1>6 DEF CopyPassword, CopyPragmas, Goto, Copying
    <2>2. closing = "done" => properties.password = {}
      BY <1>1 DEF Entries
    <2>3. prop'[t].password \in {properties.password, prop[t].password}
      BY <1>1, <1>6 DEF CopyPassword, CopyPragmas, PropertySets
    <2>4. LateBy(t)'
      BY <1>1, <2>1, <2>2, <2>3 DEF LateBy
    <2> QED
      BY <1>3, <1>6, <2>1, <2>4 DEF Serving
  <1>7. ASSUME NEW t \in Threads, Connect(t)
        PROVE  \A u \in Threads : LateBy(u)'
    <2>1. late' = late /\ (late[t] => ~KeyFits(t))
      BY <1>1, <1>7, ConnectCases, LateIsRefused
    <2>2. ~KeyFits(t) => pc'[t] = "idle" /\ prop'[t] = NoProperties
      BY <1>1, <1>7, ConnectCases DEF Refuse
    <2>3. LateBy(t)'
      BY <1>1, <1>2, <2>1, <2>2 DEF LateBy, NoProperties
    <2> QED
      BY <1>3, <1>7, <2>1, <2>3 DEF Serving
  <1>8. ASSUME NEW t \in Threads, CopyInterrupted(t) \/ Strip(t) \/ Release(t)
        PROVE  \A u \in Threads : LateBy(u)'
    <2>1. late' = late
      BY <1>8 DEF CopyInterrupted, Strip, Release, Refuse
    <2>2. LateBy(t)'
      BY <1>1, <1>2, <1>8 DEF LateBy, CopyInterrupted, Strip, Release, Refuse, Goto,
                              NoProperties, Copying
    <2> QED
      BY <1>3, <1>8, <2>1, <2>2 DEF Serving
  <1>9. CASE Driving
    BY <1>1, <1>2, <1>9 DEF LateBy, Driving, Created, SchemaFails, Close, ClearPragmas, ClearEntry
  <1>10. CASE UNCHANGED vars
    BY <1>1, <1>10 DEF LateBy, vars
  <1> QED
    BY <1>4, <1>5, <1>6, <1>7, <1>8, <1>9, <1>10, NextCases DEF Serving

\* A step of one thread moves nobody else in the sets of the promise.
LEMMA OthersStay ==
    ASSUME PromiseInv, NEW t \in Threads, Opening(t) \/ Serving(t)
    PROVE  /\ Asking' = IF late'[t] \/ pc'[t] \notin Waiting
                        THEN Asking \ {t} ELSE Asking \cup {t}
           /\ Using' = IF conn'[t] = {} THEN Using \ {t} ELSE Using \cup {t}
  <1>1. \A u \in Threads \ {t} : pc'[u] = pc[u] /\ conn'[u] = conn[u] /\ late'[u] = late[u]
    <2>1. \A u \in Threads \ {t} : late'[u] = late[u]
      BY DEF PromiseInv, IInv, TypeOK, Opening, EnterLock, PrepareFirst, Swap, Pack,
             SetInitialized, Serving, Request, CopyPassword, CopyPragmas, CopyInterrupted,
             Connect, Strip, Release, Refuse
    <2> QED
      BY <2>1, OneThread DEF PromiseInv
  <1> QED
    BY <1>1 DEF Asking, Using

\* Nothing that DriverPromise speaks of changes.
Unnoticed == UNCHANGED << file, rekeys, Status, Asking, Using >>

LEMMA Stutters ==
    ASSUME Unnoticed
    PROVE  UNCHANGED Promise!vars
  BY DEF Unnoticed, Promise!vars, Status, Asking, Using, Waiting

\* A thread of the promise asks, is served or is refused.
LEMMA ThreadPromise ==
    ASSUME NEW t \in Threads
    PROVE  /\ /\ Status # "closed" /\ t \notin Asking \cup Using
              /\ Asking' = Asking \cup {t}
              /\ UNCHANGED << file, rekeys, Status, Using >>
              => Promise!Next
           /\ /\ t \in Asking
              /\ Asking' = Asking \ {t} /\ Using' = Using \cup {t}
              /\ \/ /\ Status = "creating" /\ file = Key /\ Rekey # {} /\ rekeys = 0
                    /\ file' = Target /\ rekeys' = 1
                 \/ file = Target /\ UNCHANGED << file, rekeys >>
              /\ UNCHANGED Status
              => Promise!Next
           /\ /\ t \in Asking /\ Status # "open"
              /\ Asking' = Asking \ {t}
              /\ Status' = IF Status = "creating" THEN "closing" ELSE Status
              /\ UNCHANGED << file, rekeys, Using >>
              => Promise!Next
  <1> USE DEF Status, Asking, Using, Waiting, Promise!Next
  <1>1. ASSUME Status # "closed", t \notin Asking \cup Using, Asking' = Asking \cup {t},
               UNCHANGED << file, rekeys, Status, Using >>
        PROVE  Promise!Next
    <2>1. Promise!Ask(t)
      BY <1>1 DEF Promise!Ask
    <2> QED
      BY <2>1
  <1>2. ASSUME t \in Asking, Asking' = Asking \ {t}, Using' = Using \cup {t},
               \/ /\ Status = "creating" /\ file = Key /\ Rekey # {} /\ rekeys = 0
                  /\ file' = Target /\ rekeys' = 1
               \/ file = Target /\ UNCHANGED << file, rekeys >>,
               UNCHANGED Status
        PROVE  Promise!Next
    <2>1. Promise!Serve(t)
      BY <1>2 DEF Promise!Serve, Promise!Rewrite, Target
    <2> QED
      BY <2>1
  <1>3. ASSUME t \in Asking, Status # "open", Asking' = Asking \ {t},
               Status' = (IF Status = "creating" THEN "closing" ELSE Status),
               UNCHANGED << file, rekeys, Using >>
        PROVE  Promise!Next
    <2>1. Promise!Refuse(t)
      BY <1>3 DEF Promise!Refuse
    <2> QED
      BY <2>1
  <1> QED
    BY <1>1, <1>2, <1>3

\* The steps of a thread between its request and its connection, and those that the
\* creator makes with the connection in its hands, are not seen in the promise.
LEMMA UnnoticedStep ==
    ASSUME PromiseInv, NEW t \in Threads,
           Opening(t) \/ CopyPassword(t) \/ CopyPragmas(t) \/ Strip(t)
    PROVE  Unnoticed
  <1>1. UNCHANGED << file, rekeys, closing, driver, late >>
    BY DEF Opening, EnterLock, PrepareFirst, Swap, Pack, SetInitialized, CopyPassword,
           CopyPragmas, Strip, shared
  <1>2. pc[t] \in Waiting <=> pc'[t] \in Waiting
    BY DEF Opening, EnterLock, PrepareFirst, Swap, Pack, SetInitialized, CopyPassword,
           CopyPragmas, Strip, Goto, Waiting, PromiseInv, IInv, TypeOK
  <1>3. conn[t] = {} <=> conn'[t] = {}
    <2>1. CASE Strip(t)
      <3>1. conn'[t] = {[c EXCEPT !.password = {}] : c \in conn[t]}
        BY <2>1 DEF Strip, PromiseInv, IInv, TypeOK
      <3> QED
        BY <3>1
    <2> QED
      BY <2>1 DEF Opening, EnterLock, PrepareFirst, Swap, Pack, SetInitialized, CopyPassword,
                  CopyPragmas
  <1> QED
    BY <1>1, <1>2, <1>3, OthersStay DEF Unnoticed, Status, Asking, Using, Serving

LEMMA RequestPromise ==
    ASSUME PromiseInv, NEW t \in Threads, Request(t)
    PROVE  Promise!Next \/ Unnoticed
  <1>1. /\ pc[t] = "idle" /\ conn[t] = {}
        /\ UNCHANGED << file, rekeys, closing, driver, conn >>
        /\ late'[t] <=> closing = "done"
        /\ pc'[t] \in Waiting
    BY DEF Request, PromiseInv, IInv, TypeOK, Goto, shared, Waiting
  <1>2. t \notin Asking \cup Using
    BY <1>1 DEF Asking, Using, Waiting
  <1>3. UNCHANGED << file, rekeys, Status, Using >>
    BY <1>1 DEF Status, Using
  <1>4. CASE closing = "done"
    <2>1. Asking' = Asking
      BY <1>1, <1>2, <1>4, OthersStay DEF Serving
    <2> QED
      BY <1>3, <2>1 DEF Unnoticed
  <1>5. CASE closing # "done"
    <2>1. Asking' = Asking \cup {t} /\ Status # "closed"
      BY <1>1, <1>5, OthersStay DEF Serving, Status
    <2> QED
      BY <1>2, <1>3, <2>1, ThreadPromise
  <1> QED
    BY <1>4, <1>5

\* A request that ends with an exception, with nothing done to the file.
LEMMA RefusePromise ==
    ASSUME PromiseInv, NEW t \in Threads, Serving(t), Refuse(t), pc[t] \in Waiting,
           UNCHANGED << file, rekeys >>, driver = "created" => closing # "no"
    PROVE  Promise!Next \/ Unnoticed
  <1>1. /\ pc'[t] = "idle" /\ conn[t] = {} /\ UNCHANGED << driver, conn, late >>
        /\ closing' = IF driver = "creating" THEN "pragmas" ELSE closing
    BY DEF Refuse, Goto, PromiseInv, IInv, TypeOK, Held, HeldBy, Waiting, AfterConnect
  <1>2. Asking' = Asking \ {t} /\ Using' = Using
    BY <1>1, OthersStay DEF Waiting, Using
  <1>3. Status' = IF Status = "creating" THEN "closing" ELSE Status
    <2>1. driver = "creating" => closing = "no"
      BY DEF PromiseInv, IInv, Alone, Waiting
    <2>2. driver # "failed"
      BY DEF PromiseInv, IInv, Alone, Waiting
    <2> QED
      BY <1>1, <2>1, <2>2 DEF Status, PromiseInv, IInv, TypeOK
  <1>4. Status # "open"
    BY DEF Status
  <1>5. CASE late[t]
    <2>1. closing = "done" /\ t \notin Asking
      BY <1>5 DEF PromiseInv, LateBy, Asking
    <2>2. Status' = Status
      BY <1>3, <2>1 DEF Status
    <2> QED
      BY <1>2, <2>1, <2>2 DEF Unnoticed
  <1>6. CASE ~late[t]
    <2>1. t \in Asking
      BY <1>6 DEF Asking
    <2> QED
      BY <1>2, <1>3, <1>4, <2>1, ThreadPromise
  <1> QED
    BY <1>5, <1>6

LEMMA ConnectPromise ==
    ASSUME Encrypted, PromiseInv, NEW t \in Threads, Connect(t)
    PROVE  Promise!Next \/ Unnoticed
  <1>1. IInv /\ pc[t] = "connect" /\ t \in Threads
    BY DEF PromiseInv, Connect
  <1>2. CASE KeyFits(t)
    <2>1. /\ pc'[t] = "strip" /\ conn'[t] # {}
          /\ UNCHANGED << closing, driver, late >>
      BY <1>1, <1>2, ConnectCases
    <2>2. ~late[t]
      BY <1>1, <1>2, LateIsRefused DEF PromiseInv
    <2>3. t \in Asking /\ Asking' = Asking \ {t} /\ Using' = Using \cup {t}
      BY <1>1, <2>1, <2>2, OthersStay DEF Asking, Serving, Waiting
    <2>4. UNCHANGED Status
      BY <2>1 DEF Status
    <2>5. CASE isInitialized
      <3>1. file = Target /\ UNCHANGED << file, rekeys >>
        BY <1>1, <1>2, <2>5, ConnectCases DEF IInv, FileKey, Connected
      <3> QED
        BY <2>3, <2>4, <3>1, ThreadPromise
    <2>6. CASE ~isInitialized
      <3>1. file = Key /\ t = Creator /\ driver = "creating" /\ closing = "no"
        BY <1>1, <1>2, <2>6, NewKeys, OnlyTheCreator
      <3>2. rekeys = 0 /\ Status = "creating"
        BY <1>1, <2>6, <3>1 DEF IInv, FileKey, Connected, AfterConnect, Status
      <3>3. CASE Rekey = {}
        BY <1>1, <1>2, <2>3, <2>4, <3>1, <3>3, ConnectCases, ThreadPromise, TargetKey
      <3>4. CASE Rekey # {}
        <4>1. file' = Target /\ rekeys' = 1
          BY <1>1, <1>2, <2>6, <3>2, <3>4, ConnectCases
        <4> QED
          BY <2>3, <2>4, <3>1, <3>2, <3>4, <4>1, ThreadPromise
      <3> QED
        BY <3>3, <3>4
    <2> QED
      BY <2>5, <2>6
  <1>3. CASE ~KeyFits(t)
    <2>1. Refuse(t) /\ UNCHANGED << file, rekeys >> /\ (driver = "created" => closing # "no")
      BY <1>1, <1>3, ConnectCases
    <2> QED
      BY <1>1, <2>1, RefusePromise DEF Serving, Waiting
  <1> QED
    BY <1>2, <1>3

LEMMA InterruptedPromise ==
    ASSUME PromiseInv, NEW t \in Threads, CopyInterrupted(t)
    PROVE  Promise!Next \/ Unnoticed
  <1>1. Refuse(t) /\ pc[t] \in Waiting /\ closing # "no" /\ UNCHANGED << file, rekeys >>
    BY DEF CopyInterrupted, Refuse, Waiting
  <1> QED
    BY <1>1, RefusePromise DEF Serving

LEMMA ReleasePromise ==
    ASSUME PromiseInv, NEW t \in Threads, Release(t)
    PROVE  Promise!Next
  <1>1. /\ pc[t] = "using" /\ pc'[t] = "idle" /\ conn'[t] = {}
        /\ UNCHANGED << file, rekeys, closing, driver, late >>
    BY DEF Release, PromiseInv, IInv, TypeOK, Goto
  <1>2. Asking' = Asking /\ Using' \in SUBSET Using /\ UNCHANGED << file, rekeys, Status >>
    BY <1>1, OthersStay DEF Serving, Asking, Waiting, Status
  <1>3. Promise!Release
    BY <1>2 DEF Promise!Release, Status, Asking, Using, Waiting
  <1> QED
    BY <1>3 DEF Promise!Next

LEMMA DrivingPromise ==
    ASSUME PromiseInv, Driving
    PROVE  Promise!Next \/ Unnoticed
  <1>1. UNCHANGED << file, rekeys, Asking, Using >>
    BY DEF Driving, Created, SchemaFails, Close, ClearPragmas, ClearEntry, Asking, Using
  <1>2. CASE Created
    <2>1. Status = "creating" /\ Status' = "open" /\ file = Target
      BY <1>2 DEF Created, Status, PromiseInv, IInv, FileKey, Connected
    <2>2. Promise!Open
      BY <1>1, <2>1 DEF Promise!Open, Status, Asking, Using, Waiting, Target
    <2> QED
      BY <2>2 DEF Promise!Next
  <1>3. CASE SchemaFails \/ Close
    <2>1. Status \in {"creating", "open"} /\ Status' = "closing"
      BY <1>3 DEF SchemaFails, Close, Status
    <2>2. Promise!Close
      BY <1>1, <2>1 DEF Promise!Close, Status, Asking, Using, Waiting
    <2> QED
      BY <2>2 DEF Promise!Next
  <1>4. CASE ClearPragmas
    <2>1. Status' = Status
      BY <1>4 DEF ClearPragmas, Status
    <2> QED
      BY <1>1, <2>1 DEF Unnoticed
  <1>5. CASE ClearEntry
    <2>1. Status = "closing" /\ Status' \in {"closing", "closed"}
      BY <1>5 DEF ClearEntry, Status
    <2>2. CASE Status' = "closed"
      <3>1. Promise!Closed
        BY <1>1, <2>1, <2>2 DEF Promise!Closed, Status, Asking, Using, Waiting
      <3> QED
        BY <3>1 DEF Promise!Next
    <2> QED
      BY <1>1, <2>1, <2>2 DEF Unnoticed
  <1> QED
    BY <1>2, <1>3, <1>4, <1>5 DEF Driving

\* The driver of the JVM keeps what a driver promises: the file is rekeyed once, with the
\* first connection, no request fails while the driver is open, and none that is made
\* after close has returned is served (JDBCMCProperties.withKeyProps, PlatformDriver).
THEOREM JDBCKeepsPromise ==
    ASSUME Encrypted
    PROVE  Spec => KeepsPromise
  <1>1. Init => Promise!Init /\ PromiseInv
    <2> SUFFICES ASSUME Init
                 PROVE  Promise!Init /\ PromiseInv
      OBVIOUS
    <2>1. Asking = {} /\ Using = {} /\ Status = "creating" /\ file \in Files /\ rekeys = 0
      BY DEF Init, Asking, Using, Status, Waiting
    <2>2. Promise!Init
      BY <2>1 DEF Promise!Init, Asking, Using, Status, Waiting
    <2>3. \A t \in Threads : LateBy(t)
      BY DEF Init, LateBy
    <2> QED
      BY <2>2, <2>3, Initially DEF PromiseInv
  <1>2. PromiseInv /\ [Next]_vars => PromiseInv'
    BY Inductive, LateStep DEF PromiseInv
  <1>3. PromiseInv /\ [Next]_vars => [Promise!Next]_(Promise!vars)
    <2> SUFFICES ASSUME PromiseInv, [Next]_vars
                 PROVE  Promise!Next \/ Unnoticed
      BY Stutters
    <2>1. ASSUME NEW t \in Threads, Opening(t) \/ Serving(t)
          PROVE  Promise!Next \/ Unnoticed
      BY <2>1, UnnoticedStep, RequestPromise, ConnectPromise, InterruptedPromise,
         ReleasePromise DEF Serving
    <2>2. CASE UNCHANGED vars
      BY <2>2 DEF vars, Unnoticed, Status, Asking, Using
    <2> QED
      BY <2>1, <2>2, DrivingPromise, NextCases
  <1> QED
    BY <1>1, <1>2, <1>3, PTL DEF Spec, KeepsPromise, Promise!Spec
===================================================================================
