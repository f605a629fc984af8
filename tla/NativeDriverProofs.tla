---------------------------- MODULE NativeDriverProofs ----------------------------
(* What NativeDriver guarantees for any set of threads, any number of readers and of *)
(* requests.                                                                         *)
EXTENDS NativeDriver, FiniteSetTheorems, TLAPS

\* The key of the file when create returns.
Target == Promise!Target

(***************************************************************************)
(* The inductive invariant: until create returns only the creator has a    *)
(* connection, its first (Alone); how far that one is decides what the     *)
(* maps and the file hold (Pragmas, FileKey); pools close one after the    *)
(* other (OpenPools); and a thread that opens a connection is the only     *)
(* one, has room for it, and has collected complete statements unless      *)
(* close empties the map meanwhile (Opener, Collecting).                   *)
(***************************************************************************)
Open == driver = "creating" \/ closing \in {"no"} \cup Pools

Alone ==
    /\ driver # "created" => closing = "no" /\ \A p \in Pools : entries[p] = 0
    /\ \A t \in Threads : pc[t] # "idle" =>
          /\ driver \in {"creating", "created"}
          /\ driver = "creating" => t = Creator /\ requests # 0

OpenPools ==
    open = CASE closing \in {"no", "transaction"} -> Pools
             [] closing = "reader" -> {"reader"}
             [] OTHER -> {}

\* The first connection is there, or was.
First == pc[Creator] = "using" \/ (pc[Creator] = "idle" /\ requests # 0)

Pragmas ==
    /\ driver = "creating" =>
          IF First \/ pc[Creator] = "select"
          THEN keyPragma = Full(Target) /\ rekeyPragma = Nothing
          ELSE /\ keyPragma = Full(Key)
               /\ rekeyPragma = IF Rekey = {} THEN Nothing ELSE Full(Target)
    /\ driver = "created" =>
          /\ rekeyPragma = Nothing
          /\ Open => keyPragma = Full(Target)
    /\ driver = "failed" \/ closing = "done" => keyPragma = Nothing /\ rekeyPragma = Nothing

FileKey ==
    /\ driver = "created" \/ (driver = "creating" /\ First) => file = Target
    /\ driver = "creating" /\ ~First /\ pc[Creator] \notin {"swap", "select"} => rekeys = 0

Opener ==
    /\ \A t, u \in Threads : pc[t] \in Opening /\ pc[u] \in Opening => t = u
    /\ \A t \in Threads : pc[t] \in Opening => entries[pool[t]] < Capacity(pool[t])

\* The statements for the names before the n-th, of a map that is complete.
Collected(n, k) == [x \in {All[i] : i \in 1 .. n - 1} |-> k]

\* The key a connection is opened with.
KeyNow == IF driver = "created" THEN Target ELSE Key

CollectedBy(t) ==
    /\ pc[t] \notin Opening \/ pc[t] = "check" => statements[t] = Nothing
    /\ pc[t] = "check" => next[t] = 1
    /\ pc[t] = "collect" => next[t] \in 1 .. 4
    /\ pc[t] \in {"rekey", "swap"} => driver = "creating" /\ Rekey # {}
    /\ Open =>
          /\ pc[t] = "collect" => statements[t] = Collected(next[t], KeyNow)
          /\ pc[t] \in {"execute", "rekey"} => statements[t] = Full(KeyNow)
          /\ pc[t] \in {"swap", "select"} => statements[t] = Full(Target)

Collecting == \A t \in Threads : CollectedBy(t)

\* Who asks after close has returned finds the pools closed.
Late == \A t \in Threads : late[t] => closing = "done" /\ pc[t] \in {"idle", "asking"}

IInv ==
    /\ TypeOK
    /\ Alone /\ OpenPools /\ Pragmas /\ FileKey /\ Opener /\ Collecting /\ Late

\* The actions of a thread that waits for a connection or has one, those of a thread that
\* opens one, and those of the driver.
Waiting(t) ==
    \/ \E p \in Pools : Ask(t, p)
    \/ Take(t) \/ OpenConnection(t) \/ ClosedPool(t) \/ Release(t)

Keying(t) == Check(t) \/ Collect(t) \/ Execute(t) \/ RekeyFile(t) \/ Swap(t) \/ Select(t)

Driving == Reject \/ Created \/ SchemaFails \/ Close \/ ClosePool \/ ClearEntry

LEMMA NextCases ==
    [Next]_vars =>
        \/ \E t \in Threads : Waiting(t) \/ Keying(t)
        \/ Driving \/ UNCHANGED vars
  BY DEF Next, Waiting, Keying, Driving

-----------------------------------------------------------------------------
(* Keys and maps of pragmas                                                *)

\* The key that create leaves behind is the one asked for.
LEMMA TargetKey ==
    /\ Rekey = {} => Target = Key
    /\ Rekey # {} => Rekey = {Target} /\ (CHOOSE k \in Rekey : TRUE) = Target
  <1>1. ASSUME NEW k \in Rekey
        PROVE  Rekey = {Target} /\ (CHOOSE x \in Rekey : TRUE) = Target
    <2>1. Rekey = {k}
      BY NativeAssumptions
    <2>2. (CHOOSE x \in Rekey : TRUE) \in Rekey
      BY <2>1
    <2> QED
      BY <2>1, <2>2 DEF Target, Promise!Target
  <1> QED
    BY <1>1 DEF Target, Promise!Target

LEMMA AllNames ==
    /\ Len(All) = 4 /\ DOMAIN All = 1 .. 4
    /\ Names = {"cipher", "legacy", "kdf_iter", "key"}
    /\ \A i \in 1 .. 4 : All[i] \in Names
    /\ Required \subseteq Names
  <1>1. Len(All) = 4 /\ DOMAIN All = 1 .. 4
    BY DEF All
  <1>2. \A i \in 1 .. 4 : All[i] \in {"cipher", "legacy", "kdf_iter", "key"}
    BY DEF All
  <1>3. All[1] = "cipher" /\ All[2] = "legacy" /\ All[3] = "kdf_iter" /\ All[4] = "key"
    BY DEF All
  <1>4. Names = {"cipher", "legacy", "kdf_iter", "key"}
    BY <1>1, <1>2, <1>3 DEF Names
  <1> QED
    BY <1>1, <1>2, <1>4 DEF Required

\* A map that holds every pragma of a key is not empty, and it tells the key.
LEMMA FullMap ==
    /\ \A k : DOMAIN Full(k) = Names /\ Full(k) # Nothing
    /\ \A k, l : Full(k) = Full(l) => k = l
    /\ \A k \in {Key} \cup Rekey : Full(k) \in Maps
    /\ Nothing \in Maps
  <1>1. "key" \in Names
    BY AllNames
  <1>2. \A k : DOMAIN Full(k) = Names /\ Full(k)["key"] = k
    BY <1>1 DEF Full
  <1>3. DOMAIN Nothing = {}
    BY DEF Nothing
  <1>4. ASSUME NEW k \in {Key} \cup Rekey
        PROVE  Full(k) \in Maps
    BY DEF Full, Maps
  <1>5. Nothing \in Maps
    <2>1. Nothing \in [{} -> {Key} \cup Rekey]
      BY DEF Nothing
    <2> QED
      BY <2>1 DEF Maps
  <1> QED
    BY <1>1, <1>2, <1>3, <1>4, <1>5

\* toMCSQLStatements over a map that is complete: it begins with nothing, adds one name
\* after the other, and ends with the whole map.
LEMMA CollectedMap ==
    ASSUME NEW k
    PROVE  /\ Collected(1, k) = Nothing /\ Collected(5, k) = Full(k)
           /\ \A n \in 1 .. 4 :
                 [y \in DOMAIN Collected(n, k) \cup {All[n]} |->
                     IF y = All[n] THEN Full(k)[All[n]] ELSE Collected(n, k)[y]]
                 = Collected(n + 1, k)
  <1>1. Collected(1, k) = Nothing
    <2>1. {All[i] : i \in 1 .. 1 - 1} = {}
      OBVIOUS
    <2> QED
      BY <2>1 DEF Collected, Nothing
  <1>2. Collected(5, k) = Full(k)
    <2>1. {All[i] : i \in 1 .. 5 - 1} = Names
      BY AllNames DEF Names
    <2> QED
      BY <2>1 DEF Collected, Full
  <1>3. ASSUME NEW n \in 1 .. 4
        PROVE  [y \in DOMAIN Collected(n, k) \cup {All[n]} |->
                   IF y = All[n] THEN Full(k)[All[n]] ELSE Collected(n, k)[y]]
               = Collected(n + 1, k)
    <2>1. {All[i] : i \in 1 .. n - 1} \cup {All[n]} = {All[i] : i \in 1 .. (n + 1) - 1}
      OBVIOUS
    <2>2. All[n] \in Names
      BY AllNames
    <2> QED
      BY <2>1, <2>2 DEF Collected, Full
  <1> QED
    BY <1>1, <1>2, <1>3

LEMMA Capacities == \A p \in Pools : Capacity(p) \in Nat /\ Capacity(p) >= 1
  BY NativeAssumptions DEF Capacity

-----------------------------------------------------------------------------
(* Every step preserves the invariant                                      *)

Labels == {"idle", "asking", "using"} \cup Opening

LEMMA AloneStep == IInv /\ [Next]_vars => Alone'
  <1> SUFFICES ASSUME IInv, [Next]_vars
               PROVE  Alone'
    OBVIOUS
  <1> USE NativeAssumptions DEF Alone, life, pools
  <1>1. /\ pc \in [Threads -> Labels] /\ Alone /\ requests \in Nat
        /\ entries \in [Pools -> Nat]
    BY DEF IInv, TypeOK, Labels
  <1>2. ASSUME NEW t \in Threads, Waiting(t)
        PROVE  Alone'
    BY <1>1, <1>2 DEF Waiting, Ask, Take, OpenConnection, ClosedPool, Release, Refuse, Goto, maps
  <1>3. ASSUME NEW t \in Threads, Keying(t)
        PROVE  Alone'
    <2>1. pc[t] # "idle"
      BY <1>3 DEF Keying, Check, Collect, Execute, RekeyFile, Swap, Select
    <2> QED
      BY <1>1, <1>3, <2>1 DEF Keying, Check, Collect, Execute, RekeyFile, Swap, Select, Refuse, Goto, maps
  <1>4. CASE Driving
    BY <1>1, <1>4 DEF Driving, Reject, Created, SchemaFails, Close, ClosePool, ClearEntry, Refuse,
                      Goto, maps, Pools
  <1>5. CASE UNCHANGED vars
    BY <1>1, <1>5 DEF vars
  <1> QED
    BY <1>2, <1>3, <1>4, <1>5, NextCases

LEMMA OpenPoolsStep == IInv /\ [Next]_vars => OpenPools'
  <1> SUFFICES ASSUME IInv, [Next]_vars
               PROVE  OpenPools'
    OBVIOUS
  <1> USE DEF OpenPools
  <1>1. OpenPools
    BY DEF IInv
  <1>2. CASE ClosePool
    BY <1>1, <1>2 DEF ClosePool, Pools
  <1>3. CASE Close \/ ClearEntry
    BY <1>1, <1>3 DEF Close, ClearEntry, pools
  <1>4. UNCHANGED << open, closing >> \/ ClosePool \/ Close \/ ClearEntry
    BY DEF Next, vars, life, pools, Ask, Take, OpenConnection, ClosedPool, Check, Collect,
           Execute, RekeyFile, Swap, Select, Release, Reject, Created, SchemaFails
  <1> QED
    BY <1>1, <1>2, <1>3, <1>4

\* A step of one thread leaves the others alone.
LEMMA OneThread ==
    ASSUME IInv, NEW t \in Threads, Waiting(t) \/ Keying(t) \/ (SchemaFails /\ t = Creator)
    PROVE  /\ \E l \in Labels : pc' = [pc EXCEPT ![t] = l]
           /\ \A u \in Threads \ {t} :
                 /\ pc'[u] = pc[u] /\ pool'[u] = pool[u] /\ next'[u] = next[u]
                 /\ statements'[u] = statements[u] /\ late'[u] = late[u]
           /\ closing' = closing /\ open' = open
  <1> USE DEF IInv, TypeOK, Goto, Labels, Opening, Refuse, maps, life, pools
  <1>1. CASE Waiting(t)
    BY <1>1 DEF Waiting, Ask, Take, OpenConnection, ClosedPool, Release
  <1>2. CASE Keying(t)
    BY <1>2 DEF Keying, Check, Collect, Execute, RekeyFile, Swap, Select
  <1>3. CASE SchemaFails /\ t = Creator
    BY <1>3 DEF SchemaFails
  <1> QED
    BY <1>1, <1>2, <1>3

LEMMA LateStep == IInv /\ [Next]_vars => Late'
  <1> SUFFICES ASSUME IInv, [Next]_vars
               PROVE  Late'
    OBVIOUS
  <1> USE DEF Late
  <1>1. /\ pc \in [Threads -> Labels] /\ late \in [Threads -> BOOLEAN] /\ Late /\ OpenPools
    BY DEF IInv, TypeOK, Labels
  <1>2. closing = "done" => open = {}
    BY <1>1 DEF OpenPools
  <1>3. ASSUME NEW t \in Threads, Waiting(t)
        PROVE  Late'
    <2>1. late'[t] => closing = "done" /\ pc'[t] \in {"idle", "asking"}
      BY <1>1, <1>2, <1>3 DEF Waiting, Ask, Take, OpenConnection, ClosedPool, Release, Refuse, Goto
    <2> QED
      BY <1>1, <1>3, <2>1, OneThread
  <1>4. ASSUME NEW t \in Threads, Keying(t)
        PROVE  Late'
    <2>1. ~late'[t]
      BY <1>1, <1>4 DEF Keying, Check, Collect, Execute, RekeyFile, Swap, Select
    <2> QED
      BY <1>1, <1>4, <2>1, OneThread
  <1>5. CASE SchemaFails
    BY <1>1, <1>5 DEF SchemaFails, Refuse, Goto
  <1>6. CASE ClosePool \/ Close \/ ClearEntry \/ Reject \/ Created
    BY <1>1, <1>6 DEF ClosePool, Close, ClearEntry, Reject, Created, Pools
  <1>7. CASE UNCHANGED vars
    BY <1>1, <1>7 DEF vars, life
  <1> QED
    BY <1>3, <1>4, <1>5, <1>6, <1>7, NextCases DEF Driving

LEMMA OpenerStep == IInv /\ [Next]_vars => Opener'
  <1> SUFFICES ASSUME IInv, [Next]_vars
               PROVE  Opener'
    OBVIOUS
  <1>1. /\ pc \in [Threads -> Labels] /\ pool \in [Threads -> Pools]
        /\ entries \in [Pools -> Nat] /\ Opener
    BY DEF IInv, TypeOK, Labels
  <1>2. ASSUME NEW t \in Threads, Waiting(t) \/ Keying(t) \/ (SchemaFails /\ t = Creator)
        PROVE  Opener'
    <2>1. /\ \A u \in Threads \ {t} : pc'[u] = pc[u] /\ pool'[u] = pool[u]
      BY <1>2, OneThread
    <2>2. CASE OpenConnection(t)
      BY <1>1, <2>1, <2>2 DEF OpenConnection, Opener, Goto, pools, Opening
    <2>3. CASE Select(t)
      <3>1. pc[t] \in Opening /\ pc'[t] \notin Opening
        BY <1>1, <2>3 DEF Select, Refuse, Goto, Opening
      <3>2. \A u \in Threads : pc'[u] \notin Opening
        BY <1>1, <2>1, <3>1 DEF Opener
      <3> QED
        BY <3>2 DEF Opener
    <2>4. CASE ~OpenConnection(t) /\ ~Select(t)
      <3>1. pc'[t] \in Opening => pc[t] \in Opening
        BY <1>1, <1>2, <2>4 DEF Waiting, Ask, Take, ClosedPool, Release, Keying, Check, Collect,
           Execute, RekeyFile, Swap, SchemaFails, Refuse, Goto, Opening
      <3>2. entries' = entries /\ (pc[t] \in Opening => pool'[t] = pool[t])
        BY <1>1, <1>2, <2>4 DEF Waiting, Ask, Take, ClosedPool, Release, Keying, Check, Collect,
           Execute, RekeyFile, Swap, SchemaFails, pools, Opening
      <3> QED
        BY <1>1, <2>1, <3>1, <3>2 DEF Opener
    <2> QED
      BY <2>2, <2>3, <2>4
  <1>3. CASE ClosePool
    BY <1>1, <1>3, Capacities DEF ClosePool, Opener, Opening
  <1>4. CASE Reject \/ Created \/ Close \/ ClearEntry
    BY <1>1, <1>4 DEF Reject, Created, Close, ClearEntry, Opener, pools
  <1>5. CASE UNCHANGED vars
    BY <1>1, <1>5 DEF vars, Opener, pools
  <1> QED
    BY <1>2, <1>3, <1>4, <1>5, NextCases, NativeAssumptions DEF Driving

\* While the driver is created only its creator does anything.
LEMMA OnlyTheCreator ==
    ASSUME IInv, NEW t \in Threads, pc[t] # "idle"
    PROVE  \/ driver = "creating" /\ closing = "no" /\ t = Creator /\ requests # 0
           \/ driver = "created"
  BY DEF IInv, Alone

\* No connection waits in the pool before the first one was returned to it.
LEMMA TakeLater ==
    ASSUME IInv, NEW t \in Threads, Take(t)
    PROVE  driver = "created"
  <1>1. pc[t] = "asking" /\ Cardinality(Users(pool[t])) < entries[pool[t]] /\ pool[t] \in Pools
    BY DEF Take, IInv, TypeOK
  <1> SUFFICES ASSUME driver = "creating"
               PROVE  FALSE
    BY <1>1, OnlyTheCreator
  <1>2. entries[pool[t]] = 0
    BY <1>1 DEF IInv, Alone
  <1>3. Users(pool[t]) = {}
    BY <1>1, OnlyTheCreator DEF Users
  <1> QED
    BY <1>1, <1>2, <1>3, FS_EmptySet

LEMMA PragmasStep == IInv /\ [Next]_vars => Pragmas'
  <1> SUFFICES ASSUME IInv, [Next]_vars
               PROVE  Pragmas'
    OBVIOUS
  <1> USE NativeAssumptions
  <1>1. /\ pc \in [Threads -> Labels] /\ requests \in Nat
        /\ Pragmas /\ Alone
    BY DEF IInv, TypeOK, Labels
  <1>2. ASSUME NEW t \in Threads, Refuse(t), closing' = closing
        PROVE  Pragmas'
    <2>1. CASE driver = "creating"
      BY <1>1, <1>2, <2>1 DEF Refuse, Pragmas
    <2>2. CASE driver # "creating"
      BY <1>1, <1>2, <2>2 DEF Refuse, Pragmas, maps, Open
    <2> QED
      BY <2>1, <2>2
  <1>3. ASSUME NEW t \in Threads, UNCHANGED << maps, driver, closing >>, pc[t] # "idle",
               pc'[Creator] = pc[Creator] \/ t = Creator, requests' = requests,
               pc[t] \in {"select", "using"} <=> pc'[t] \in {"select", "using", "idle"}
        PROVE  Pragmas'
    <2>1. driver = "creating" =>
              (First \/ pc[Creator] = "select")' = (First \/ pc[Creator] = "select")
      BY <1>1, <1>3 DEF First, Alone
    <2> QED
      BY <1>1, <1>3, <2>1 DEF Pragmas, Open, maps
  <1>4. ASSUME NEW t \in Threads, UNCHANGED << maps, driver, closing >>, driver = "created"
        PROVE  Pragmas'
    BY <1>1, <1>4 DEF Pragmas, maps, Open
  <1>5. ASSUME NEW t \in Threads, Waiting(t)
        PROVE  Pragmas'
    <2>1. ASSUME NEW p \in Pools, Ask(t, p)
          PROVE  Pragmas'
      <3>1. UNCHANGED << maps, driver, closing >>
        BY <2>1 DEF Ask, life
      <3>2. CASE driver = "creating"
        <4>1. ~(First \/ pc[Creator] = "select") /\ ~(First \/ pc[Creator] = "select")'
          BY <1>1, <2>1, <3>2 DEF Ask, First, Goto
        <4> QED
          BY <1>1, <3>1, <3>2, <4>1 DEF Pragmas, maps
      <3> QED
        BY <1>4, <2>1, <3>1, <3>2 DEF Ask
    <2>2. CASE Take(t)
      <3>1. driver = "created"
        BY <2>2, TakeLater
      <3> QED
        BY <1>4, <2>2, <3>1 DEF Take, life
    <2>3. CASE OpenConnection(t) \/ Release(t)
      <3>1. /\ pc[t] # "idle" /\ UNCHANGED << maps, driver, closing, requests >>
            /\ pc'[Creator] = pc[Creator] \/ t = Creator
            /\ pc[t] \in {"select", "using"} <=> pc'[t] \in {"select", "using", "idle"}
        BY <1>1, <2>3 DEF OpenConnection, Release, Goto, life
      <3> QED
        BY <1>3, <3>1
    <2>4. CASE ClosedPool(t)
      BY <1>2, <2>4 DEF ClosedPool
    <2> QED
      BY <1>5, <2>1, <2>2, <2>3, <2>4 DEF Waiting
  <1>6. ASSUME NEW t \in Threads, Check(t) \/ Collect(t) \/ RekeyFile(t) \/ Select(t)
        PROVE  Pragmas'
    <2>1. CASE Refuse(t)
      BY <1>2, <1>6, <2>1 DEF Check, Collect, RekeyFile, Select, life
    <2>2. CASE ~Refuse(t)
      <3>1. /\ pc[t] # "idle" /\ UNCHANGED << maps, driver, closing, requests >>
            /\ pc'[Creator] = pc[Creator] \/ t = Creator
            /\ pc[t] \in {"select", "using"} <=> pc'[t] \in {"select", "using", "idle"}
        BY <1>1, <1>6, <2>2 DEF Check, Collect, RekeyFile, Select, Goto, life
      <3> QED
        BY <1>3, <3>1
    <2> QED
      BY <2>1, <2>2
  <1>7. ASSUME NEW t \in Threads, Execute(t)
        PROVE  Pragmas'
    <2>1. pc[t] = "execute" /\ UNCHANGED << maps, driver, closing, requests >>
      BY <1>7 DEF Execute, life
    <2>2. CASE driver = "creating"
      <3>1. t = Creator /\ closing = "no"
        BY <2>1, <2>2, OnlyTheCreator
      <3>2. keyPragma = Full(Key) /\ rekeyPragma = IF Rekey = {} THEN Nothing ELSE Full(Target)
        BY <1>1, <2>1, <2>2, <3>1 DEF Pragmas, First
      <3>3. CASE Rekey = {}
        BY <2>1, <2>2, <3>1, <3>2, <3>3, TargetKey DEF Pragmas, maps
      <3>4. CASE Rekey # {}
        <4>1. pc'[Creator] = "rekey"
          BY <1>1, <1>7, <3>1, <3>2, <3>4, FullMap DEF Execute, Goto
        <4> QED
          BY <2>1, <2>2, <3>1, <3>2, <4>1 DEF Pragmas, First, maps
      <3> QED
        BY <3>3, <3>4
    <2> QED
      BY <1>4, <2>1, <2>2, OnlyTheCreator
  <1>8. ASSUME NEW t \in Threads, Swap(t)
        PROVE  Pragmas'
    <2>1. CASE Refuse(t)
      BY <1>2, <1>8, <2>1 DEF Swap
    <2>2. CASE ~Refuse(t)
      <3>1. /\ pc[t] = "swap" /\ driver = "creating" /\ t = Creator /\ closing = "no"
        BY <1>8, OnlyTheCreator DEF Swap, IInv, Collecting, CollectedBy
      <3>2. /\ keyPragma' = rekeyPragma /\ rekeyPragma' = Nothing
            /\ driver' = driver /\ closing' = closing
        BY <1>8, <2>2 DEF Swap
      <3>3. Rekey # {}
        BY <3>1 DEF IInv, Collecting, CollectedBy
      <3>4. rekeyPragma = Full(Target)
        BY <1>1, <3>1, <3>3 DEF Pragmas, First
      <3>5. pc'[Creator] = "select"
        BY <1>1, <1>8, <2>2, <3>1 DEF Swap, Goto
      <3> QED
        BY <3>1, <3>2, <3>4, <3>5 DEF Pragmas
    <2> QED
      BY <2>1, <2>2
  <1>9. CASE Driving
    <2>1. CASE SchemaFails
      BY <1>2, <2>1 DEF SchemaFails
    <2>2. CASE Created
      BY <1>1, <2>2 DEF Created, Pragmas, First, Alone, maps
    <2>3. CASE Reject \/ Close \/ ClosePool
      BY <1>1, <2>3 DEF Reject, Close, ClosePool, Pragmas, Alone, Open, Pools, maps
    <2>4. CASE ClearEntry
      BY <1>1, <2>4 DEF ClearEntry, Pragmas, Alone, Open, Pools
    <2> QED
      BY <1>9, <2>1, <2>2, <2>3, <2>4 DEF Driving
  <1>10. CASE UNCHANGED vars
    BY <1>1, <1>10 DEF vars, maps, life, Pragmas, Open, First
  <1> QED
    BY <1>5, <1>6, <1>7, <1>8, <1>9, <1>10, NextCases DEF Keying

\* The statements of a connection open the file if it is written with their key.
LEMMA ReadsTheFile ==
    ASSUME IInv, NEW t \in Threads, Open
    PROVE  /\ pc[t] = "rekey" => (Reads(t) <=> file = Key)
           /\ pc[t] = "select" => (Reads(t) <=> file = Target)
  <1>1. pc[t] = "rekey" => statements[t] = Full(Key)
    BY DEF IInv, Collecting, CollectedBy, KeyNow
  <1>2. pc[t] = "select" => statements[t] = Full(Target)
    BY DEF IInv, Collecting, CollectedBy
  <1> QED
    BY <1>1, <1>2, FullMap DEF Reads

LEMMA FileKeyStep == IInv /\ [Next]_vars => FileKey'
  <1> SUFFICES ASSUME IInv, [Next]_vars
               PROVE  FileKey'
    OBVIOUS
  <1> USE NativeAssumptions
  <1>1. /\ pc \in [Threads -> Labels] /\ requests \in Nat
        /\ FileKey /\ Alone
    BY DEF IInv, TypeOK, Labels
  <1>2. ASSUME NEW t \in Threads, Refuse(t), UNCHANGED << file, rekeys >>
        PROVE  FileKey'
    BY <1>1, <1>2 DEF Refuse, FileKey
  <1>3. ASSUME NEW t \in Threads, UNCHANGED << file, rekeys, driver >>, driver = "created"
        PROVE  FileKey'
    BY <1>1, <1>3 DEF FileKey
  <1>4. ASSUME NEW t \in Threads, Waiting(t)
        PROVE  FileKey'
    <2>1. CASE ClosedPool(t)
      BY <1>2, <2>1 DEF ClosedPool
    <2>2. CASE Take(t)
      <3>1. driver = "created"
        BY <2>2, TakeLater
      <3> QED
        BY <1>3, <2>2, <3>1 DEF Take, life
    <2>3. ASSUME NEW p \in Pools, Ask(t, p)
          PROVE  FileKey'
      BY <1>1, <2>3 DEF Ask, Goto, FileKey, First, Alone, life
    <2>4. CASE OpenConnection(t) \/ Release(t)
      BY <1>1, <2>4 DEF OpenConnection, Release, Goto, FileKey, First, Alone, life
    <2> QED
      BY <1>4, <2>1, <2>2, <2>3, <2>4 DEF Waiting
  <1>5. ASSUME NEW t \in Threads, Keying(t), ~Refuse(t)
        PROVE  FileKey'
    <2>1. /\ pc[t] # "idle" /\ driver' = driver /\ requests' = requests
          /\ \E l \in Labels : pc' = [pc EXCEPT ![t] = l]
      BY <1>5, OneThread
         DEF Keying, Check, Collect, Execute, RekeyFile, Swap, Select, life
    <2>2. CASE driver = "creating"
      <3>1. t = Creator /\ Open
        BY <2>1, <2>2, OnlyTheCreator DEF Open
      <3>2. CASE Check(t) \/ Collect(t) \/ Execute(t) \/ Swap(t)
        BY <1>1, <1>5, <2>2, <3>1, <3>2 DEF Check, Collect, Execute, Swap, Goto, FileKey, First, life
      <3>3. CASE RekeyFile(t)
        BY <1>1, <1>5, <2>1, <2>2, <3>1, <3>3 DEF RekeyFile, Goto, FileKey, First
      <3>4. CASE Select(t)
        <4>1. pc[t] = "select" /\ Reads(t) /\ file' = file /\ pc'[t] = "using"
          BY <1>1, <1>5, <3>4 DEF Select, Goto
        <4>2. file' = Target
          BY <3>1, <4>1, ReadsTheFile
        <4> QED
          BY <2>1, <2>2, <3>1, <4>1, <4>2 DEF FileKey, First
      <3> QED
        BY <1>5, <3>2, <3>3, <3>4 DEF Keying
    <2>3. CASE driver = "created"
      <3>1. UNCHANGED << file, rekeys >>
        BY <1>5, <2>3 DEF Keying, Check, Collect, Execute, RekeyFile, Swap, Select,
                          IInv, Collecting, CollectedBy
      <3> QED
        BY <1>3, <2>1, <2>3, <3>1
    <2> QED
      BY <2>1, <2>2, <2>3, OnlyTheCreator
  <1>6. ASSUME NEW t \in Threads, Keying(t), Refuse(t)
        PROVE  FileKey'
    <2>1. pc'[t] = "idle"
      BY <1>1, <1>6 DEF Refuse, Goto
    <2>2. UNCHANGED << file, rekeys >>
      BY <1>1, <1>6, <2>1 DEF Keying, Check, Collect, Execute, RekeyFile, Swap, Select, Goto
    <2> QED
      BY <1>2, <1>6, <2>2
  <1>7. CASE Driving
    <2>1. CASE SchemaFails
      BY <1>2, <2>1 DEF SchemaFails
    <2>2. CASE Created
      BY <1>1, <2>2 DEF Created, FileKey, First
    <2>3. CASE Reject \/ Close \/ ClosePool \/ ClearEntry
      BY <1>1, <2>3 DEF Reject, Close, ClosePool, ClearEntry, FileKey, Alone, Pools
    <2> QED
      BY <1>7, <2>1, <2>2, <2>3 DEF Driving
  <1>8. CASE UNCHANGED vars
    BY <1>1, <1>8 DEF vars, life, FileKey, First
  <1> QED
    BY <1>4, <1>5, <1>6, <1>7, <1>8, NextCases

LEMMA CollectingStep == IInv /\ [Next]_vars => Collecting'
  <1> SUFFICES ASSUME IInv, [Next]_vars
               PROVE  Collecting'
    OBVIOUS
  <1> USE NativeAssumptions
  <1>1. /\ pc \in [Threads -> Labels] /\ next \in [Threads -> 1 .. 5]
        /\ statements \in [Threads -> Maps] /\ requests \in Nat
        /\ Collecting /\ Alone /\ Pragmas
    BY AllNames DEF IInv, TypeOK, Labels
  \* The others keep what they have collected, for the key they have collected it for.
  <1>2. ASSUME NEW t \in Threads, Waiting(t) \/ Keying(t) \/ (SchemaFails /\ t = Creator),
               CollectedBy(t)'
        PROVE  Collecting'
    <2>1. ASSUME NEW u \in Threads \ {t}
          PROVE  CollectedBy(u)'
      <3>1. /\ pc'[u] = pc[u] /\ next'[u] = next[u] /\ statements'[u] = statements[u]
            /\ closing' = closing
        BY <1>2, OneThread
      <3>2. driver' = driver \/ (driver = "creating" /\ Refuse(t))
        BY <1>2 DEF Waiting, Ask, Take, OpenConnection, ClosedPool, Release, Keying, Check, Collect,
           Execute, RekeyFile, Swap, Select, SchemaFails, life, Refuse
      <3>3. CASE driver' = driver
        BY <1>1, <3>1, <3>3 DEF Collecting, CollectedBy, KeyNow, Open
      <3>4. CASE driver = "creating" /\ Refuse(t)
        <4>1. pc[t] # "idle"
          BY <1>1, <1>2, <3>4 DEF Waiting, Ask, Take, OpenConnection, ClosedPool, Release,
             Keying, Check, Collect, Execute, RekeyFile, Swap, Select, SchemaFails, Refuse, Goto
        <4>2. pc[u] = "idle"
          BY <3>4, <4>1, OnlyTheCreator
        <4> QED
          BY <1>1, <3>1, <4>2 DEF Collecting, CollectedBy, Opening
      <3> QED
        BY <3>2, <3>3, <3>4
    <2> QED
      BY <1>2, <2>1 DEF Collecting
  <1>3. ASSUME NEW t \in Threads, Refuse(t)
        PROVE  CollectedBy(t)'
    <2>1. pc'[t] = "idle" /\ statements'[t] = Nothing
      BY <1>1, <1>3 DEF Refuse, Goto
    <2> QED
      BY <2>1 DEF CollectedBy, Opening
  <1>4. ASSUME NEW t \in Threads, Waiting(t)
        PROVE  CollectedBy(t)'
    <2>1. CASE ClosedPool(t)
      BY <1>3, <2>1 DEF ClosedPool
    <2>2. CASE OpenConnection(t)
      <3>1. statements[t] = Nothing
        BY <1>1, <2>2 DEF OpenConnection, Collecting, CollectedBy, Opening
      <3> QED
        BY <1>1, <2>2, <3>1 DEF OpenConnection, Goto, CollectedBy, Opening
    <2>3. CASE ~ClosedPool(t) /\ ~OpenConnection(t)
      <3>1. /\ pc[t] \notin Opening /\ pc'[t] \in {"idle", "asking", "using"}
            /\ statements' = statements
        BY <1>1, <1>4, <2>3 DEF Waiting, Ask, Take, Release, Goto, Opening
      <3> QED
        BY <1>1, <3>1 DEF Collecting, CollectedBy, Opening
    <2> QED
      BY <2>1, <2>2, <2>3
  \* The map is complete while the driver is open.
  <1>5. ASSUME NEW t \in Threads, pc[t] \in {"check", "collect", "execute"}, Open
        PROVE  keyPragma = Full(KeyNow)
    BY <1>1, <1>5, OnlyTheCreator DEF Pragmas, KeyNow, First, Opening
  <1>6. ASSUME NEW t \in Threads, Keying(t), ~Refuse(t)
        PROVE  CollectedBy(t)'
    <2>1. UNCHANGED << driver, closing >> /\ KeyNow' = KeyNow /\ Open' = Open
      BY <1>6 DEF Keying, Check, Collect, Execute, RekeyFile, Swap, Select, life, KeyNow, Open
    <2>2. CASE Check(t)
      <3>1. /\ pc'[t] = "collect" /\ next'[t] = 1 /\ statements'[t] = Nothing
        BY <1>1, <1>6, <2>2 DEF Check, Goto, Collecting, CollectedBy
      <3>2. Nothing = Collected(1, KeyNow)
        BY CollectedMap
      <3> QED
        BY <2>1, <3>1, <3>2 DEF CollectedBy, Opening
    <2>3. CASE Collect(t)
      <3>1. next[t] \in 1 .. 4 /\ pc[t] = "collect"
        BY <1>1, <2>3 DEF Collect, Collecting, CollectedBy
      <3>2. /\ next'[t] = next[t] + 1
            /\ pc'[t] = IF next[t] = 4 THEN "execute" ELSE "collect"
        BY <1>1, <2>3, AllNames DEF Collect, Goto
      <3>3. ASSUME Open
            PROVE  statements'[t] = Collected(next[t] + 1, KeyNow)
        <4>1. /\ keyPragma = Full(KeyNow) /\ statements[t] = Collected(next[t], KeyNow)
          BY <1>1, <1>5, <3>1, <3>3 DEF Collecting, CollectedBy
        <4>2. Has(keyPragma, All[next[t]])
          BY <3>1, <4>1, AllNames, FullMap DEF Has
        <4>3. statements'[t] =
                 [y \in DOMAIN Collected(next[t], KeyNow) \cup {All[next[t]]} |->
                     IF y = All[next[t]] THEN Full(KeyNow)[All[next[t]]]
                     ELSE Collected(next[t], KeyNow)[y]]
          BY <1>1, <2>3, <4>1, <4>2 DEF Collect
        <4> QED
          BY <3>1, <4>3, CollectedMap
      <3>4. ASSUME next[t] = 4, Open
            PROVE  statements'[t] = Full(KeyNow)
        <4>1. next[t] + 1 = 5
          BY <3>4
        <4> QED
          BY <3>3, <3>4, <4>1, CollectedMap
      <3> QED
        BY <2>1, <3>1, <3>2, <3>3, <3>4 DEF CollectedBy, Opening
    <2>4. CASE Execute(t)
      <3>1. /\ pc[t] = "execute" /\ statements'[t] = statements[t]
            /\ pc'[t] = IF rekeyPragma = Nothing THEN "select" ELSE "rekey"
        BY <1>1, <2>4 DEF Execute, Goto
      <3>2. Open => statements[t] = Full(KeyNow)
        BY <1>1, <3>1 DEF Collecting, CollectedBy
      <3>3. CASE driver = "created"
        <4>1. rekeyPragma = Nothing /\ KeyNow = Target
          BY <1>1, <3>3 DEF Pragmas, KeyNow
        <4> QED
          BY <2>1, <3>1, <3>2, <4>1 DEF CollectedBy, Opening
      <3>4. CASE driver = "creating"
        <4>1. t = Creator
          BY <3>1, <3>4, OnlyTheCreator
        <4>2. rekeyPragma = IF Rekey = {} THEN Nothing ELSE Full(Target)
          BY <1>1, <3>1, <3>4, <4>1 DEF Pragmas, First
        <4>3. rekeyPragma = Nothing <=> Rekey = {}
          BY <4>2, FullMap
        <4>4. Rekey = {} => KeyNow = Target
          BY <3>4, TargetKey DEF KeyNow
        <4> QED
          BY <2>1, <3>1, <3>2, <3>4, <4>3, <4>4 DEF CollectedBy, Opening
      <3> QED
        BY <3>1, <3>3, <3>4, OnlyTheCreator
    <2>5. CASE RekeyFile(t)
      <3>1. /\ pc[t] = "rekey" /\ pc'[t] = "swap" /\ driver = "creating"
            /\ \E k \in Rekey : statements'[t] = Full(k)
        BY <1>1, <1>6, <2>5 DEF RekeyFile, Goto, Collecting, CollectedBy
      <3>2. statements'[t] = Full(Target) /\ Rekey # {}
        BY <3>1, TargetKey
      <3> QED
        BY <2>1, <3>1, <3>2 DEF CollectedBy, Opening
    <2>6. CASE Swap(t)
      <3>1. pc[t] = "swap" /\ pc'[t] = "select" /\ statements'[t] = statements[t]
        BY <1>1, <1>6, <2>6 DEF Swap, Goto
      <3> QED
        BY <1>1, <2>1, <3>1 DEF Collecting, CollectedBy, Opening
    <2>7. CASE Select(t)
      <3>1. pc'[t] = "using" /\ statements'[t] = Nothing
        BY <1>1, <1>6, <2>7 DEF Select, Goto
      <3> QED
        BY <3>1 DEF CollectedBy, Opening
    <2> QED
      BY <1>6, <2>2, <2>3, <2>4, <2>5, <2>6, <2>7 DEF Keying
  <1>7. CASE SchemaFails
    BY <1>2, <1>3, <1>7 DEF SchemaFails
  <1>8. CASE Created
    <2>1. UNCHANGED << pc, next, statements, closing >> /\ \A t \in Threads : pc[t] = "idle"
      BY <1>1, <1>8 DEF Created, Alone
    <2> QED
      BY <1>1, <2>1 DEF Collecting, CollectedBy, Opening
  <1>9. CASE ClosePool
    <2>1. Open' => Open /\ KeyNow' = KeyNow /\ driver' = driver
      BY <1>9 DEF ClosePool, Open, KeyNow, Pools
    <2>2. \A t \in Threads : pc'[t] = pc[t] \/ (pc'[t] = "idle" /\ pc[t] = "using")
      BY <1>1, <1>9 DEF ClosePool, Users
    <2> QED
      BY <1>1, <1>9, <2>1, <2>2 DEF ClosePool, Collecting, CollectedBy, Opening
  <1>10. CASE Close \/ ClearEntry
    BY <1>1, <1>10 DEF Close, ClearEntry, Collecting, CollectedBy, Open, KeyNow, Pools, Alone
  <1>11. CASE Reject
    BY <1>1, <1>11 DEF Reject, Collecting, CollectedBy, Alone, Open, KeyNow
  <1>12. CASE UNCHANGED vars
    BY <1>1, <1>12 DEF vars, life, Collecting, CollectedBy, Open, KeyNow
  <1> QED
    BY <1>2, <1>3, <1>4, <1>6, <1>7, <1>8, <1>9, <1>10, <1>11, <1>12, NextCases DEF Driving

\* A map of pragmas that loses names, or gets one of another map, is a map of pragmas.
LEMMA MapTypes ==
    /\ \A m \in Maps : DOMAIN m \subseteq Names
    /\ \A m \in Maps : \A x : [y \in DOMAIN m \ {x} |-> m[y]] \in Maps
    /\ \A m, n \in Maps : \A x \in DOMAIN n :
          [y \in DOMAIN m \cup {x} |-> IF y = x THEN n[x] ELSE m[y]] \in Maps
  <1>1. \A m : m \in Maps <=> \E S \in SUBSET Names : m \in [S -> {Key} \cup Rekey]
    BY DEF Maps
  <1>2. ASSUME NEW m \in Maps
        PROVE  DOMAIN m \subseteq Names /\ m \in [DOMAIN m -> {Key} \cup Rekey]
    BY <1>1
  <1>3. ASSUME NEW m \in Maps, NEW x
        PROVE  [y \in DOMAIN m \ {x} |-> m[y]] \in Maps
    <2>1. [y \in DOMAIN m \ {x} |-> m[y]] \in [DOMAIN m \ {x} -> {Key} \cup Rekey]
      BY <1>2
    <2> QED
      BY <1>1, <1>2, <2>1
  <1>4. ASSUME NEW m \in Maps, NEW n \in Maps, NEW x \in DOMAIN n
        PROVE  [y \in DOMAIN m \cup {x} |-> IF y = x THEN n[x] ELSE m[y]] \in Maps
    <2>1. [y \in DOMAIN m \cup {x} |-> IF y = x THEN n[x] ELSE m[y]]
             \in [DOMAIN m \cup {x} -> {Key} \cup Rekey]
      BY <1>2
    <2>2. DOMAIN m \cup {x} \in SUBSET Names
      BY <1>2
    <2> QED
      BY <1>1, <2>1, <2>2
  <1> QED
    BY <1>2, <1>3, <1>4

LEMMA TypeStep == IInv /\ [Next]_vars => TypeOK'
  <1> SUFFICES ASSUME IInv, [Next]_vars
               PROVE  TypeOK'
    OBVIOUS
  <1> USE NativeAssumptions DEF maps, life, pools
  <1>1. keyPragma' \in Maps /\ rekeyPragma' \in Maps
    <2>1. keyPragma \in Maps /\ rekeyPragma \in Maps
      BY DEF IInv, TypeOK
    <2>2. ASSUME NEW t \in Threads, Refuse(t)
          PROVE  keyPragma' \in Maps /\ rekeyPragma' \in Maps
      BY <2>1, <2>2, FullMap DEF Refuse
    <2>3. ASSUME NEW t \in Threads, Swap(t)
          PROVE  keyPragma' \in Maps /\ rekeyPragma' \in Maps
      BY <2>1, <2>2, <2>3, FullMap DEF Swap
    <2>4. CASE ClearEntry
      BY <2>1, <2>4, MapTypes DEF ClearEntry
    <2>5. \/ UNCHANGED maps \/ ClearEntry
          \/ \E t \in Threads : Refuse(t) \/ Swap(t)
      BY DEF Next, vars, Ask, Take, OpenConnection, ClosedPool, Check, Collect, Execute,
         RekeyFile, Select, Release, Reject, Created, SchemaFails, Close, ClosePool
    <2> QED
      BY <2>1, <2>2, <2>3, <2>4, <2>5
  <1>2. file' \in Files \cup Rekey /\ rekeys' \in Nat
    <2>1. file \in Files \cup Rekey /\ rekeys \in Nat
      BY DEF IInv, TypeOK
    <2>2. ASSUME NEW t \in Threads, RekeyFile(t)
          PROVE  file' \in Files \cup Rekey /\ rekeys' \in Nat
      BY <2>1, <2>2 DEF RekeyFile
    <2>3. UNCHANGED << file, rekeys >> \/ \E t \in Threads : RekeyFile(t)
      BY DEF Next, vars, Ask, Take, OpenConnection, ClosedPool, Check, Collect, Execute,
         Swap, Select, Release, Reject, Created, SchemaFails, Close, ClosePool, ClearEntry
    <2> QED
      BY <2>1, <2>2, <2>3
  <1>3. /\ driver' \in {"creating", "created", "failed", "rejected"}
        /\ closing' \in {"no", "pragmas", "done"} \cup Pools
        /\ open' \subseteq Pools
    <2>1. /\ driver \in {"creating", "created", "failed", "rejected"}
          /\ closing \in {"no", "pragmas", "done"} \cup Pools
          /\ open \subseteq Pools
      BY DEF IInv, TypeOK
    <2>2. driver' \in {driver, "created", "failed", "rejected"}
      BY DEF Next, vars, Ask, Take, OpenConnection, ClosedPool, Check, Collect, Execute,
         RekeyFile, Swap, Select, Release, Reject, Created, SchemaFails, Close, ClosePool,
         ClearEntry, Refuse
    <2>3. /\ closing' \in {closing, "transaction", "reader", "pragmas", "done"}
          /\ open' \subseteq open
      BY DEF Next, vars, Ask, Take, OpenConnection, ClosedPool, Check, Collect, Execute,
         RekeyFile, Swap, Select, Release, Reject, Created, SchemaFails, Close, ClosePool,
         ClearEntry
    <2> QED
      BY <2>1, <2>2, <2>3 DEF Pools
  <1>4. entries' \in [Pools -> Nat] /\ \A p \in Pools : entries'[p] <= Capacity(p)
    <2>1. /\ entries \in [Pools -> Nat] /\ \A p \in Pools : entries[p] <= Capacity(p)
          /\ pool \in [Threads -> Pools]
      BY DEF IInv, TypeOK
    <2>2. ASSUME NEW t \in Threads, Select(t)
          PROVE  entries' \in [Pools -> Nat] /\ \A p \in Pools : entries'[p] <= Capacity(p)
      <3>1. entries[pool[t]] < Capacity(pool[t])
        BY <2>2 DEF Select, IInv, Opener, Opening
      <3>2. entries' \in {entries, [entries EXCEPT ![pool[t]] = @ + 1]}
        BY <2>2 DEF Select
      <3> QED
        BY <2>1, <3>1, <3>2, Capacities
    <2>3. CASE ClosePool
      BY <2>1, <2>3, Capacities DEF ClosePool
    <2>4. entries' = entries \/ ClosePool \/ \E t \in Threads : Select(t)
      BY DEF Next, vars, Ask, Take, OpenConnection, ClosedPool, Check, Collect, Execute,
         RekeyFile, Swap, Release, Reject, Created, SchemaFails, Close, ClearEntry
    <2> QED
      BY <2>1, <2>2, <2>3, <2>4
  <1>5. pc' \in [Threads -> Labels]
    BY DEF IInv, TypeOK, Next, vars, Ask, Take, OpenConnection, ClosedPool,
       Check, Collect, Execute, RekeyFile, Swap, Select, Release, Reject, Created, SchemaFails,
       Close, ClosePool, ClearEntry, Refuse, Goto, Labels, Opening
  <1>6. pool' \in [Threads -> Pools]
    BY DEF IInv, TypeOK, Next, vars, Ask, Take, OpenConnection, ClosedPool,
       Check, Collect, Execute, RekeyFile, Swap, Select, Release, Reject, Created, SchemaFails,
       Close, ClosePool, ClearEntry
  <1>7. next' \in [Threads -> 1 .. Len(All) + 1]
    <2>1. next \in [Threads -> 1 .. 5]
      BY AllNames DEF IInv, TypeOK
    <2>2. ASSUME NEW t \in Threads, Collect(t)
          PROVE  next' \in [Threads -> 1 .. 5]
      <3>1. next[t] \in 1 .. 4
        BY <2>2 DEF Collect, IInv, Collecting, CollectedBy
      <3> QED
        BY <2>1, <2>2, <3>1 DEF Collect
    <2>3. next' \in [Threads -> 1 .. 5]
      BY <2>1, <2>2 DEF Next, vars, Ask, Take, OpenConnection, ClosedPool, Check, Execute,
         RekeyFile, Swap, Select, Release, Reject, Created, SchemaFails, Close, ClosePool,
         ClearEntry
    <2> QED
      BY <2>3, AllNames
  <1>8. statements' \in [Threads -> Maps]
    <2>1. ASSUME NEW t \in Threads, Collect(t)
          PROVE  statements' \in [Threads -> Maps]
      <3> DEFINE x == All[next[t]]
                 m == statements[t]
                 more == [y \in DOMAIN m \cup {x} |-> IF y = x THEN keyPragma[x] ELSE m[y]]
      <3>1. m \in Maps /\ keyPragma \in Maps
        BY DEF IInv, TypeOK
      <3>2. Has(keyPragma, x) => more \in Maps
        BY <3>1, MapTypes DEF Has
      <3>3. statements' = [statements EXCEPT ![t] = IF Has(keyPragma, x) THEN more ELSE m]
        BY <2>1 DEF Collect
      <3> QED
        BY <3>1, <3>2, <3>3 DEF IInv, TypeOK
    <2>2. ASSUME NEW t \in Threads, RekeyFile(t)
          PROVE  statements' \in [Threads -> Maps]
      <3>1. statements' = [statements EXCEPT ![t] = Nothing]
            \/ \E k \in Rekey : statements' = [statements EXCEPT ![t] = Full(k)]
        BY <2>2 DEF RekeyFile, Refuse
      <3>2. \E m \in Maps : statements' = [statements EXCEPT ![t] = m]
        BY <3>1, FullMap
      <3> QED
        BY <3>2 DEF IInv, TypeOK
    <2>3. \/ statements' = statements
          \/ \E t \in Threads : \/ statements' = [statements EXCEPT ![t] = Nothing]
                                \/ RekeyFile(t) \/ Collect(t)
      BY DEF Next, vars, Ask, Take, OpenConnection, ClosedPool, Check, Execute, Swap, Select,
         Release, Reject, Created, SchemaFails, Close, ClosePool, ClearEntry, Refuse
    <2> QED
      BY <2>1, <2>2, <2>3, FullMap DEF IInv, TypeOK
  <1>9. late' \in [Threads -> BOOLEAN]
    <2>1. \/ late' = late
          \/ \E t \in Threads : late' = [late EXCEPT ![t] = closing = "done"]
      BY DEF Next, vars, Ask, Take, OpenConnection, ClosedPool, Check, Collect, Execute,
         RekeyFile, Swap, Select, Release, Reject, Created, SchemaFails, Close, ClosePool,
         ClearEntry
    <2> QED
      BY <2>1 DEF IInv, TypeOK
  <1>10. requests' \in 0 .. MaxRequests
    <2>1. requests' = requests \/ (requests < MaxRequests /\ requests' = requests + 1)
      BY DEF Next, vars, Ask, Take, OpenConnection, ClosedPool, Check, Collect, Execute,
         RekeyFile, Swap, Select, Release, Reject, Created, SchemaFails, Close, ClosePool,
         ClearEntry
    <2> QED
      BY <2>1 DEF IInv, TypeOK
  <1> QED
    BY <1>1, <1>2, <1>3, <1>4, <1>5, <1>6, <1>7, <1>8, <1>9, <1>10 DEF TypeOK, Labels

LEMMA Initially == Init => IInv
  <1> SUFFICES ASSUME Init
               PROVE  IInv
    OBVIOUS
  <1> USE NativeAssumptions
  <1>1. /\ keyPragma = Full(Key)
        /\ rekeyPragma = IF Rekey = {} THEN Nothing ELSE Full(Target)
    BY TargetKey DEF Init
  <1>2. /\ file \in Files /\ rekeys = 0 /\ driver = "creating" /\ closing = "no"
        /\ open = Pools /\ \A p \in Pools : entries[p] = 0
        /\ requests = 0
        /\ \A t \in Threads : pc[t] = "idle" /\ late[t] = FALSE /\ statements[t] = Nothing
    BY DEF Init
  <1>3. TypeOK
    <2>1. keyPragma \in Maps /\ rekeyPragma \in Maps
      BY <1>1, FullMap, TargetKey
    <2>2. entries \in [Pools -> Nat] /\ \A p \in Pools : entries[p] <= Capacity(p)
      BY Capacities DEF Init
    <2>3. /\ pool \in [Threads -> Pools] /\ next \in [Threads -> 1 .. Len(All) + 1]
          /\ statements \in [Threads -> Maps] /\ requests \in 0 .. MaxRequests
      BY FullMap, AllNames DEF Init, Pools
    <2>4. /\ pc \in [Threads -> {"idle", "asking", "using"} \cup Opening]
          /\ late \in [Threads -> BOOLEAN]
      BY DEF Init
    <2> QED
      BY <1>2, <2>1, <2>2, <2>3, <2>4 DEF TypeOK
  <1>4. Alone /\ OpenPools /\ FileKey /\ Opener /\ Late
    BY <1>2 DEF Alone, OpenPools, FileKey, Opener, Late, Opening, First
  <1>5. Pragmas
    BY <1>1, <1>2 DEF Pragmas, First
  <1>6. Collecting
    BY <1>2 DEF Collecting, CollectedBy, Opening
  <1> QED
    BY <1>3, <1>4, <1>5, <1>6 DEF IInv

LEMMA Inductive == IInv /\ [Next]_vars => IInv'
  BY TypeStep, AloneStep, OpenPoolsStep, PragmasStep, FileKeyStep, OpenerStep, CollectingStep,
     LateStep DEF IInv

LEMMA Invariant == Spec => []IInv
  BY Initially, Inductive, PTL DEF Spec

-----------------------------------------------------------------------------
(* The theorems                                                            *)

\* The maps of pragmas, the pools and what every thread collects keep their types; no
\* pool has more connections than maxReaderConnections allows.
THEOREM NativeTypeCorrect == Spec => []TypeOK
  <1>1. IInv => TypeOK
    BY DEF IInv
  <1> QED
    BY <1>1, Invariant, PTL

\* When close has returned, or create has failed on its connection, the key is in neither
\* map, and no thread has it in statements but one that was opening a connection
\* (PlatformDriver.close, the catch of create).
THEOREM NoPragmaOutlivesClose == Spec => []CredentialsErased
  <1>1. IInv => CredentialsErased
    BY DEF IInv, Pragmas, Collecting, CollectedBy, CredentialsErased
  <1> QED
    BY <1>1, Invariant, PTL

-----------------------------------------------------------------------------
(* The refinement of DriverPromise                                         *)

\* The variables of DriverPromise.
Status ==
    IF closing = "done" THEN "closed"
    ELSE IF closing # "no" \/ driver \in {"failed", "rejected"} THEN "closing"
    ELSE IF driver = "created" THEN "open" ELSE "creating"
Asking == {t \in Threads : ~late[t] /\ pc[t] \in {"asking"} \cup Opening}
Using == {t \in Threads : pc[t] = "using"}

\* A step of one thread moves nobody else in the sets of the promise.
LEMMA OthersStay ==
    ASSUME IInv, NEW t \in Threads,
           Waiting(t) \/ Keying(t) \/ (SchemaFails /\ t = Creator)
    PROVE  /\ Asking' = IF late'[t] \/ pc'[t] \notin {"asking"} \cup Opening
                        THEN Asking \ {t} ELSE Asking \cup {t}
           /\ Using' = IF pc'[t] = "using" THEN Using \cup {t} ELSE Using \ {t}
  BY OneThread DEF Asking, Using

\* Nothing that DriverPromise speaks of changes.
Unnoticed == UNCHANGED << file, rekeys, Status, Asking, Using >>

LEMMA Stutters ==
    ASSUME Unnoticed
    PROVE  UNCHANGED Promise!vars
  BY DEF Unnoticed, Promise!vars, Status, Asking, Using

\* A thread of the promise asks, is served or is refused.
LEMMA ThreadPromise ==
    ASSUME NEW t \in Threads
    PROVE  /\ /\ Status # "closed" /\ t \notin Asking \cup Using
              /\ Asking' = Asking \cup {t}
              /\ UNCHANGED << file, rekeys, Status, Using >>
              => Promise!Next
           /\ /\ t \in Asking
              /\ Asking' = Asking \ {t} /\ Using' = Using \cup {t}
              /\ \/ /\ Status = "creating" /\ file = Key /\ Rekey # {} /\ rekeys = 0
                    /\ file' = Target /\ rekeys' = 1
                 \/ file = Target /\ UNCHANGED << file, rekeys >>
              /\ UNCHANGED Status
              => Promise!Next
           /\ /\ t \in Asking /\ Status # "open"
              /\ Asking' = Asking \ {t}
              /\ Status' = IF Status = "creating" THEN "closing" ELSE Status
              /\ UNCHANGED << file, rekeys, Using >>
              => Promise!Next
  <1> USE DEF Status, Asking, Using, Promise!Next
  <1>1. ASSUME Status # "closed", t \notin Asking \cup Using, Asking' = Asking \cup {t},
               UNCHANGED << file, rekeys, Status, Using >>
        PROVE  Promise!Next
    <2>1. Promise!Ask(t)
      BY <1>1 DEF Promise!Ask
    <2> QED
      BY <2>1
  <1>2. ASSUME t \in Asking, Asking' = Asking \ {t}, Using' = Using \cup {t},
               \/ /\ Status = "creating" /\ file = Key /\ Rekey # {} /\ rekeys = 0
                  /\ file' = Target /\ rekeys' = 1
               \/ file = Target /\ UNCHANGED << file, rekeys >>,
               UNCHANGED Status
        PROVE  Promise!Next
    <2>1. Promise!Serve(t)
      BY <1>2 DEF Promise!Serve, Promise!Rewrite, Target
    <2> QED
      BY <2>1
  <1>3. ASSUME t \in Asking, Status # "open", Asking' = Asking \ {t},
               Status' = (IF Status = "creating" THEN "closing" ELSE Status),
               UNCHANGED << file, rekeys, Using >>
        PROVE  Promise!Next
    <2>1. Promise!Refuse(t)
      BY <1>3 DEF Promise!Refuse
    <2> QED
      BY <2>1
  <1> QED
    BY <1>1, <1>2, <1>3

\* A request that ends with an exception, with nothing done to the file.
LEMMA RefusePromise ==
    ASSUME IInv, NEW t \in Threads, Waiting(t) \/ Keying(t), Refuse(t),
           pc[t] \in {"asking"} \cup Opening,
           UNCHANGED << file, rekeys, closing, late >>, Status # "open"
    PROVE  Promise!Next \/ Unnoticed
  <1>1. pc'[t] = "idle" /\ driver' = IF driver = "creating" THEN "failed" ELSE driver
    BY DEF Refuse, Goto, IInv, TypeOK
  <1>2. Asking' = Asking \ {t} /\ Using' = Using
    BY <1>1, OthersStay DEF Opening, Using
  <1>3. Status' = IF Status = "creating" THEN "closing" ELSE Status
    BY <1>1 DEF Status, IInv, TypeOK
  <1>4. CASE late[t]
    <2>1. closing = "done" /\ t \notin Asking
      BY <1>4 DEF IInv, Late, Asking
    <2>2. Status' = Status
      BY <1>3, <2>1 DEF Status
    <2> QED
      BY <1>2, <2>1, <2>2 DEF Unnoticed
  <1>5. CASE ~late[t]
    <2>1. t \in Asking
      BY <1>5 DEF Asking
    <2> QED
      BY <1>2, <1>3, <2>1, ThreadPromise
  <1> QED
    BY <1>4, <1>5

\* A connection, from the pool or a new one.
LEMMA ServePromise ==
    ASSUME IInv, NEW t \in Threads, Waiting(t) \/ Keying(t),
           pc[t] \in {"asking"} \cup Opening, pc'[t] = "using", late' = late, ~late[t],
           file = Target, UNCHANGED << file, rekeys, closing, driver >>
    PROVE  Promise!Next
  <1>1. t \in Asking /\ Asking' = Asking \ {t} /\ Using' = Using \cup {t}
    BY OthersStay DEF Asking, Opening
  <1>2. UNCHANGED Status
    BY DEF Status
  <1> QED
    BY <1>1, <1>2, ThreadPromise

LEMMA WaitingPromise ==
    ASSUME IInv, NEW t \in Threads, Waiting(t)
    PROVE  Promise!Next \/ Unnoticed
  <1>1. /\ pc \in [Threads -> Labels] /\ late \in [Threads -> BOOLEAN]
    BY DEF IInv, TypeOK, Labels
  <1>2. ASSUME NEW p \in Pools, Ask(t, p)
        PROVE  Promise!Next \/ Unnoticed
    <2>1. /\ pc[t] = "idle" /\ pc'[t] = "asking" /\ (late'[t] <=> closing = "done")
          /\ UNCHANGED << file, rekeys, closing, driver >>
      BY <1>1, <1>2 DEF Ask, Goto, life
    <2>2. t \notin Asking \cup Using /\ Using' = Using /\ UNCHANGED Status
      BY <2>1, OthersStay DEF Asking, Using, Opening, Status
    <2>3. CASE closing = "done"
      <3>1. Asking' = Asking
        BY <2>1, <2>2, <2>3, OthersStay
      <3> QED
        BY <2>1, <2>2, <3>1 DEF Unnoticed
    <2>4. CASE closing # "done"
      <3>1. Asking' = Asking \cup {t} /\ Status # "closed"
        BY <2>1, <2>4, OthersStay DEF Status
      <3> QED
        BY <2>1, <2>2, <3>1, ThreadPromise
    <2> QED
      BY <2>3, <2>4
  <1>3. CASE Take(t)
    <2>1. driver = "created" /\ file = Target
      BY <1>3, TakeLater DEF IInv, FileKey
    <2>2. ~late[t]
      BY <1>3 DEF Take, IInv, Late, OpenPools
    <2>3. /\ pc[t] = "asking" /\ pc'[t] = "using"
          /\ UNCHANGED << late, file, rekeys, closing, driver >>
      BY <1>1, <1>3 DEF Take, Goto, life
    <2> QED
      BY <2>1, <2>2, <2>3, ServePromise
  <1>4. CASE OpenConnection(t)
    <2>1. /\ pc[t] = "asking" /\ pc'[t] = "check"
          /\ UNCHANGED << late, file, rekeys, closing, driver >>
      BY <1>1, <1>4 DEF OpenConnection, Goto, life
    <2> QED
      BY <2>1, OthersStay DEF Unnoticed, Status, Asking, Using, Opening
  <1>5. CASE ClosedPool(t)
    <2>1. pc[t] = "asking" /\ pool[t] \in Pools /\ pool[t] \notin open
      BY <1>5 DEF ClosedPool, IInv, TypeOK
    <2>2. closing # "no"
      BY <2>1 DEF IInv, OpenPools
    <2>3. Refuse(t) /\ UNCHANGED << file, rekeys, closing, late >> /\ Status # "open"
      BY <1>5, <2>2 DEF ClosedPool, Status
    <2> QED
      BY <2>1, <2>3, RefusePromise
  <1>6. CASE Release(t)
    <2>1. /\ pc[t] = "using" /\ pc'[t] = "idle"
          /\ UNCHANGED << late, file, rekeys, closing, driver >>
      BY <1>1, <1>6 DEF Release, Goto, life
    <2>2. Asking' = Asking /\ Using' \in SUBSET Using /\ UNCHANGED << file, rekeys, Status >>
      BY <2>1, OthersStay DEF Asking, Opening, Status
    <2>3. Promise!Release
      BY <2>2 DEF Promise!Release, Status, Asking, Using
    <2> QED
      BY <2>3 DEF Promise!Next
  <1> QED
    BY <1>2, <1>3, <1>4, <1>5, <1>6 DEF Waiting

LEMMA KeyingPromise ==
    ASSUME IInv, NEW t \in Threads, Keying(t)
    PROVE  Promise!Next \/ Unnoticed
  <1>1. /\ pc \in [Threads -> Labels] /\ pc[t] \in Opening
        /\ ~late[t] /\ t \in Asking
    BY DEF IInv, TypeOK, Labels, Keying, Check, Collect, Execute, RekeyFile, Swap, Select,
           Opening, Late, Asking
  <1>2. pc[t] \in {"rekey", "swap"} => driver = "creating"
    BY DEF IInv, Collecting, CollectedBy
  <1>3. UNCHANGED << closing, late >>
    BY DEF Keying, Check, Collect, Execute, RekeyFile, Swap, Select, life
  \* While the driver is open the statements are complete and open the file.
  <1>4. CASE Refuse(t)
    <2>1. ASSUME Status = "open"
          PROVE  FALSE
      <3>1. driver = "created" /\ closing = "no" /\ Open
        BY <2>1 DEF Status, Open, IInv, TypeOK
      <3>2. pc'[t] = "idle"
        BY <1>1, <1>4 DEF Refuse, Goto
      <3>3. \/ pc[t] = "check" /\ ~(Required \subseteq DOMAIN keyPragma)
            \/ pc[t] = "select" /\ ~Reads(t)
        BY <1>1, <1>2, <3>1, <3>2
           DEF Keying, Check, Collect, Execute, RekeyFile, Swap, Select, Goto
      <3>4. keyPragma = Full(Target) /\ file = Target
        BY <3>1 DEF IInv, Pragmas, FileKey
      <3> QED
        BY <3>1, <3>3, <3>4, ReadsTheFile, FullMap, AllNames
    <2>2. UNCHANGED << file, rekeys >>
      <3>1. pc'[t] = "idle"
        BY <1>1, <1>4 DEF Refuse, Goto
      <3> QED
        BY <1>1, <3>1 DEF Keying, Check, Collect, Execute, RekeyFile, Swap, Select, Goto
    <2> QED
      BY <1>1, <1>3, <1>4, <2>1, <2>2, RefusePromise
  <1>5. CASE ~Refuse(t) /\ (Check(t) \/ Collect(t) \/ Execute(t) \/ Swap(t))
    <2>1. UNCHANGED << file, rekeys, driver >> /\ pc'[t] \in Opening
      BY <1>1, <1>5 DEF Check, Collect, Execute, Swap, Goto, life, Opening
    <2>2. UNCHANGED << Asking, Using >>
      BY <1>1, <1>3, <2>1, OthersStay DEF Opening, Using
    <2> QED
      BY <1>3, <2>1, <2>2 DEF Unnoticed, Status
  <1>6. CASE ~Refuse(t) /\ RekeyFile(t)
    <2>1. /\ pc[t] = "rekey" /\ Reads(t) /\ UNCHANGED driver /\ pc'[t] \in Opening
          /\ file' \in Rekey /\ rekeys' = rekeys + 1
      BY <1>1, <1>6 DEF RekeyFile, Goto, Opening
    <2>2. driver = "creating" /\ closing = "no" /\ t = Creator
      BY <1>2, <2>1, OnlyTheCreator
    <2>3. file = Key /\ rekeys = 0
      BY <2>1, <2>2, ReadsTheFile DEF Open, IInv, FileKey, First
    <2>4. Rekey # {} /\ file' = Target /\ rekeys' = 1
      BY <2>1, <2>3, TargetKey
    <2>5. UNCHANGED << Asking, Using, Status >>
      BY <1>1, <1>3, <2>1, OthersStay DEF Opening, Using, Status
    <2>6. Status = "creating"
      BY <2>2 DEF Status
    <2>7. Promise!Switch
      BY <1>1, <2>3, <2>4, <2>5, <2>6
         DEF Promise!Switch, Promise!Rewrite, Status, Asking, Using, Target
    <2> QED
      BY <2>7 DEF Promise!Next
  <1>7. CASE ~Refuse(t) /\ Select(t)
    <2>1. /\ pc[t] = "select" /\ Reads(t) /\ pc'[t] = "using"
          /\ UNCHANGED << file, rekeys, driver >>
      BY <1>1, <1>7 DEF Select, Goto
    <2>2. file = Target
      <3>1. CASE Open
        BY <2>1, <3>1, ReadsTheFile
      <3>2. CASE ~Open
        BY <2>1, <3>2, OnlyTheCreator DEF Open, IInv, FileKey
      <3> QED
        BY <3>1, <3>2
    <2> QED
      BY <1>1, <1>3, <2>1, <2>2, ServePromise
  <1> QED
    BY <1>4, <1>5, <1>6, <1>7 DEF Keying

LEMMA DrivingPromise ==
    ASSUME IInv, Driving
    PROVE  Promise!Next \/ Unnoticed
  <1>1. /\ pc \in [Threads -> Labels] /\ UNCHANGED << file, rekeys, late >>
        /\ driver # "created" => closing = "no"
    BY DEF IInv, TypeOK, Labels, Alone, Driving, Reject, Created, SchemaFails, Close, ClosePool,
           ClearEntry
  <1>2. CASE Created
    <2>1. Status = "creating" /\ Status' = "open" /\ file = Target
      BY <1>1, <1>2 DEF Created, Status, IInv, FileKey, First
    <2>2. UNCHANGED << Asking, Using >>
      BY <1>1, <1>2 DEF Created, Asking, Using
    <2>3. Promise!Open
      BY <1>1, <2>1, <2>2 DEF Promise!Open, Status, Asking, Using, Target
    <2> QED
      BY <2>3 DEF Promise!Next
  <1>3. CASE Reject \/ SchemaFails \/ Close
    <2>1. Status \in {"creating", "open"} /\ Status' = "closing"
      BY <1>1, <1>3 DEF Reject, SchemaFails, Close, Refuse, Status
    <2>2. Asking' = Asking /\ Using' \in SUBSET Using
      <3>1. CASE Reject \/ Close
        BY <1>1, <3>1 DEF Reject, Close, Asking, Using
      <3>2. CASE SchemaFails
        <4>1. pc[Creator] = "using" /\ pc'[Creator] = "idle"
          BY <1>1, <3>2, NativeAssumptions DEF SchemaFails, Refuse, Goto
        <4> QED
          BY <3>2, <4>1, OthersStay, NativeAssumptions DEF Asking, Opening
      <3> QED
        BY <1>3, <3>1, <3>2
    <2>3. Promise!Close
      BY <1>1, <2>1, <2>2 DEF Promise!Close, Status, Asking, Using
    <2> QED
      BY <2>3 DEF Promise!Next
  <1>4. CASE ClosePool
    <2>1. Status' = Status
      BY <1>4 DEF ClosePool, Status, Pools
    <2>2. Asking' = Asking /\ Using' \in SUBSET Using
      BY <1>1, <1>4 DEF ClosePool, Asking, Using, Users, Opening
    <2>3. Promise!Release
      BY <1>1, <2>1, <2>2 DEF Promise!Release, Status, Asking, Using
    <2> QED
      BY <2>3 DEF Promise!Next
  <1>5. CASE ClearEntry
    <2>1. Status = "closing" /\ Status' \in {"closing", "closed"}
      BY <1>5 DEF ClearEntry, Status
    <2>2. UNCHANGED << Asking, Using >>
      BY <1>1, <1>5 DEF ClearEntry, Asking, Using
    <2>3. CASE Status' = "closed"
      <3>1. Promise!Closed
        BY <1>1, <2>1, <2>2, <2>3 DEF Promise!Closed, Status, Asking, Using
      <3> QED
        BY <3>1 DEF Promise!Next
    <2> QED
      BY <1>1, <2>1, <2>2, <2>3 DEF Unnoticed
  <1> QED
    BY <1>2, <1>3, <1>4, <1>5 DEF Driving

\* The native driver keeps what a driver promises, although close empties the map of
\* pragmas while connections are being opened: statements torn by it fail only requests
\* that meet close (onCreateConnection, PlatformDriver.close).
THEOREM NativeKeepsPromise == Spec => KeepsPromise
  <1>1. Init => Promise!Init
    <2> SUFFICES ASSUME Init
                 PROVE  Promise!Init
      OBVIOUS
    <2>1. Asking = {} /\ Using = {} /\ Status = "creating" /\ file \in Files /\ rekeys = 0
      BY DEF Init, Asking, Using, Status, Opening
    <2> QED
      BY <2>1 DEF Promise!Init, Asking, Using, Status
  <1>2. IInv /\ [Next]_vars => [Promise!Next]_(Promise!vars)
    <2> SUFFICES ASSUME IInv, [Next]_vars
                 PROVE  Promise!Next \/ Unnoticed
      BY Stutters
    <2>1. CASE UNCHANGED vars
      BY <2>1 DEF vars, life, Unnoticed, Status, Asking, Using
    <2> QED
      BY <2>1, WaitingPromise, KeyingPromise, DrivingPromise, NextCases
  <1> QED
    BY <1>1, <1>2, Invariant, PTL DEF Spec, KeepsPromise, Promise!Spec
===================================================================================
