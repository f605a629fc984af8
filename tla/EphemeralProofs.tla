------------------------------ MODULE EphemeralProofs ------------------------------
(* What Ephemeral guarantees for any number of calls, factories and tables. *)
EXTENDS Ephemeral, TLAPS

(***************************************************************************)
(* The inductive invariant.  Calls that run at the same time belong to     *)
(* different factories, and are disturbed if they share the name (Serial). *)
(* Every open connection is on a database that its maker has connected to, *)
(* and all named ones are on the same (Made, OneName).  Tables without a   *)
(* version were made by one call, which is still at it or was leaked       *)
(* (Tables); and a database left like that never gets its version, so that *)
(* whoever failed on it keeps its reason (Stuck, Failed).                  *)
(***************************************************************************)
Serial ==
    \A c, d \in Calls : c # d /\ pc[c] \in Running /\ pc[d] \in Running =>
        /\ args[c].factory # args[d].factory
        /\ Named(c) /\ Named(d) => disturbed[c] /\ disturbed[d]

Made ==
    \A c \in Calls : db[c] # None =>
        /\ pc[db[c]] \notin {"idle", "queued", "connect"}
        /\ Named(db[c]) <=> Named(c)
        /\ ~Named(c) => db[c] = c

OneName ==
    \A c, d \in Calls : Named(c) /\ Named(d) /\ db[c] # None /\ db[d] # None => db[c] = db[d]

Dropped ==
    \A c \in Calls : pc[c] \in {"failed", "cancelled"} /\ db[c] # None =>
        platform = "jvm" \/ cancelled[c]

\* The call that has made all the tables of a database so far, and not finished.
Maker(i, e) ==
    /\ db[e] = i /\ pc[e] \in {"schema", "failed", "cancelled"}
    /\ table[e] > 1 /\ memory[i].tables = 1 .. table[e] - 1

Tables ==
    \A i \in Calls :
        /\ memory[i].version => memory[i].tables = 1 .. NTables
        /\ memory[i].tables # {} /\ ~memory[i].version =>
              platform = "jvm" /\ \E e \in Calls : Maker(i, e)

ProgressOf(c) ==
    /\ pc[c] \in {"idle", "queued", "connect", "version"} => table[c] = 1
    /\ pc[c] = "schema" /\ platform = "jvm" => 1 .. table[c] - 1 \subseteq memory[db[c]].tables
    /\ pc[c] = "transaction" => platform = "native"
    /\ pc[c] \in {"return", "open"} => memory[db[c]].version
    /\ pc[c] = "schema" /\ memory[db[c]].version => disturbed[c]

Progress == \A c \in Calls : ProgressOf(c)

Private == \A i \in Calls : ~Named(i) => memory[i].data \subseteq {i}

Shared ==
    Orphans = {} =>
        /\ \A c \in Calls : Named(c) /\ db[c] # None => memory[db[c]].data = shared
        /\ (\A c \in Calls : Named(c) => db[c] = None) => shared = {}

Stuck(i) ==
    /\ memory[i].tables # {} /\ ~memory[i].version
    /\ \A d \in Calls : db[d] = i /\ pc[d] = "schema" => table[d] = 1

Failed ==
    \A c \in Calls : pc[c] = "failed" /\ ~disturbed[c] =>
        platform = "jvm" /\ \E e \in Leaked \ {c} : Named(e) /\ Stuck(db[e])

IInv ==
    /\ TypeOK /\ Serial /\ Made /\ OneName /\ Dropped
    /\ Tables /\ Progress /\ Private /\ Shared /\ Failed

\* The actions of a call by what they do: none of these changes memory or an open
\* connection ...
Quiet(c) == Create(c) \/ Start(c) \/ ReadVersion(c) \/ BeginSchema(c) \/ Return(c) \/ Cancel(c)

\* ... these write to the database ...
Writing(c) == CreateTable(c) \/ SetVersion(c) \/ CommitSchema(c) \/ Write(c)

\* ... and these end the creation.
Failing(c) == TableExists(c) \/ Locked(c) \/ Fault(c)

Act(c) == Quiet(c) \/ Connect(c) \/ Writing(c) \/ Failing(c) \/ Close(c)

LEMMA NextCases == [Next]_vars => (\E c \in Calls : Act(c)) \/ UNCHANGED vars
  BY DEF Next, Act, Quiet, Writing, Failing

States == {"idle", "queued", "open", "closed", "failed", "cancelled"} \cup Running
Contents == [tables : SUBSET (1 .. NTables), version : BOOLEAN, data : SUBSET Calls]

LEMMA Types ==
    ASSUME TypeOK
    PROVE  /\ pc \in [Calls -> States] /\ db \in [Calls -> Calls \cup {None}]
           /\ table \in [Calls -> 1 .. NTables + 1] /\ memory \in [Calls -> Contents]
           /\ cancelled \in [Calls -> BOOLEAN] /\ disturbed \in [Calls -> BOOLEAN]
           /\ None \notin Calls /\ NTables \in Nat
           /\ \A c \in Calls : pc[c] \in Connected \cup {"open"} => db[c] \in Calls
           /\ \A c \in Calls : db[c] # None =>
                 db[c] \in Calls /\ pc[c] \in Connected \cup {"open", "failed", "cancelled"}
  BY EphemeralAssumptions DEF TypeOK, States, Contents, Leaked

\* An action of a call leaves the other calls alone; a disturbance is not forgotten.
LEMMA OneCall ==
    ASSUME TypeOK, NEW c \in Calls, Act(c)
    PROVE  /\ UNCHANGED << platform, args >>
           /\ \A d \in Calls \ {c} :
                 /\ pc'[d] = pc[d] /\ db'[d] = db[d] /\ table'[d] = table[d]
                 /\ cancelled'[d] = cancelled[d]
           /\ \A d \in Calls : disturbed[d] => disturbed'[d]
  <1> USE DEF Goto, Fail
  <1>1. CASE Quiet(c)
    BY <1>1, Types DEF Quiet, Create, Start, ReadVersion, BeginSchema, Return, Cancel, history
  <1>2. CASE Connect(c) \/ Close(c)
    BY <1>2, Types DEF Connect, Close, history
  <1>3. CASE Writing(c)
    BY <1>3, Types DEF Writing, CreateTable, SetVersion, CommitSchema, Write, call, history
  <1>4. CASE Failing(c)
    BY <1>4, Types DEF Failing, TableExists, Locked, Fault
  <1> QED
    BY <1>1, <1>2, <1>3, <1>4 DEF Act

\* The database of a new connection: the named one that is open, or a new one.
LEMMA NewDatabase ==
    ASSUME IInv, NEW c \in Calls, pc[c] = "connect"
    PROVE  \/ /\ DatabaseOf(c) = c
              /\ Named(c) => \A d \in Calls : Named(d) => db[d] = None
           \/ /\ Named(c) /\ DatabaseOf(c) # c
              /\ \E d \in Calls : Named(d) /\ db[d] # None /\ DatabaseOf(c) = db[d]
  <1> DEFINE living == {db[d] : d \in {e \in Calls : Named(e)}} \ {None}
  <1>1. DatabaseOf(c) = IF Named(c) /\ living # {} THEN CHOOSE i \in living : TRUE ELSE c
    BY DEF DatabaseOf
  <1>2. \A i : i \in living <=> \E d \in Calls : Named(d) /\ db[d] = i /\ i # None
    OBVIOUS
  <1> HIDE DEF living
  <1>3. CASE Named(c) /\ living # {}
    <2>1. DatabaseOf(c) \in living
      BY <1>1, <1>3
    <2>2. PICK d \in Calls : Named(d) /\ db[d] = DatabaseOf(c) /\ DatabaseOf(c) # None
      BY <1>2, <2>1
    <2>3. pc[db[d]] # "connect"
      BY <2>2 DEF IInv, Made
    <2> QED
      BY <1>3, <2>2, <2>3
  <1>4. CASE ~(Named(c) /\ living # {})
    BY <1>1, <1>2, <1>4
  <1> QED
    BY <1>3, <1>4

\* What an action does to the contents of a database.
LEMMA MemoryCases ==
    ASSUME TypeOK, NEW c \in Calls, Act(c)
    PROVE  /\ Quiet(c) \/ Failing(c) \/ Close(c) => memory' = memory
           /\ Connect(c) => memory' = IF DatabaseOf(c) = c THEN [memory EXCEPT ![c] = Fresh]
                                      ELSE memory
           /\ Writing(c) => db[c] \in Calls /\ \A i \in Calls \ {db[c]} : memory'[i] = memory[i]
           /\ CreateTable(c) =>
                 /\ memory'[db[c]].tables = memory[db[c]].tables \cup {table[c]}
                 /\ memory'[db[c]].version = memory[db[c]].version
                 /\ memory'[db[c]].data = memory[db[c]].data
           /\ SetVersion(c) =>
                 /\ memory'[db[c]].tables = memory[db[c]].tables
                 /\ memory'[db[c]].version = TRUE
                 /\ memory'[db[c]].data = memory[db[c]].data
           /\ CommitSchema(c) =>
                 /\ memory'[db[c]].tables = 1 .. NTables
                 /\ memory'[db[c]].version = TRUE
                 /\ memory'[db[c]].data = memory[db[c]].data
           /\ Write(c) =>
                 /\ memory'[db[c]].tables = memory[db[c]].tables
                 /\ memory'[db[c]].version = memory[db[c]].version
                 /\ memory'[db[c]].data = memory[db[c]].data \cup {c}
  <1>1. Quiet(c) \/ Failing(c) \/ Close(c) => memory' = memory
    BY DEF Quiet, Create, Start, ReadVersion, BeginSchema, Return, Cancel, Failing, TableExists,
           Locked, Fault, Fail, Close
  <1>2. Connect(c) => memory' = IF DatabaseOf(c) = c THEN [memory EXCEPT ![c] = Fresh] ELSE memory
    BY DEF Connect
  <1>3. Writing(c) => db[c] \in Calls
    BY Types DEF Writing, CreateTable, SetVersion, CommitSchema, Write, Goto, Connected
  <1>4. Writing(c) => \A i \in Calls \ {db[c]} : memory'[i] = memory[i]
    BY <1>3, Types DEF Writing, CreateTable, SetVersion, CommitSchema, Write
  <1>5. ASSUME CreateTable(c)
        PROVE  /\ memory'[db[c]].tables = memory[db[c]].tables \cup {table[c]}
               /\ memory'[db[c]].version = memory[db[c]].version
               /\ memory'[db[c]].data = memory[db[c]].data
    <2>1. memory' = [memory EXCEPT ![db[c]] = [memory[db[c]] EXCEPT !.tables = @ \cup {table[c]}]]
      BY <1>5 DEF CreateTable
    <2> QED
      BY <1>3, <1>5, <2>1, Types DEF Writing, Contents
  <1>6. ASSUME SetVersion(c)
        PROVE  /\ memory'[db[c]].tables = memory[db[c]].tables
               /\ memory'[db[c]].version = TRUE
               /\ memory'[db[c]].data = memory[db[c]].data
    <2>1. memory' = [memory EXCEPT ![db[c]] = [memory[db[c]] EXCEPT !.version = TRUE]]
      BY <1>6 DEF SetVersion
    <2> QED
      BY <1>3, <1>6, <2>1, Types DEF Writing, Contents
  <1>7. ASSUME CommitSchema(c)
        PROVE  /\ memory'[db[c]].tables = 1 .. NTables
               /\ memory'[db[c]].version = TRUE
               /\ memory'[db[c]].data = memory[db[c]].data
    <2>1. memory' = [memory EXCEPT ![db[c]] = [memory[db[c]] EXCEPT !.version = TRUE, !.tables = 1 .. NTables]]
      BY <1>7 DEF CommitSchema
    <2> QED
      BY <1>3, <1>7, <2>1, Types DEF Writing, Contents
  <1>8. ASSUME Write(c)
        PROVE  /\ memory'[db[c]].tables = memory[db[c]].tables
               /\ memory'[db[c]].version = memory[db[c]].version
               /\ memory'[db[c]].data = memory[db[c]].data \cup {c}
    <2>1. memory' = [memory EXCEPT ![db[c]] = [memory[db[c]] EXCEPT !.data = @ \cup {c}]]
      BY <1>8 DEF Write
    <2> QED
      BY <1>3, <1>8, <2>1, Types DEF Writing, Contents
  <1> QED
    BY <1>1, <1>2, <1>3, <1>4, <1>5, <1>6, <1>7, <1>8

\* Where a call comes from and what becomes of its connection.
LEMMA CallCases ==
    ASSUME TypeOK, NEW c \in Calls, Act(c)
    PROVE  /\ pc'[c] \in Running => pc[c] \in Running \/ (Start(c) /\ ~cancelled[c])
           /\ pc'[c] \in {"idle", "queued", "connect"} => pc[c] \in {"idle", "queued", "connect"}
           /\ pc[c] \notin {"closed", "failed", "cancelled"}
           /\ IF Connect(c)
              THEN pc[c] = "connect" /\ pc'[c] = "version" /\ db'[c] = DatabaseOf(c)
              ELSE db'[c] = db[c] \/ db'[c] = None
           /\ cancelled[c] => cancelled'[c]
  <1> USE Types DEF Goto, States, Running
  <1>1. CASE Quiet(c)
    BY <1>1 DEF Quiet, Create, Start, ReadVersion, BeginSchema, Return, Cancel, Connect
  <1>2. CASE Connect(c)
    BY <1>2 DEF Connect, Start
  <1>3. CASE Writing(c)
    BY <1>3 DEF Writing, CreateTable, SetVersion, CommitSchema, Write, call, Connect
  <1>4. CASE Failing(c) \/ Close(c)
    BY <1>4 DEF Failing, TableExists, Locked, Fault, Fail, Close, Connect
  <1> QED
    BY <1>1, <1>2, <1>3, <1>4 DEF Act

LEMMA SerialStep ==
    ASSUME IInv, NEW c \in Calls, Act(c)
    PROVE  Serial'
  <1>1. TypeOK /\ Serial
    BY DEF IInv
  <1>2. ASSUME NEW d \in Calls, NEW e \in Calls, d # e,
               (pc[d] \in Running /\ pc[e] \in Running)'
        PROVE  /\ args[d].factory # args[e].factory
               /\ Named(d) /\ Named(e) => disturbed'[d] /\ disturbed'[e]
    <2>1. CASE pc[d] \in Running /\ pc[e] \in Running
      BY <1>1, <1>2, <2>1, OneCall DEF Serial
    <2>2. CASE Start(c) /\ ~cancelled[c]
      <3>1. \A u \in Calls : pc[u] \in Running => args[u].factory # args[c].factory
        BY <2>2 DEF Start, Busy
      <3>2. ASSUME NEW u \in Calls, u # c, pc[u] \in Running, Named(c), Named(u)
            PROVE  disturbed'[u] /\ disturbed'[c]
        <4>1. u \in Overlapping(c)
          BY <3>1, <3>2 DEF Overlapping
        <4>2. /\ disturbed'[u] = (disturbed[u] \/ u \in Overlapping(c))
              /\ disturbed'[c] = (disturbed[c] \/ Overlapping(c) # {})
          BY <2>2, <3>2 DEF Start
        <4> QED
          BY <4>1, <4>2
      <3>3. \A u \in Calls \ {c} : pc'[u] = pc[u]
        BY <1>1, OneCall
      <3>4. CASE d = c
        BY <1>2, <3>1, <3>2, <3>3, <3>4
      <3>5. CASE e = c
        BY <1>2, <3>1, <3>2, <3>3, <3>5
      <3>6. CASE d # c /\ e # c
        BY <1>2, <2>1, <3>3, <3>6
      <3> QED
        BY <3>4, <3>5, <3>6
    <2>3. \/ pc[d] \in Running /\ pc[e] \in Running
          \/ Start(c) /\ ~cancelled[c]
      BY <1>1, <1>2, OneCall, CallCases
    <2> QED
      BY <2>1, <2>2, <2>3
  <1> QED
    BY <1>1, <1>2, OneCall DEF Serial, Named

LEMMA MadeStep ==
    ASSUME IInv, NEW c \in Calls, Act(c)
    PROVE  Made'
  <1>1. TypeOK /\ Made /\ Act(c)
    BY DEF IInv
  <1>2. args' = args /\ \A d \in Calls : Named(d)' = Named(d)
    BY <1>1, OneCall DEF Named
  <1>3. \A i \in Calls : pc'[i] \in {"idle", "queued", "connect"} =>
                          pc[i] \in {"idle", "queued", "connect"}
    BY <1>1, OneCall, CallCases
  <1>4. ASSUME NEW d \in Calls, db'[d] # None, db'[d] = db[d]
        PROVE  /\ pc'[db[d]] \notin {"idle", "queued", "connect"}
               /\ Named(db[d]) <=> Named(d)
               /\ ~Named(d) => db[d] = d
    BY <1>1, <1>3, <1>4, Types DEF Made
  <1>5. CASE Connect(c)
    <2>1. pc[c] = "connect" /\ pc'[c] = "version" /\ db'[c] = DatabaseOf(c)
      BY <1>1, <1>5, CallCases
    <2>2. /\ DatabaseOf(c) \in Calls /\ pc'[DatabaseOf(c)] \notin {"idle", "queued", "connect"}
          /\ Named(DatabaseOf(c)) <=> Named(c)
          /\ ~Named(c) => DatabaseOf(c) = c
      BY <1>1, <1>3, <2>1, NewDatabase, Types DEF Made
    <2> QED
      BY <1>1, <1>2, <1>4, <2>1, <2>2, OneCall, Types DEF Made, Named
  <1>6. CASE ~Connect(c)
    <2>1. \A d \in Calls : db'[d] = db[d] \/ db'[d] = None
      BY <1>1, <1>6, OneCall, CallCases
    <2> QED
      BY <1>1, <1>2, <1>4, <2>1, Types DEF Made, Named
  <1> QED
    BY <1>5, <1>6

LEMMA OneNameStep ==
    ASSUME IInv, NEW c \in Calls, Act(c)
    PROVE  OneName'
  <1>1. TypeOK /\ OneName /\ Act(c)
    BY DEF IInv
  <1>2. \A d \in Calls : Named(d)' = Named(d)
    BY <1>1, OneCall DEF Named
  <1>3. CASE Connect(c)
    <2>1. pc[c] = "connect" /\ db'[c] = DatabaseOf(c) /\ \A d \in Calls \ {c} : db'[d] = db[d]
      BY <1>1, <1>3, CallCases, OneCall
    <2> QED
      BY <1>1, <1>2, <2>1, NewDatabase DEF OneName
  <1>4. CASE ~Connect(c)
    <2>1. \A d \in Calls : db'[d] = db[d] \/ db'[d] = None
      BY <1>1, <1>4, OneCall, CallCases
    <2> QED
      BY <1>1, <1>2, <2>1 DEF OneName
  <1> QED
    BY <1>3, <1>4

LEMMA DroppedStep ==
    ASSUME IInv, NEW c \in Calls, Act(c)
    PROVE  Dropped'
  <1>1. TypeOK /\ Dropped /\ Act(c) /\ platform \in Platforms
    BY DEF IInv, TypeOK
  <1>2. ASSUME pc'[c] \in {"failed", "cancelled"}, db'[c] # None
        PROVE  platform = "jvm" \/ cancelled'[c]
    <2>1. CASE Quiet(c)
      BY <1>1, <1>2, <2>1, Types
         DEF Quiet, Create, Start, ReadVersion, BeginSchema, Return, Cancel, Goto, Connected
    <2>2. CASE Failing(c)
      BY <1>1, <1>2, <2>2, Types
         DEF Failing, TableExists, Locked, Fault, Fail, Releases, Platforms
    <2>3. CASE Connect(c) \/ Writing(c) \/ Close(c)
      BY <1>1, <1>2, <2>3, Types
         DEF Connect, Writing, CreateTable, SetVersion, CommitSchema, Write, Close, call, Goto
    <2> QED
      BY <1>1, <2>1, <2>2, <2>3 DEF Act
  <1> QED
    BY <1>1, <1>2, OneCall DEF Dropped

LEMMA FullContents ==
    ASSUME NEW m \in Contents
    PROVE  [m EXCEPT !.version = TRUE, !.tables = 1 .. NTables] \in Contents
  <1>1. \A T, D : \A n \in [tables : SUBSET T, version : BOOLEAN, data : D] :
           [n EXCEPT !.version = TRUE, !.tables = T]
              \in [tables : SUBSET T, version : BOOLEAN, data : D]
    OBVIOUS
  <1> QED
    BY <1>1, Zenon DEF Contents

LEMMA TypeStep ==
    ASSUME IInv, NEW c \in Calls, Act(c)
    PROVE  TypeOK'
  <1>1. TypeOK /\ Act(c)
    BY DEF IInv
  <1> USE EphemeralAssumptions, Types
  <1>2. platform' \in Platforms /\ args' \in [Calls -> Requests]
    BY <1>1, OneCall DEF TypeOK
  <1>3. pc' \in [Calls -> States]
    <2>1. \E l \in States : pc' = [pc EXCEPT ![c] = l]
      BY <1>1 DEF Act, Quiet, Create, Start, ReadVersion, BeginSchema, Return, Cancel, Connect,
         Writing, CreateTable, SetVersion, CommitSchema, Write, Failing, TableExists, Locked, Fault,
         Fail, Close, Goto, call, States, Running
    <2> QED
      BY <1>1, <2>1
  <1>4. cancelled' \in [Calls -> BOOLEAN]
    <2>1. cancelled' = cancelled \/ cancelled' = [cancelled EXCEPT ![c] = TRUE]
      BY <1>1 DEF Act, Quiet, Create, Start, ReadVersion, BeginSchema, Return, Cancel, Connect,
         Writing, CreateTable, SetVersion, CommitSchema, Write, Failing, TableExists, Locked,
         Fault, Fail, Close, call
    <2> QED
      BY <1>1, <2>1
  <1>5. db' \in [Calls -> Calls \cup {None}]
    <2>1. CASE Connect(c)
      <3>1. DatabaseOf(c) \in Calls
        BY <1>1, <2>1, CallCases, NewDatabase
      <3> QED
        BY <1>1, <2>1, <3>1 DEF Connect
    <2>2. CASE ~Connect(c)
      BY <1>1, <2>2 DEF Act, Quiet, Create, Start, ReadVersion, BeginSchema, Return, Cancel,
         Writing, CreateTable, SetVersion, CommitSchema, Write, Failing, TableExists, Locked, Fault,
         Fail, Close, call
    <2> QED
      BY <2>1, <2>2
  <1>6. table' \in [Calls -> 1 .. NTables + 1]
    <2>1. CASE CreateTable(c)
      BY <1>1, <2>1 DEF CreateTable
    <2>2. CASE ~CreateTable(c)
      BY <1>1, <2>2 DEF Act, Quiet, Create, Start, ReadVersion, BeginSchema, Return, Cancel,
         Connect, Writing, SetVersion, CommitSchema, Write, Failing, TableExists, Locked, Fault,
         Fail, Close, call
    <2> QED
      BY <2>1, <2>2
  <1>7. memory' \in [Calls -> Contents]
    <2>1. CASE Writing(c)
      <3> DEFINE m == memory[db[c]]
      <3>1. db[c] \in Calls /\ m \in Contents
        BY <1>1, <2>1, MemoryCases
      <3>2. CreateTable(c) => table[c] \in 1 .. NTables
        BY <1>1 DEF CreateTable
      <3>3. \E n \in Contents : memory' = [memory EXCEPT ![db[c]] = n]
        <4>1. CASE CreateTable(c)
          <5>1. [m EXCEPT !.tables = @ \cup {table[c]}] \in Contents
            BY <3>1, <3>2, <4>1 DEF Contents
          <5> QED
            BY <4>1, <5>1 DEF CreateTable
        <4>2. CASE SetVersion(c)
          <5>1. [m EXCEPT !.version = TRUE] \in Contents
            BY <3>1 DEF Contents
          <5> QED
            BY <4>2, <5>1 DEF SetVersion
        <4>3. CASE CommitSchema(c)
          <5>1. [m EXCEPT !.version = TRUE, !.tables = 1 .. NTables] \in Contents
            BY <3>1, FullContents, Zenon
          <5>2. memory' = [memory EXCEPT ![db[c]] =
                              [m EXCEPT !.version = TRUE, !.tables = 1 .. NTables]]
            BY <1>1, <3>1, <4>3 DEF CommitSchema
          <5> QED
            BY <5>1, <5>2
        <4>4. CASE Write(c)
          <5>1. [m EXCEPT !.data = @ \cup {c}] \in Contents
            BY <3>1 DEF Contents
          <5> QED
            BY <4>4, <5>1 DEF Write
        <4> QED
          BY <2>1, <4>1, <4>2, <4>3, <4>4 DEF Writing
      <3>4. PICK n \in Contents : memory' = [memory EXCEPT ![db[c]] = n]
        BY <3>3
      <3> HIDE DEF m
      <3> QED
        BY <1>1, <3>4
    <2>2. CASE ~Writing(c)
      <3>1. Fresh \in Contents
        BY DEF Fresh, Contents
      <3>2. memory' = memory \/ memory' = [memory EXCEPT ![c] = Fresh]
        BY <1>1, <2>2, MemoryCases DEF Act
      <3> QED
        BY <1>1, <3>1, <3>2
    <2> QED
      BY <2>1, <2>2
  <1>8. faults' \in 0 .. MaxFaults /\ cancels' \in 0 .. MaxCancels
    BY <1>1 DEF TypeOK, Act, Quiet, Create, Start, ReadVersion, BeginSchema, Return, Cancel, Connect,
       Writing, CreateTable, SetVersion, CommitSchema, Write, Failing, TableExists, Locked, Fault,
       Fail, Close, limits
  <1>9. disturbed' \in [Calls -> BOOLEAN]
    <2>1. CASE Start(c)
      <3> DEFINE D(d) == disturbed[d] \/ (~cancelled[c] /\ IF d = c THEN Overlapping(c) # {}
                                                          ELSE d \in Overlapping(c))
      <3>1. disturbed' = [d \in Calls |-> D(d)]
        BY <2>1 DEF Start
      <3>2. \A d \in Calls : D(d) \in BOOLEAN
        OBVIOUS
      <3> HIDE DEF D
      <3> QED
        BY <3>1, <3>2
    <2>2. CASE ~Start(c)
      BY <1>1, <2>2 DEF Act, Quiet, Create, ReadVersion, BeginSchema, Return, Cancel, Connect,
         Writing, CreateTable, SetVersion, CommitSchema, Write, Failing, TableExists, Locked, Fault,
         Close, history
    <2> QED
      BY <2>1, <2>2
  <1>10. shared' \subseteq Calls
    BY <1>1 DEF TypeOK, Act, Quiet, Create, Start, ReadVersion, BeginSchema, Return, Cancel, Connect,
       Writing, CreateTable, SetVersion, CommitSchema, Write, Failing, TableExists, Locked, Fault,
       Fail, Close, EndUse, history
  <1>11. \A d \in Calls : pc'[d] \in Connected \cup {"open"} <=> db'[d] # None /\ d \notin Leaked'
    <2>1. /\ pc'[c] \in Connected \cup {"open"} => db'[c] # None
          /\ db'[c] # None => pc'[c] \in Connected \cup {"open", "failed", "cancelled"}
      <3>1. CASE Connect(c)
        BY <1>1, <3>1, CallCases, NewDatabase DEF Connected
      <3>2. CASE Quiet(c)
        BY <1>1, <3>2 DEF Quiet, Create, Start, ReadVersion, BeginSchema, Return, Cancel, Goto, Connected, Running
      <3>3. CASE Writing(c)
        BY <1>1, <3>3 DEF Writing, CreateTable, SetVersion, CommitSchema, Write, call, Goto, Connected
      <3>4. CASE Failing(c) \/ Close(c)
        BY <1>1, <3>4 DEF Failing, TableExists, Locked, Fault, Fail, Close, Goto, Connected
      <3> QED
        BY <1>1, <3>1, <3>2, <3>3, <3>4 DEF Act
    <2>2. \A d \in Calls :
             /\ pc'[d] \in Connected \cup {"open"} => db'[d] # None
             /\ db'[d] # None => pc'[d] \in Connected \cup {"open", "failed", "cancelled"}
      BY <1>1, <2>1, OneCall
    <2> QED
      BY <2>2 DEF Leaked, Connected
  <1> QED
    BY <1>2, <1>3, <1>4, <1>5, <1>6, <1>7, <1>8, <1>9, <1>10, <1>11 DEF TypeOK, States, Contents

\* Two connections to one database are named, and if their calls run at the same time
\* both are disturbed.
LEMMA Siblings ==
    ASSUME IInv, NEW c \in Calls, NEW d \in Calls, c # d, db[c] = db[d], db[c] # None
    PROVE  /\ Named(c) /\ Named(d)
           /\ pc[c] \in Running /\ pc[d] \in Running => disturbed[c] /\ disturbed[d]
  <1>1. Named(c) /\ Named(d)
    BY DEF IInv, Made
  <1> QED
    BY <1>1 DEF IInv, Serial

\* A database keeps its tables and its version while anyone has it open.
LEMMA Grows ==
    ASSUME IInv, NEW c \in Calls, Act(c), NEW i \in Calls, NEW d \in Calls, db[d] = i
    PROVE  /\ memory[i].tables \subseteq memory'[i].tables
           /\ memory[i].version => memory'[i].version
           /\ ~Writing(c) \/ db[c] # i => memory'[i] = memory[i]
           /\ Write(c) => /\ memory'[i].tables = memory[i].tables
                          /\ memory'[i].version = memory[i].version
  <1>1. TypeOK /\ Act(c) /\ i # None /\ memory[i] \in Contents
    BY Types DEF IInv
  <1>2. CASE Writing(c) /\ db[c] = i
    <2>1. memory[i].tables \subseteq 1 .. NTables
      BY <1>1 DEF Contents
    <2> QED
      BY <1>1, <1>2, <2>1, MemoryCases DEF Writing
  <1>3. CASE Writing(c) /\ db[c] # i
    BY <1>1, <1>3, MemoryCases
  <1>4. CASE Connect(c)
    <2>1. i # c
      BY <1>1, <1>4, CallCases DEF IInv, Made
    <2>2. memory' = memory \/ memory' = [memory EXCEPT ![c] = Fresh]
      BY <1>1, <1>4, MemoryCases
    <2>3. memory'[i] = memory[i]
      BY <1>1, <2>1, <2>2, Types
    <2> QED
      BY <2>3
  <1>5. CASE Quiet(c) \/ Failing(c) \/ Close(c)
    BY <1>1, <1>5, MemoryCases
  <1> QED
    BY <1>2, <1>3, <1>4, <1>5 DEF Act

LEMMA ProgressStep ==
    ASSUME IInv, NEW c \in Calls, Act(c)
    PROVE  Progress'
  <1>1. TypeOK /\ Progress /\ Act(c) /\ platform' = platform
    BY OneCall DEF IInv
  <1> USE Types
  <1>2. ASSUME NEW d \in Calls \ {c}
        PROVE  ProgressOf(d)'
    <2>1. /\ pc'[d] = pc[d] /\ db'[d] = db[d] /\ table'[d] = table[d]
          /\ disturbed[d] => disturbed'[d]
      BY <1>1, OneCall
    <2>2. CASE pc[d] \in {"schema", "return", "open"}
      <3>1. db[d] \in Calls
        BY <1>1, <2>2 DEF Connected
      <3>2. /\ memory[db[d]].tables \subseteq memory'[db[d]].tables
            /\ memory[db[d]].version => memory'[db[d]].version
        BY <1>1, <3>1, Grows
      <3>3. ASSUME pc[d] = "schema", memory'[db[d]].version, ~memory[db[d]].version
            PROVE  disturbed[d]
        <4>1. Writing(c) /\ db[c] = db[d] /\ ~Write(c)
          BY <1>1, <3>1, <3>3, Grows
        <4>2. pc[c] \in Running /\ pc[d] \in Running
          BY <3>3, <4>1 DEF Writing, CreateTable, SetVersion, CommitSchema, Goto, Running
        <4> QED
          BY <1>1, <3>1, <4>1, <4>2, Siblings
      <3> QED
        BY <1>1, <2>1, <3>2, <3>3 DEF Progress, ProgressOf
    <2>3. CASE pc[d] \notin {"schema", "return", "open"}
      BY <1>1, <2>1, <2>3 DEF Progress, ProgressOf
    <2> QED
      BY <2>2, <2>3
  <1>3. ProgressOf(c)'
    <2>1. ProgressOf(c) /\ NTables \in Nat /\ table[c] \in 1 .. NTables + 1
      BY <1>1 DEF Progress
    <2>2. CASE Quiet(c)
      <3>1. UNCHANGED << memory, db, table >> /\ (disturbed[c] => disturbed'[c])
        BY <1>1, <2>2, MemoryCases, OneCall
           DEF Quiet, Create, Start, ReadVersion, BeginSchema, Return, Cancel
      <3>2. CASE Create(c) \/ Start(c) \/ BeginSchema(c) \/ Return(c)
        BY <1>1, <2>1, <3>1, <3>2 DEF Create, Start, BeginSchema, Return, Goto, ProgressOf
      <3>3. CASE ReadVersion(c)
        <4>1. table[c] = 1 /\ 1 .. table[c] - 1 = {}
          BY <2>1, <3>3 DEF ReadVersion, Goto, ProgressOf
        <4> QED
          BY <1>1, <2>1, <3>1, <3>3, <4>1 DEF ReadVersion, Goto, ProgressOf
      <3>4. CASE Cancel(c)
        BY <1>1, <2>1, <3>1, <3>4 DEF Cancel, ProgressOf
      <3> QED
        BY <2>2, <3>2, <3>3, <3>4 DEF Quiet
    <2>3. CASE Connect(c)
      BY <1>1, <2>1, <2>3 DEF Connect, Goto, ProgressOf
    <2>4. CASE CreateTable(c)
      <3>1. /\ pc[c] = "schema" /\ pc' = pc /\ db' = db /\ table'[c] = table[c] + 1
            /\ disturbed' = disturbed
        BY <1>1, <2>4 DEF CreateTable, history
      <3>2. /\ memory'[db[c]].tables = memory[db[c]].tables \cup {table[c]}
            /\ memory'[db[c]].version = memory[db[c]].version
        BY <1>1, <2>4, MemoryCases
      <3>3. 1 .. table'[c] - 1 = (1 .. table[c] - 1) \cup {table[c]}
        BY <2>1, <3>1
      <3> QED
        BY <1>1, <2>1, <3>1, <3>2, <3>3 DEF ProgressOf
    <2>5. CASE SetVersion(c) \/ CommitSchema(c)
      <3>1. pc'[c] = "return" /\ db' = db
        BY <1>1, <2>5 DEF SetVersion, CommitSchema, Goto
      <3>2. memory'[db[c]].version
        BY <1>1, <2>5, MemoryCases
      <3> QED
        BY <3>1, <3>2 DEF ProgressOf
    <2>6. CASE Write(c)
      <3>1. pc[c] = "open" /\ pc' = pc /\ db' = db
        BY <2>6 DEF Write, call
      <3>2. memory'[db[c]].version = memory[db[c]].version
        BY <1>1, <2>6, MemoryCases
      <3> QED
        BY <2>1, <3>1, <3>2 DEF ProgressOf
    <2>7. CASE Failing(c) \/ Close(c)
      <3>1. pc'[c] \in {"failed", "cancelled", "closed"}
        BY <1>1, <2>7 DEF Failing, TableExists, Locked, Fault, Fail, Close, Goto
      <3> QED
        BY <3>1 DEF ProgressOf
    <2> QED
      BY <1>1, <2>2, <2>3, <2>4, <2>5, <2>6, <2>7 DEF Act, Writing
  <1> QED
    BY <1>2, <1>3 DEF Progress

LEMMA PrivateStep ==
    ASSUME IInv, NEW c \in Calls, Act(c)
    PROVE  Private'
  <1>1. TypeOK /\ Private /\ Act(c) /\ args' = args
    BY OneCall DEF IInv
  <1>2. ASSUME NEW i \in Calls, ~Named(i)
        PROVE  memory'[i].data \subseteq {i}
    <2>1. memory[i].data \subseteq {i}
      BY <1>1, <1>2 DEF Private
    <2>2. CASE Writing(c) /\ db[c] = i
      <3>1. c = i
        BY <1>1, <1>2, <2>2, Types DEF IInv, Made
      <3> QED
        BY <1>1, <2>1, <2>2, <3>1, MemoryCases DEF Writing
    <2>3. CASE Connect(c)
      <3>1. memory' = memory \/ memory' = [memory EXCEPT ![c] = Fresh]
        BY <1>1, <2>3, MemoryCases
      <3>2. memory'[i] = memory[i] \/ memory'[i] = Fresh
        BY <1>1, <3>1, Types
      <3> QED
        BY <2>1, <3>2 DEF Fresh
    <2> QED
      BY <1>1, <2>1, <2>2, <2>3, MemoryCases DEF Act
  <1> QED
    BY <1>1, <1>2 DEF Private, Named

LEMMA TablesStep ==
    ASSUME IInv, NEW c \in Calls, Act(c)
    PROVE  Tables'
  <1>1. TypeOK /\ Tables /\ Progress /\ Act(c) /\ platform' = platform
    BY OneCall DEF IInv
  <1> USE Types
  \* The maker of the tables is still there, as long as they stay as they are.
  <1>2. ASSUME NEW i \in Calls, memory'[i].tables = memory[i].tables,
               memory'[i].version = memory[i].version, ~SetVersion(c) \/ db[c] # i
        PROVE  /\ memory'[i].version => memory'[i].tables = 1 .. NTables
               /\ memory'[i].tables # {} /\ ~memory'[i].version =>
                     platform = "jvm" /\ \E e \in Calls : Maker(i, e)'
    <2>1. memory[i].version => memory[i].tables = 1 .. NTables
      BY <1>1 DEF Tables
    <2>2. ASSUME memory[i].tables # {}, ~memory[i].version
          PROVE  platform = "jvm" /\ \E e \in Calls : Maker(i, e)'
      <3>1. PICK e \in Calls : Maker(i, e)
        BY <1>1, <2>2 DEF Tables
      <3>2. platform = "jvm"
        BY <1>1, <2>2 DEF Tables
      <3>3. CASE e # c
        <4>1. pc'[e] = pc[e] /\ db'[e] = db[e] /\ table'[e] = table[e]
          BY <1>1, <3>3, OneCall
        <4> QED
          BY <1>2, <3>1, <3>2, <4>1 DEF Maker
      <3>4. CASE e = c
        <4>1. pc[c] = "schema" /\ db[c] = i /\ i # None
          BY <1>1, <3>1, <3>4, CallCases DEF Maker
        <4>2. CASE CreateTable(c)
          <5>1. table[c] \in memory'[i].tables /\ table[c] \notin memory[i].tables
            BY <1>1, <4>1, <4>2, MemoryCases DEF CreateTable
          <5> QED
            BY <1>2, <5>1
        <4>3. CASE Cancel(c)
          <5>1. UNCHANGED << pc, db, table >>
            BY <4>3 DEF Cancel
          <5> QED
            BY <1>2, <3>1, <3>2, <5>1 DEF Maker
        <4>4. CASE Failing(c)
          <5>1. db' = db /\ table' = table /\ pc'[c] \in {"failed", "cancelled"}
            BY <1>1, <3>2, <4>4 DEF Failing, TableExists, Locked, Fault, Fail, Releases
          <5> QED
            BY <1>2, <3>1, <3>2, <3>4, <5>1 DEF Maker
        <4> QED
          BY <1>1, <1>2, <3>2, <4>1, <4>2, <4>3, <4>4
             DEF Act, Quiet, Create, Start, ReadVersion, BeginSchema, Return, Connect, Writing,
                 CommitSchema, Write, Close, Goto
      <3> QED
        BY <3>3, <3>4
    <2> QED
      BY <1>2, <2>1, <2>2
  <1>3. ASSUME NEW i \in Calls, SetVersion(c) \/ CommitSchema(c), db[c] = i
        PROVE  memory'[i].version /\ memory'[i].tables = 1 .. NTables
    <2>1. CASE CommitSchema(c)
      BY <1>1, <1>3, <2>1, MemoryCases
    <2>2. CASE SetVersion(c)
      <3>1. /\ pc[c] = "schema" /\ platform = "jvm" /\ table[c] > NTables
            /\ table[c] \in 1 .. NTables + 1 /\ NTables \in Nat
        BY <1>1, <2>2 DEF SetVersion, Goto
      <3>2. 1 .. table[c] - 1 \subseteq memory[i].tables
        BY <1>1, <1>3, <3>1 DEF Progress, ProgressOf
      <3>3. memory[i].tables \subseteq 1 .. NTables
        BY <1>1 DEF Contents
      <3>4. memory[i].tables = 1 .. NTables
        <4>1. table[c] - 1 = NTables
          BY <3>1
        <4> QED
          BY <3>2, <3>3, <4>1
      <3> QED
        BY <1>1, <1>3, <2>2, <3>4, MemoryCases
    <2> QED
      BY <1>3, <2>1, <2>2
  \* Who adds a table has made all those before it.
  <1>4. ASSUME NEW i \in Calls, CreateTable(c), db[c] = i
        PROVE  ~memory'[i].version /\ platform = "jvm" /\ Maker(i, c)'
    <2>1. /\ platform = "jvm" /\ pc[c] = "schema" /\ table[c] \in 1 .. NTables
          /\ table[c] \notin memory[i].tables
          /\ pc' = pc /\ db' = db /\ table'[c] = table[c] + 1
      BY <1>1, <1>4 DEF CreateTable
    <2>2. /\ memory'[i].tables = memory[i].tables \cup {table[c]}
          /\ memory'[i].version = memory[i].version
      BY <1>1, <1>4, MemoryCases
    <2>3. ~memory[i].version
      BY <1>1, <2>1 DEF Tables
    <2>4. 1 .. table[c] - 1 \subseteq memory[i].tables
      BY <1>1, <1>4, <2>1 DEF Progress, ProgressOf
    <2>5. memory[i].tables = 1 .. table[c] - 1
      <3>1. CASE memory[i].tables = {}
        BY <2>1, <2>4, <3>1
      <3>2. CASE memory[i].tables # {}
        <4>1. PICK e \in Calls : Maker(i, e)
          BY <1>1, <2>3, <3>2 DEF Tables
        <4>2. /\ memory[i].tables = 1 .. table[e] - 1 /\ table[e] \in Nat /\ table[e] > 1
              /\ table[c] \in Nat /\ table[c] >= 1
          BY <1>1, <2>1, <4>1 DEF Maker
        <4>3. ~(table[c] <= table[e] - 1)
          BY <2>1, <4>2
        <4>4. ~(table[e] <= table[c] - 1)
          <5> SUFFICES ASSUME table[e] <= table[c] - 1
                       PROVE  FALSE
            OBVIOUS
          <5>1. table[e] \in 1 .. table[c] - 1 /\ table[e] \notin 1 .. table[e] - 1
            BY <4>2
          <5> QED
            BY <2>4, <4>2, <5>1
        <4>5. table[e] = table[c]
          BY <4>2, <4>3, <4>4
        <4> QED
          BY <4>2, <4>5
      <3> QED
        BY <3>1, <3>2
    <2>6. memory'[i].tables = 1 .. table'[c] - 1
      BY <2>1, <2>2, <2>5
    <2> QED
      BY <1>4, <2>1, <2>2, <2>3, <2>6 DEF Maker
  <1>5. ASSUME NEW i \in Calls
        PROVE  /\ memory'[i].version => memory'[i].tables = 1 .. NTables
               /\ memory'[i].tables # {} /\ ~memory'[i].version =>
                     platform = "jvm" /\ \E e \in Calls : Maker(i, e)'
    <2>1. CASE Connect(c)
      <3>1. memory' = memory \/ memory' = [memory EXCEPT ![c] = Fresh]
        BY <1>1, <2>1, MemoryCases
      <3>2. CASE memory'[i] = Fresh
        BY <3>2 DEF Fresh
      <3>3. CASE memory'[i] = memory[i]
        <4>1. ~SetVersion(c)
          BY <1>1, <2>1 DEF Connect, SetVersion, Goto
        <4> QED
          BY <1>2, <3>3, <4>1
      <3> QED
        BY <1>1, <3>1, <3>2, <3>3
    <2>2. CASE Writing(c) /\ db[c] = i
      <3>1. CASE Write(c)
        <4>1. ~SetVersion(c)
          BY <3>1 DEF Write, SetVersion, Goto
        <4> QED
          BY <1>1, <1>2, <2>2, <3>1, <4>1, MemoryCases
      <3> QED
        BY <1>3, <1>4, <2>2, <3>1 DEF Writing
    <2>3. CASE ~Connect(c) /\ ~(Writing(c) /\ db[c] = i)
      <3>1. memory'[i] = memory[i]
        <4>1. CASE Writing(c)
          <5>1. \A j \in Calls \ {db[c]} : memory'[j] = memory[j]
            BY <1>1, <4>1, MemoryCases
          <5>2. i \in Calls \ {db[c]}
            BY <2>3, <4>1
          <5> QED
            BY <5>1, <5>2
        <4>2. CASE ~Writing(c)
          BY <1>1, <2>3, <4>2, MemoryCases DEF Act
        <4> QED
          BY <4>1, <4>2
      <3> QED
        BY <1>2, <2>3, <3>1 DEF Writing
    <2> QED
      BY <2>1, <2>2, <2>3
  <1> QED
    BY <1>1, <1>5 DEF Tables

LEMMA SharedStep ==
    ASSUME IInv, NEW c \in Calls, Act(c)
    PROVE  Shared'
  <1>1. TypeOK /\ Shared /\ OneName /\ Made /\ Act(c) /\ TypeOK' /\ Dropped'
    BY TypeStep, DroppedStep DEF IInv
  <1> SUFFICES ASSUME Orphans' = {}
               PROVE  /\ \A d \in Calls : Named(d)' /\ db'[d] # None => memory'[db'[d]].data = shared'
                      /\ (\A d \in Calls : Named(d)' => db'[d] = None) => shared' = {}
    BY DEF Shared
  <1>2. \A d \in Calls : Named(d)' = Named(d)
    BY <1>1, OneCall DEF Named
  <1>3. Orphans = {}
    <2>1. ASSUME NEW e \in Orphans
          PROVE  e \in Orphans'
      <3>1. e \in Calls /\ e # c
        BY <1>1, <2>1, CallCases DEF Orphans, Leaked
      <3>2. /\ pc'[e] = pc[e] /\ db'[e] = db[e] /\ cancelled'[e] = cancelled[e]
            /\ platform' = platform
        BY <1>1, <3>1, OneCall
      <3> QED
        BY <2>1, <3>1, <3>2 DEF Orphans, Leaked
    <2> QED
      BY <2>1
  <1>4. \A d \in Calls : Named(d) /\ db[d] # None => db[d] \in Calls /\ memory[db[d]].data = shared
    BY <1>1, <1>3, Types DEF Shared
  <1>5. (\A d \in Calls : Named(d) => db[d] = None) => shared = {}
    BY <1>1, <1>3 DEF Shared
  \* Without an orphan every connection is in use.
  <1>6. \A d \in Calls : db'[d] # None <=> pc'[d] \in Connected \cup {"open"}
    BY <1>1 DEF TypeOK, Leaked, Orphans, Dropped
  <1>7. CASE Failing(c) \/ Close(c)
    <2>1. memory' = memory /\ EndUse
      BY <1>1, <1>7, MemoryCases DEF Failing, TableExists, Locked, Fault, Fail, Close
    <2>2. \A d \in Calls : db'[d] = db[d] \/ db'[d] = None
      BY <1>1, <1>7, OneCall, CallCases DEF Failing, TableExists, Locked, Fault, Close, Connect, Goto
    <2>3. CASE \E d \in Calls : Named(d) /\ db'[d] # None
      <3>1. shared' = shared
        BY <1>6, <2>1, <2>3 DEF EndUse
      <3> QED
        BY <1>2, <1>4, <2>1, <2>2, <2>3, <3>1
    <2>4. CASE ~\E d \in Calls : Named(d) /\ db'[d] # None
      <3>1. shared' = {}
        BY <1>6, <2>1, <2>4 DEF EndUse
      <3> QED
        BY <1>2, <2>4, <3>1
    <2> QED
      BY <2>3, <2>4
  <1>8. CASE Quiet(c)
    <2>1. UNCHANGED << memory, db, shared >>
      BY <1>8 DEF Quiet, Create, Start, ReadVersion, BeginSchema, Return, Cancel, history
    <2> QED
      BY <1>2, <1>4, <1>5, <2>1
  <1>9. CASE Connect(c)
    <2>1. /\ pc[c] = "connect" /\ db'[c] = DatabaseOf(c) /\ shared' = shared
          /\ \A d \in Calls \ {c} : db'[d] = db[d]
      BY <1>1, <1>9, CallCases, OneCall DEF Connect, history
    <2>2. db[c] = None
      BY <1>1, <2>1, Types DEF Connected
    <2>3. memory' = IF DatabaseOf(c) = c THEN [memory EXCEPT ![c] = Fresh] ELSE memory
      BY <1>1, <1>9, MemoryCases
    <2>4. ASSUME NEW d \in Calls \ {c}, Named(d), db[d] # None
          PROVE  memory'[db[d]].data = shared
      <3>1. db[d] # c /\ db[d] \in Calls
        BY <1>1, <2>1, <2>4, Types DEF Made
      <3>2. memory'[db[d]] = memory[db[d]]
        BY <1>1, <2>3, <3>1, Types
      <3> QED
        BY <1>4, <2>4, <3>2
    <2>5. ASSUME Named(c)
          PROVE  memory'[DatabaseOf(c)].data = shared
      <3>1. CASE DatabaseOf(c) = c
        <4>1. memory'[c] = Fresh
          BY <1>1, <2>3, <3>1, Types
        <4>2. shared = {}
          BY <1>5, <2>1, <2>5, <3>1, NewDatabase
        <4> QED
          BY <3>1, <4>1, <4>2 DEF Fresh
      <3>2. CASE DatabaseOf(c) # c
        BY <1>4, <2>1, <2>3, <3>2, NewDatabase
      <3> QED
        BY <3>1, <3>2
    <2> QED
      BY <1>2, <1>5, <2>1, <2>2, <2>4, <2>5
  <1>10. CASE CreateTable(c) \/ SetVersion(c) \/ CommitSchema(c)
    <2>1. db' = db /\ shared' = shared
      BY <1>10 DEF CreateTable, SetVersion, CommitSchema, history
    <2>2. \A i \in Calls : memory'[i].data = memory[i].data
      BY <1>1, <1>10, MemoryCases DEF Writing
    <2> QED
      BY <1>2, <1>4, <1>5, <2>1, <2>2
  <1>11. CASE Write(c)
    <2>1. /\ db' = db /\ db[c] \in Calls /\ db[c] # None
          /\ shared' = IF Named(c) THEN shared \cup {c} ELSE shared
          /\ memory'[db[c]].data = memory[db[c]].data \cup {c}
          /\ \A i \in Calls \ {db[c]} : memory'[i] = memory[i]
      BY <1>1, <1>11, MemoryCases, Types DEF Write, call, Writing
    <2>2. ASSUME NEW d \in Calls, Named(d), db[d] # None
          PROVE  memory'[db[d]].data = shared'
      <3>1. CASE Named(c)
        BY <1>1, <1>4, <2>1, <2>2, <3>1 DEF OneName
      <3>2. CASE ~Named(c)
        <4>1. db[d] # db[c]
          BY <1>1, <2>1, <2>2, <3>2, Types DEF Made
        <4> QED
          BY <1>4, <2>1, <2>2, <3>2, <4>1
      <3> QED
        BY <3>1, <3>2
    <2> QED
      BY <1>2, <1>5, <2>1, <2>2
  <1> QED
    BY <1>1, <1>7, <1>8, <1>9, <1>10, <1>11 DEF Act, Writing

\* A database whose first tables were left without a version stays like that.
LEMMA StuckStays ==
    ASSUME IInv, NEW c \in Calls, Act(c), NEW e \in Calls \ {c}, db[e] # None,
           Stuck(db[e]), platform = "jvm"
    PROVE  Stuck(db[e])'
  <1> DEFINE i == db[e]
  <1>1. TypeOK /\ Act(c) /\ Progress /\ i \in Calls /\ i # None
    BY Types DEF IInv
  <1>2. /\ memory[i].tables # {} /\ ~memory[i].version
        /\ \A d \in Calls : db[d] = i /\ pc[d] = "schema" => table[d] = 1
    BY DEF Stuck
  <1>3. 1 \in memory[i].tables /\ 1 <= NTables /\ NTables \in Nat
    <2>1. PICK m \in Calls : Maker(i, m)
      BY <1>1, <1>2 DEF IInv, Tables
    <2>2. 1 \in memory[i].tables
      BY <1>1, <2>1, Types DEF Maker
    <2>3. memory[i].tables \subseteq 1 .. NTables
      BY <1>1, Types DEF Contents
    <2> QED
      BY <1>1, <2>2, <2>3, Types
  <1>4. ~(CreateTable(c) /\ db[c] = i) /\ ~(SetVersion(c) /\ db[c] = i)
    BY <1>2, <1>3 DEF CreateTable, SetVersion, Goto
  <1>5. ~(CommitSchema(c) /\ db[c] = i)
    BY <1>1 DEF CommitSchema, Goto, Progress, ProgressOf
  <1>6. memory'[i].tables = memory[i].tables /\ memory'[i].version = memory[i].version
    <2>1. CASE Writing(c) /\ db[c] = i
      BY <1>1, <1>4, <1>5, <2>1, MemoryCases DEF Writing
    <2>2. CASE ~(Writing(c) /\ db[c] = i)
      BY <1>1, <2>2, Grows
    <2> QED
      BY <2>1, <2>2
  <1>7. ASSUME NEW d \in Calls, db'[d] = i, pc'[d] = "schema"
        PROVE  table'[d] = 1
    <2>1. CASE d # c
      BY <1>1, <1>2, <1>7, <2>1, OneCall
    <2>2. CASE d = c
      <3>1. ~Connect(c) /\ db[c] = i
        BY <1>1, <1>7, <2>2, CallCases
      <3>2. ReadVersion(c) \/ Cancel(c)
        BY <1>1, <1>4, <1>5, <1>7, <2>2, <3>1, Types
           DEF Act, Quiet, Create, Start, BeginSchema, Return, Writing, SetVersion, CommitSchema,
               Write, Failing, TableExists, Locked, Fault, Fail, Close, Goto, call
      <3>3. CASE ReadVersion(c)
        BY <1>1, <2>2, <3>3 DEF ReadVersion, Goto, Progress, ProgressOf
      <3>4. CASE Cancel(c)
        BY <1>2, <1>7, <2>2, <3>1, <3>4 DEF Cancel
      <3> QED
        BY <3>2, <3>3, <3>4
    <2> QED
      BY <2>1, <2>2
  <1>8. db'[e] = i
    BY <1>1, OneCall
  <1> QED
    BY <1>2, <1>6, <1>7, <1>8 DEF Stuck

LEMMA FailedStep ==
    ASSUME IInv, NEW c \in Calls, Act(c)
    PROVE  Failed'
  <1>1. TypeOK /\ Failed /\ Progress /\ Act(c) /\ UNCHANGED << platform, args >>
    BY OneCall DEF IInv
  <1>2. \A d \in Calls : Named(d)' = Named(d)
    BY <1>1 DEF Named
  \* Who has failed keeps its reason ...
  <1>3. ASSUME NEW d \in Calls, pc[d] = "failed", ~disturbed[d]
        PROVE  platform = "jvm" /\ \E e \in Leaked' \ {d} : Named(e)' /\ Stuck(db[e])'
    <2>1. PICK e \in Leaked \ {d} : Named(e) /\ Stuck(db[e])
      BY <1>1, <1>3 DEF Failed
    <2>2. e \in Calls /\ e # c /\ db[e] # None /\ platform = "jvm"
      BY <1>1, <1>3, <2>1, CallCases DEF Leaked, Failed
    <2>3. pc'[e] = pc[e] /\ db'[e] = db[e]
      BY <1>1, <2>2, OneCall
    <2>4. Stuck(db[e])'
      BY <1>1, <2>1, <2>2, <2>3, StuckStays
    <2> QED
      BY <1>2, <2>1, <2>2, <2>3, <2>4 DEF Leaked
  \* ... and who fails has met a fault, or tables that a leaked connection left behind.
  <1>4. ASSUME pc'[c] = "failed", ~disturbed'[c]
        PROVE  platform = "jvm" /\ \E e \in Leaked' \ {c} : Named(e)' /\ Stuck(db[e])'
    <2>1. Failing(c) /\ ~disturbed[c]
      BY <1>1, <1>4, Types, OneCall
         DEF Act, Quiet, Create, Start, ReadVersion, BeginSchema, Return, Cancel, Connect,
             Writing, CreateTable, SetVersion, CommitSchema, Write, Close, Goto, call, Running
    <2>2. pc[c] \in {"version", "schema", "transaction"} /\ db[c] \in Calls
      BY <1>1, <2>1, Types DEF Failing, TableExists, Locked, Fault, Connected
    <2>3. \A d \in Calls \ {c} : db[d] = db[c] => pc[d] \notin Running
      BY <1>1, <2>1, <2>2, Siblings, Types DEF Running
    <2>4. ~Fault(c)
      BY <1>1, <1>4, Types DEF Fault
    <2>5. ~Locked(c)
      BY <2>3 DEF Locked, Running
    <2>6. TableExists(c)
      BY <2>1, <2>4, <2>5 DEF Failing
    <2>7. pc[c] = "schema" /\ memory[db[c]].tables # {} /\ ~memory[db[c]].version
      BY <1>1, <2>1, <2>6 DEF TableExists, Progress, ProgressOf
    <2>8. platform = "jvm" /\ table[c] \in memory[db[c]].tables
      BY <2>2, <2>6, <2>7 DEF TableExists, IInv, Tables
    <2>9. PICK e \in Calls : Maker(db[c], e)
      BY <2>2, <2>7 DEF IInv, Tables
    <2>10. e # c
      <3>1. table[e] \in Nat /\ table[e] \notin 1 .. table[e] - 1
        BY <1>1, Types
      <3> QED
        BY <2>8, <2>9, <3>1 DEF Maker
    <2>11. e \in Leaked /\ Named(e) /\ db[e] = db[c]
      <3>1. db[e] = db[c] /\ pc[e] \in {"failed", "cancelled"}
        BY <2>3, <2>9, <2>10 DEF Maker, Running
      <3>2. Named(e)
        BY <1>1, <2>2, <2>10, <3>1, Siblings, Types
      <3> QED
        BY <1>1, <2>2, <3>1, <3>2, Types DEF Leaked
    <2>12. pc'[e] = pc[e] /\ db'[e] = db[e] /\ memory' = memory
      BY <1>1, <2>1, <2>10, OneCall, MemoryCases
    <2>13. Stuck(db[e])'
      <3>1. ASSUME NEW d \in Calls, db'[d] = db[c], pc'[d] = "schema"
            PROVE  FALSE
        <4>1. d # c
          BY <1>4, <3>1
        <4>2. pc[d] = "schema" /\ db[d] = db[c]
          BY <1>1, <3>1, <4>1, OneCall
        <4> QED
          BY <2>3, <4>1, <4>2 DEF Running
      <3> QED
        BY <2>7, <2>11, <2>12, <3>1 DEF Stuck
    <2> QED
      BY <1>2, <2>8, <2>10, <2>11, <2>12, <2>13 DEF Leaked
  <1>5. ASSUME NEW d \in Calls, pc'[d] = "failed", ~disturbed'[d]
        PROVE  platform = "jvm" /\ \E e \in Leaked' \ {d} : Named(e)' /\ Stuck(db[e])'
    BY <1>1, <1>3, <1>4, <1>5, OneCall
  <1> QED
    BY <1>1, <1>5 DEF Failed

LEMMA Initially == Init => IInv
  <1> SUFFICES ASSUME Init
               PROVE  IInv
    OBVIOUS
  <1> USE EphemeralAssumptions DEF Init
  <1>1. /\ \A c \in Calls : /\ pc[c] = "idle" /\ db[c] = None /\ table[c] = 1
                            /\ memory[c] = Fresh
        /\ shared = {}
    OBVIOUS
  <1>2. TypeOK
    <2>1. Fresh \in Contents
      BY DEF Fresh, Contents
    <2>2. memory \in [Calls -> Contents]
      BY <2>1
    <2>3. \A c \in Calls : pc[c] \notin Connected \cup {"open"}
      BY DEF Connected
    <2>4. table \in [Calls -> 1 .. NTables + 1]
      OBVIOUS
    <2> QED
      BY <1>1, <2>2, <2>3, <2>4 DEF TypeOK, Contents
  <1>3. Serial /\ Made /\ OneName /\ Dropped /\ Failed
    BY <1>1 DEF Serial, Made, OneName, Dropped, Failed, Running
  <1>4. Tables /\ Private
    BY <1>1 DEF Tables, Private, Fresh
  <1>5. Progress /\ Shared
    BY <1>1 DEF Progress, ProgressOf, Shared
  <1> QED
    BY <1>2, <1>3, <1>4, <1>5 DEF IInv

LEMMA Inductive == IInv /\ [Next]_vars => IInv'
  <1> SUFFICES ASSUME IInv, [Next]_vars
               PROVE  IInv'
    OBVIOUS
  <1>1. ASSUME NEW c \in Calls, Act(c)
        PROVE  IInv'
    BY <1>1, TypeStep, SerialStep, MadeStep, OneNameStep, DroppedStep, TablesStep, ProgressStep,
       PrivateStep, SharedStep, FailedStep DEF IInv
  <1>2. CASE UNCHANGED vars
    <2> USE <1>2 DEF vars, call, limits, history, IInv, Named
    <2>1. TypeOK'
      BY DEF TypeOK, Leaked
    <2>2. Serial' /\ Made' /\ OneName' /\ Dropped'
      BY DEF Serial, Made, OneName, Dropped
    <2>3. Tables' /\ Progress'
      BY DEF Tables, Maker, Progress, ProgressOf
    <2>4. Private' /\ Shared'
      BY DEF Private, Shared, Orphans, Leaked
    <2>5. Failed'
      BY DEF Failed, Stuck, Leaked
    <2> QED
      BY <2>1, <2>2, <2>3, <2>4, <2>5
  <1> QED
    BY <1>1, <1>2, NextCases

LEMMA Invariant == Spec => []IInv
  BY Initially, Inductive, PTL DEF Spec

-----------------------------------------------------------------------------
(* The theorems                                                            *)

\* Calls, connections and the contents of databases keep their types, and whoever is
\* connected has the database of some call.
THEOREM EphemeralTypeCorrect == Spec => []TypeOK
  <1>1. IInv => TypeOK
    BY DEF IInv
  <1> QED
    BY <1>1, Invariant, PTL

\* However many calls and factories meet on the named database, and whatever faults and
\* cancellations meet them, a driver that create(opt) returned has the whole schema.
THEOREM SchemaIsWhole == Spec => []SchemaComplete
  <1>1. IInv => SchemaComplete
    BY Types DEF IInv, Tables, Progress, ProgressOf, SchemaComplete
  <1> QED
    BY <1>1, Invariant, PTL

\* As long as the code has dropped no connection, every driver with a name sees what all
\* drivers of that name wrote since the first of them, and a private one only what it
\* wrote itself (EphemeralOpt.NAMED).
THEOREM DriversShareByName == Spec => []SeesItsDatabase
  <1>1. IInv => SeesItsDatabase
    BY Types DEF IInv, Made, Private, Shared, SeesItsDatabase
  <1> QED
    BY <1>1, Invariant, PTL

\* Calls that follow one another do not fail: a creation fails after a fault, beside a
\* call of another factory, or on a named database that an earlier failure on the JVM
\* left with half a schema and an open connection (Factory.create(opt)).
THEOREM CreationsFailForAReason == Spec => []FailsForAReason
  <1>1. IInv => FailsForAReason
    BY DEF IInv, Failed, Stuck, FailsForAReason
  <1> QED
    BY <1>1, Invariant, PTL

===================================================================================
