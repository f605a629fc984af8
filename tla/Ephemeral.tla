---------------------------------- MODULE Ephemeral ----------------------------------
(***************************************************************************)
(* Factory.create(opt): databases in memory, private or shared under the   *)
(* name of the factory, on both platforms, with concurrent creations,      *)
(* faults, cancellation and close.                                         *)
(*                                                                         *)
(* A driver has one connection.  A database lives as long as a connection  *)
(* to it is open (BtShared.nRef) and is identified by the call whose       *)
(* connection created it; all factories have the same dbName.              *)
(*                                                                         *)
(* External: JdbcSqliteDriver reads user_version, and for 0 creates the    *)
(* tables one by one and then sets the version, each statement on its own; *)
(* SQLiter does the same in one transaction and closes a connection whose  *)
(* schema fails.  In a shared cache a connection that meets another one in *)
(* its schema may get SQLITE_LOCKED.                                       *)
(***************************************************************************)
EXTENDS Naturals, FiniteSets

CONSTANTS
    Calls,       \* calls of create
    Requests,    \* [factory, opt] of the calls
    NTables,     \* tables of the schema
    None,        \* no database
    MaxFaults, MaxCancels

Opts == {"IN_MEMORY", "NAMED", "TEMPORARY"}
Platforms == {"jvm", "native"}

ASSUME EphemeralAssumptions ==
    /\ \A r \in Requests : r.opt \in Opts
    /\ None \notin Calls
    /\ NTables \in Nat /\ MaxFaults \in Nat /\ MaxCancels \in Nat

VARIABLES
    platform,
    args,        \* what each call was called with
    pc,          \* where it is
    cancelled,   \* its caller was cancelled
    db,          \* the database its connection is open on
    table,       \* the table it creates next
    memory,      \* contents of a database: [tables, version, data]
    faults, cancels,
    disturbed,   \* history: a fault, or a call of another factory, met the creation
    shared       \* history: who wrote to the named database since it came to be

call == << pc, cancelled, db, table >>
limits == << faults, cancels >>
history == << disturbed, shared >>
vars == << platform, args, call, memory, limits, history >>

Running == {"connect", "version", "schema", "transaction", "return"}
Connected == {"version", "schema", "transaction", "return"}
\* Connections that nobody can close any more, and those of them that the code drops.
Leaked == {c \in Calls : db[c] # None /\ pc[c] \in {"failed", "cancelled"}}
Orphans == {c \in Leaked : platform = "jvm" \/ cancelled[c]}

Named(c) == args[c].opt = "NAMED"
Fresh == [tables |-> {}, version |-> FALSE, data |-> {}]

Init ==
    /\ platform \in Platforms
    /\ args \in [Calls -> Requests]
    /\ pc = [c \in Calls |-> "idle"]
    /\ cancelled = [c \in Calls |-> FALSE]
    /\ db = [c \in Calls |-> None]
    /\ table = [c \in Calls |-> 1]
    /\ memory = [c \in Calls |-> Fresh]
    /\ faults = 0 /\ cancels = 0
    /\ disturbed = [c \in Calls |-> FALSE]
    /\ shared = {}

Goto(c, from, to) == pc[c] = from /\ pc' = [pc EXCEPT ![c] = to]

\* Mutation: the dispatcher runs the calls of a factory in parallel.
BusyNever(f) == FALSE

\* The dispatcher of a factory has a parallelism of one.
Busy(f) == \E d \in Calls : args[d].factory = f /\ pc[d] \in Running

\* A call is disturbed when one of another factory is creating at the same time.
Overlapping(c) ==
    {d \in Calls : /\ args[d].factory # args[c].factory
                   /\ Named(c) /\ Named(d)
                   /\ pc[d] \in Running}

-----------------------------------------------------------------------------
(* A call of create(opt)                                                   *)

\* withContext(dispatcher)
Create(c) ==
    /\ Goto(c, "idle", "queued")
    /\ UNCHANGED << platform, args, cancelled, db, table, memory, limits, history >>

\* The block runs, unless its caller was cancelled while it was queued.
Start(c) ==
    /\ ~Busy(args[c].factory)
    /\ Goto(c, "queued", IF cancelled[c] THEN "cancelled" ELSE "connect")
    /\ disturbed' = [d \in Calls |->
          disturbed[d] \/ (~cancelled[c] /\ IF d = c THEN Overlapping(c) # {}
                                                     ELSE d \in Overlapping(c))]
    /\ UNCHANGED << platform, args, cancelled, db, table, memory, limits, shared >>

\* Mutation: the name of the database is not used with a shared cache.
DatabaseOfNoSharing(c) == c

\* ":memory:" and "" are private; the named one is there if anyone has it open.
DatabaseOf(c) ==
    LET living == {db[d] : d \in {e \in Calls : Named(e)}} \ {None}
    IN  IF Named(c) /\ living # {} THEN CHOOSE i \in living : TRUE ELSE c

\* The connection opens; the pragmas of the configuration are executed.
Connect(c) ==
    /\ Goto(c, "connect", "version")
    /\ db' = [db EXCEPT ![c] = DatabaseOf(c)]
    /\ memory' = IF DatabaseOf(c) = c THEN [memory EXCEPT ![c] = Fresh] ELSE memory
    /\ UNCHANGED << platform, args, cancelled, table, limits, history >>

\* Mutation: a named database is not given the schema.
ReadVersionOnly(c) ==
    /\ Goto(c, "version", IF memory[db[c]].version \/ Named(c) THEN "return" ELSE "schema")
    /\ UNCHANGED << platform, args, cancelled, db, table, memory, limits, history >>

\* PRAGMA user_version: an existing schema is taken as it is.
ReadVersion(c) ==
    /\ Goto(c, "version", IF memory[db[c]].version THEN "return" ELSE "schema")
    /\ UNCHANGED << platform, args, cancelled, db, table, memory, limits, history >>

\* Mutation: no driver is closed when its first connection fails.
ReleasesNever == FALSE

\* What the catch of create does with the connection: native closes the driver, the
\* JVM drops it.
Releases == platform = "native"

\* The named database should last while a call or a driver uses it.
EndUse ==
    shared' = IF \E d \in Calls : Named(d) /\ pc'[d] \in Connected \cup {"open"}
              THEN shared ELSE {}

\* create throws an IllegalStateException, or the caller was cancelled anyway.
Fail(c) ==
    /\ pc' = [pc EXCEPT ![c] = IF cancelled[c] THEN "cancelled" ELSE "failed"]
    /\ db' = IF Releases THEN [db EXCEPT ![c] = None] ELSE db
    /\ EndUse
    /\ UNCHANGED << platform, args, cancelled, table, memory, cancels >>

\* schema.create on the JVM: the tables one by one, then the version.
CreateTable(c) ==
    /\ platform = "jvm" /\ pc[c] = "schema"
    /\ table[c] <= NTables /\ table[c] \notin memory[db[c]].tables
    /\ memory' = [memory EXCEPT ![db[c]].tables = @ \cup {table[c]}]
    /\ table' = [table EXCEPT ![c] = @ + 1]
    /\ UNCHANGED << platform, args, pc, cancelled, db, limits, history >>

SetVersion(c) ==
    /\ platform = "jvm" /\ table[c] > NTables
    /\ Goto(c, "schema", "return")
    /\ memory' = [memory EXCEPT ![db[c]].version = TRUE]
    /\ UNCHANGED << platform, args, cancelled, db, table, limits, history >>

\* The same on native, in one transaction.
BeginSchema(c) ==
    /\ platform = "native" /\ Goto(c, "schema", "transaction")
    /\ memory[db[c]].tables = {}
    /\ \A d \in Calls : db[d] = db[c] => pc[d] # "transaction"
    /\ UNCHANGED << platform, args, cancelled, db, table, memory, limits, history >>

CommitSchema(c) ==
    /\ Goto(c, "transaction", "return")
    /\ memory' = [memory EXCEPT ![db[c]].version = TRUE, ![db[c]].tables = 1 .. NTables]
    /\ UNCHANGED << platform, args, cancelled, db, table, limits, history >>

\* The table exists already.
TableExists(c) ==
    /\ pc[c] = "schema"
    /\ \E n \in memory[db[c]].tables : platform = "native" \/ n = table[c]
    /\ Fail(c)
    /\ UNCHANGED << faults, disturbed >>

\* SQLITE_LOCKED: another connection to the database is in its schema.
Locked(c) ==
    /\ pc[c] \in {"version", "schema"}
    /\ \E d \in Calls \ {c} : db[d] = db[c] /\ pc[d] \in {"schema", "transaction"}
    /\ Fail(c)
    /\ UNCHANGED << faults, disturbed >>

\* A pragma, the schema or a callback throws.
Fault(c) ==
    /\ pc[c] \in {"version", "schema", "transaction"} /\ faults < MaxFaults
    /\ faults' = faults + 1
    /\ disturbed' = [disturbed EXCEPT ![c] = TRUE]
    /\ Fail(c)

\* withContext hands the driver to its caller, or drops it when that was cancelled.
Return(c) ==
    /\ Goto(c, "return", IF cancelled[c] THEN "cancelled" ELSE "open")
    /\ UNCHANGED << platform, args, cancelled, db, table, memory, limits, history >>

Cancel(c) ==
    /\ pc[c] \in {"queued"} \cup Running /\ ~cancelled[c]
    /\ cancels < MaxCancels
    /\ cancels' = cancels + 1
    /\ cancelled' = [cancelled EXCEPT ![c] = TRUE]
    /\ UNCHANGED << platform, args, pc, db, table, memory, faults, history >>

-----------------------------------------------------------------------------
(* The driver                                                              *)

Write(c) ==
    /\ pc[c] = "open"
    /\ memory' = [memory EXCEPT ![db[c]].data = @ \cup {c}]
    /\ shared' = IF Named(c) THEN shared \cup {c} ELSE shared
    /\ UNCHANGED << platform, args, call, limits, disturbed >>

\* Mutation: close leaves the connection open.
CloseNothing(c) ==
    /\ Goto(c, "open", "closed")
    /\ EndUse
    /\ UNCHANGED << platform, args, cancelled, db, table, memory, limits, disturbed >>

\* close: the connection goes, and with the last one the database.
Close(c) ==
    /\ Goto(c, "open", "closed")
    /\ db' = [db EXCEPT ![c] = None]
    /\ EndUse
    /\ UNCHANGED << platform, args, cancelled, table, memory, limits, disturbed >>

Next ==
    \E c \in Calls :
        \/ Create(c) \/ Start(c) \/ Connect(c) \/ ReadVersion(c)
        \/ CreateTable(c) \/ SetVersion(c) \/ BeginSchema(c) \/ CommitSchema(c)
        \/ TableExists(c) \/ Locked(c) \/ Fault(c) \/ Return(c) \/ Cancel(c)
        \/ Write(c) \/ Close(c)

Spec == Init /\ [][Next]_vars

-----------------------------------------------------------------------------
(* Properties                                                              *)

\* The types; whoever has a database has one that was made by some call.
TypeOK ==
    /\ platform \in Platforms /\ args \in [Calls -> Requests]
    /\ pc \in [Calls -> {"idle", "queued", "open", "closed", "failed", "cancelled"}
                          \cup Running]
    /\ cancelled \in [Calls -> BOOLEAN]
    /\ db \in [Calls -> Calls \cup {None}]
    /\ \A c \in Calls : pc[c] \in Connected \cup {"open"} <=> db[c] # None /\ c \notin Leaked
    /\ table \in [Calls -> 1 .. NTables + 1]
    /\ memory \in [Calls -> [tables : SUBSET (1 .. NTables), version : BOOLEAN,
                             data : SUBSET Calls]]
    /\ faults \in 0 .. MaxFaults /\ cancels \in 0 .. MaxCancels
    /\ disturbed \in [Calls -> BOOLEAN] /\ shared \subseteq Calls

\* A driver that create returned has the whole schema, whoever created the named
\* database and whatever failed or overlapped on the way.
SchemaComplete ==
    \A c \in Calls : pc[c] = "open" =>
        memory[db[c]].version /\ memory[db[c]].tables = 1 .. NTables

\* What a driver sees: with a name, what all drivers of that name wrote since the
\* first of them (EphemeralOpt.NAMED: "will stay open until all connections with it
\* are closed"), otherwise what it wrote itself.  Only a connection that the code drops,
\* of a cancelled caller or of a creation that failed on the JVM, keeps the named
\* database beyond that.
SeesItsDatabase ==
    Orphans = {} =>
        \A c \in Calls : pc[c] = "open" =>
            IF Named(c) THEN memory[db[c]].data = shared
                        ELSE memory[db[c]].data \subseteq {c}

\* create fails only after a fault, beside a call of another factory, or on the JVM on
\* a named database that a leaked connection keeps in the state its own failure left
\* it in: calls that follow one another never fail.
FailsForAReason ==
    \A c \in Calls : pc[c] = "failed" =>
        \/ disturbed[c]
        \/ platform = "jvm" /\ \E d \in Leaked \ {c} : Named(d) /\ ~memory[db[d]].version
=============================================================================
