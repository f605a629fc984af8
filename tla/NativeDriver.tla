--------------------------------- MODULE NativeDriver ---------------------------------
(***************************************************************************)
(* The native driver of one database file, from its creation to its close: *)
(* onCreateConnection, which keys every connection of SQLDelight's pools,   *)
(* the first connection, which may rekey the file, and close, which empties *)
(* the map of pragmas without a lock while connections may be opening.     *)
(*                                                                         *)
(* A map of pragmas is a function from the names it holds to whose value   *)
(* it is: a key stands for the whole configuration that goes with it.  The *)
(* names are those toMCSQLStatements treats differently.                   *)
(*                                                                         *)
(* External: NativeSqliteDriver has a pool of one connection for writing   *)
(* and one of MaxReaders for reading.  Connections are opened on demand,    *)
(* one at a time in a pool and one at a time by the DatabaseManager, and    *)
(* kept until close; a closed pool refuses.                                *)
(***************************************************************************)
EXTENDS Integers, Sequences, FiniteSets

CONSTANTS
    Threads,        \* threads that use the driver
    Creator,        \* the thread that creates it
    Key,            \* the key of create
    Rekey,          \* {} or {the key to change to}
    Files,          \* the keys the file may have been written with
    MaxReaders,     \* PlatformConfig.maxReaderConnections as it was set
    MaxRequests     \* bound on the requests for a connection

ASSUME NativeAssumptions ==
    /\ Creator \in Threads
    /\ \A k \in Rekey : Rekey = {k}
    /\ MaxReaders \in Int /\ MaxRequests \in Nat

\* MCPragma.ALL: the name of the cipher comes first, its parameters, the key.
All == << "cipher", "legacy", "kdf_iter", "key" >>
Names == {All[i] : i \in DOMAIN All}
Required == {"cipher", "legacy", "key"}
Nothing == [x \in {} |-> Key]

Pools == {"transaction", "reader"}

\* PlatformConfig.Builder.build takes a number below one for one.
Capacity(p) == IF p = "transaction" \/ MaxReaders < 1 THEN 1 ELSE MaxReaders

VARIABLES
    keyPragma, rekeyPragma,   \* the maps of create
    file,           \* the key the file is written with
    rekeys,         \* how often the file was rekeyed
    driver,         \* "creating", "created", "failed" or "rejected"
    closing,        \* "no", the pool to be closed, "pragmas" or "done"
    open,           \* pools that are not closed
    entries,        \* connections of a pool
    pc, pool,       \* where a thread is, and the pool it asked
    next,           \* the name toMCSQLStatements is at
    statements,     \* what it has collected
    late,           \* the thread asked after close had returned
    requests

maps == << keyPragma, rekeyPragma >>
life == << driver, closing >>
pools == << open, entries >>
vars == << maps, file, rekeys, life, pools, pc, pool, next, statements, late, requests >>

Full(k) == [x \in Names |-> k]
Has(map, x) == x \in DOMAIN map

Init ==
    /\ keyPragma = Full(Key)
    /\ rekeyPragma = IF Rekey = {} THEN Nothing ELSE Full(CHOOSE k \in Rekey : TRUE)
    /\ file \in Files /\ rekeys = 0
    /\ driver = "creating" /\ closing = "no"
    /\ open = Pools /\ entries = [p \in Pools |-> 0]
    /\ pc = [t \in Threads |-> "idle"]
    /\ pool = [t \in Threads |-> "transaction"]
    /\ next = [t \in Threads |-> 1]
    /\ statements = [t \in Threads |-> Nothing]
    /\ late = [t \in Threads |-> FALSE]
    /\ requests = 0

Goto(t, l) == pc' = [pc EXCEPT ![t] = l]

-----------------------------------------------------------------------------
(* A request for a connection                                              *)

\* m.withConnection {} in create, or a statement or transaction of the driver.
Ask(t, p) ==
    /\ pc[t] = "idle" /\ requests < MaxRequests
    /\ \/ driver = "created"
       \/ driver = "creating" /\ t = Creator /\ p = "transaction" /\ requests = 0
    /\ requests' = requests + 1
    /\ pool' = [pool EXCEPT ![t] = p]
    /\ late' = [late EXCEPT ![t] = closing = "done"]
    /\ Goto(t, "asking")
    /\ UNCHANGED << maps, file, rekeys, life, pools, next, statements >>

Users(p) == {t \in Threads : pool[t] = p /\ pc[t] = "using"}
Opening == {"check", "collect", "execute", "rekey", "swap", "select"}

\* An idle connection of the pool.
Take(t) ==
    /\ pc[t] = "asking" /\ pool[t] \in open
    /\ Cardinality(Users(pool[t])) < entries[pool[t]]
    /\ Goto(t, "using")
    /\ UNCHANGED << maps, file, rekeys, life, pools, pool, next, statements, late, requests >>

\* A new one, if there is room for it.
OpenConnection(t) ==
    /\ pc[t] = "asking" /\ pool[t] \in open
    /\ Cardinality(Users(pool[t])) = entries[pool[t]]
    /\ entries[pool[t]] < Capacity(pool[t])
    /\ \A u \in Threads : pc[u] \notin Opening
    /\ next' = [next EXCEPT ![t] = 1]
    /\ Goto(t, "check")
    /\ UNCHANGED << maps, file, rekeys, life, pools, pool, statements, late, requests >>

\* Mutation: the catch of create forgets the pragmas of the rekey.
RefuseKeepRekey(t) ==
    /\ statements' = [statements EXCEPT ![t] = Nothing]
    /\ IF driver = "creating"
       THEN keyPragma' = Nothing /\ driver' = "failed" /\ UNCHANGED rekeyPragma
       ELSE UNCHANGED << maps, driver >>
    /\ Goto(t, "idle")

\* The request ends with an exception; in create the catch clears the maps.
Refuse(t) ==
    /\ statements' = [statements EXCEPT ![t] = Nothing]
    /\ IF driver = "creating"
       THEN keyPragma' = Nothing /\ rekeyPragma' = Nothing /\ driver' = "failed"
       ELSE UNCHANGED << maps, driver >>
    /\ Goto(t, "idle")

ClosedPool(t) ==
    /\ pc[t] = "asking" /\ pool[t] \notin open
    /\ Refuse(t)
    /\ UNCHANGED << file, rekeys, closing, pools, pool, next, late, requests >>

-----------------------------------------------------------------------------
(* onCreateConnection                                                      *)

\* toMCSQLStatements: what it requires ...
Check(t) ==
    /\ pc[t] = "check"
    /\ \/ Required \subseteq DOMAIN keyPragma /\ Goto(t, "collect")
          /\ UNCHANGED << maps, driver, statements >>
       \/ ~(Required \subseteq DOMAIN keyPragma) /\ Refuse(t)
    /\ UNCHANGED << file, rekeys, closing, pools, pool, next, late, requests >>

\* ... and the statement for one name after the other, if the map has it.
Collect(t) ==
    /\ pc[t] = "collect"
    /\ LET x == All[next[t]]
           before == statements[t]
       IN  statements' = [statements EXCEPT ![t] =
              IF Has(keyPragma, x)
              THEN [y \in DOMAIN before \cup {x} |-> IF y = x THEN keyPragma[x] ELSE before[y]]
              ELSE before]
    /\ next' = [next EXCEPT ![t] = @ + 1]
    /\ Goto(t, IF next[t] = Len(All) THEN "execute" ELSE "collect")
    /\ UNCHANGED << maps, file, rekeys, life, pools, pool, late, requests >>

\* The statements execute without reading the file.
Execute(t) ==
    /\ pc[t] = "execute"
    /\ Goto(t, IF rekeyPragma = Nothing THEN "select" ELSE "rekey")
    /\ UNCHANGED << maps, file, rekeys, life, pools, pool, next, statements, late, requests >>

\* What was collected is all there was, and it is what the file is written with.
Reads(t) == statements[t] = Full(file)

\* SELECT, PRAGMA rekey and the statements after it.  One of those may fail when
\* the file is already rewritten.
RekeyFile(t) ==
    /\ pc[t] = "rekey"
    /\ \/ /\ Reads(t)
          /\ \E k \in Rekey :
                /\ file' = k /\ rekeys' = rekeys + 1
                /\ statements' = [statements EXCEPT ![t] = Full(k)]
          /\ Goto(t, "swap")
          /\ UNCHANGED << maps, driver >>
       \/ ~Reads(t) /\ Refuse(t) /\ UNCHANGED << file, rekeys >>
    /\ UNCHANGED << closing, pools, pool, next, late, requests >>

\* Mutation: keyPragma keeps the pragmas of the old key.
SwapForgotten(t) ==
    /\ pc[t] = "swap"
    /\ rekeyPragma' = Nothing
    /\ Goto(t, "select")
    /\ UNCHANGED << keyPragma, file, rekeys, life, pools, pool, next, statements, late,
                    requests >>

\* Mutation: the value stays under the name of the rekey.
SwapKeepName(t) ==
    /\ pc[t] = "swap"
    /\ keyPragma' = [x \in (Names \ {"key"}) \cup {"rekey"} |-> rekeyPragma["key"]]
    /\ rekeyPragma' = Nothing
    /\ Goto(t, "select")
    /\ UNCHANGED << file, rekeys, life, pools, pool, next, statements, late, requests >>

\* The pragmas of the rekey become those of the key, and rekeyPragma is empty for
\* everyone who comes later.  A failure of the statements that follow the rekey ends
\* the creation here.
Swap(t) ==
    /\ pc[t] = "swap"
    /\ \/ /\ keyPragma' = rekeyPragma
          /\ rekeyPragma' = Nothing
          /\ Goto(t, "select")
          /\ UNCHANGED << driver, statements >>
       \/ Refuse(t)
    /\ UNCHANGED << file, rekeys, closing, pools, pool, next, late, requests >>

\* SELECT 1 FROM sqlite_schema reads the file for the first time; the pragmas of the
\* application follow.  The connection then belongs to the pool, unless it is the
\* first one or the pool was closed in the meantime.
Select(t) ==
    /\ pc[t] = "select"
    /\ \/ /\ Reads(t)
          /\ entries' = IF driver = "created" /\ pool[t] \in open
                        THEN [entries EXCEPT ![pool[t]] = @ + 1] ELSE entries
          /\ statements' = [statements EXCEPT ![t] = Nothing]
          /\ Goto(t, "using")
          /\ UNCHANGED << maps, driver >>
       \/ ~Reads(t) /\ Refuse(t) /\ UNCHANGED entries
    /\ UNCHANGED << file, rekeys, closing, open, pool, next, late, requests >>

\* The statement or transaction ends, or the block of withConnection.
Release(t) ==
    /\ pc[t] = "using"
    /\ Goto(t, "idle")
    /\ UNCHANGED << maps, file, rekeys, life, pools, pool, next, statements, late, requests >>

-----------------------------------------------------------------------------
(* PlatformDriver                                                          *)

\* The schema version exceeds Int.MAX_VALUE, or the journal mode is unknown: create
\* throws before its try, and nobody clears the maps.
Reject ==
    /\ driver = "creating" /\ requests = 0
    /\ driver' = "rejected"
    /\ UNCHANGED << maps, file, rekeys, closing, pools, pc, pool, next, statements, late,
                    requests >>

\* The schema is created or upgraded on the first connection, and create returns ...
Created ==
    /\ driver = "creating" /\ requests = 1 /\ pc[Creator] = "idle"
    /\ driver' = "created"
    /\ UNCHANGED << maps, file, rekeys, closing, pools, pc, pool, next, statements, late,
                    requests >>

\* ... or that fails.
SchemaFails ==
    /\ driver = "creating" /\ pc[Creator] = "using"
    /\ Refuse(Creator)
    /\ UNCHANGED << file, rekeys, closing, pools, pool, next, late, requests >>

\* close: driver.close(), pool by pool, and keyPragma.clear().
Close ==
    /\ driver = "created" /\ closing = "no"
    /\ closing' = "transaction"
    /\ UNCHANGED << maps, file, rekeys, driver, pools, pc, pool, next, statements, late,
                    requests >>

\* Connections in use are closed with the pool: their users get an exception.
ClosePool ==
    /\ closing \in Pools
    /\ open' = open \ {closing}
    /\ entries' = [entries EXCEPT ![closing] = 0]
    /\ pc' = [t \in Threads |-> IF t \in Users(closing) THEN "idle" ELSE pc[t]]
    /\ closing' = IF closing = "transaction" THEN "reader" ELSE "pragmas"
    /\ UNCHANGED << maps, file, rekeys, driver, pool, next, statements, late, requests >>

\* The map loses one entry after the other, in no particular order for a reader.
ClearEntry ==
    /\ closing = "pragmas"
    /\ \E x \in DOMAIN keyPragma :
          keyPragma' = [y \in DOMAIN keyPragma \ {x} |-> keyPragma[y]]
    /\ closing' = IF keyPragma' = Nothing THEN "done" ELSE "pragmas"
    /\ UNCHANGED << rekeyPragma, file, rekeys, driver, pools, pc, pool, next, statements,
                    late, requests >>

Next ==
    \/ \E t \in Threads :
         \/ \E p \in Pools : Ask(t, p)
         \/ Take(t) \/ OpenConnection(t) \/ ClosedPool(t) \/ Check(t) \/ Collect(t)
         \/ Execute(t) \/ RekeyFile(t) \/ Swap(t) \/ Select(t) \/ Release(t)
    \/ Reject \/ Created \/ SchemaFails \/ Close \/ ClosePool \/ ClearEntry

Spec == Init /\ [][Next]_vars

-----------------------------------------------------------------------------
(* Properties                                                              *)

Maps == UNION {[S -> {Key} \cup Rekey] : S \in SUBSET Names}

\* The types; no pool holds more connections than it may.
TypeOK ==
    /\ keyPragma \in Maps /\ rekeyPragma \in Maps
    /\ file \in Files \cup Rekey /\ rekeys \in Nat
    /\ driver \in {"creating", "created", "failed", "rejected"}
    /\ closing \in {"no", "pragmas", "done"} \cup Pools
    /\ open \subseteq Pools
    /\ entries \in [Pools -> Nat] /\ \A p \in Pools : entries[p] <= Capacity(p)
    /\ pc \in [Threads -> {"idle", "asking", "using"} \cup Opening]
    /\ pool \in [Threads -> Pools]
    /\ next \in [Threads -> 1 .. Len(All) + 1]
    /\ statements \in [Threads -> Maps] /\ late \in [Threads -> BOOLEAN]
    /\ requests \in 0 .. MaxRequests

\* When close has returned, or create has failed after it tried to connect, neither
\* map holds a key, and only a connection that was already being opened still has
\* the statements with it.
CredentialsErased ==
    closing = "done" \/ driver = "failed" =>
        /\ keyPragma = Nothing /\ rekeyPragma = Nothing
        /\ \A t \in Threads : pc[t] \notin Opening => statements[t] = Nothing

\* The native driver implements DriverPromise: one rekey, with the first connection;
\* while it is open every new connection finds the complete pragmas of the key the
\* file has, so that statements torn by the unsynchronised clear fail only requests
\* that meet close; whoever asks after close is refused.
Promise == INSTANCE DriverPromise
    WITH status <- IF closing = "done" THEN "closed"
                   ELSE IF closing # "no" \/ driver \in {"failed", "rejected"} THEN "closing"
                   ELSE IF driver = "created" THEN "open" ELSE "creating",
         asking <- {t \in Threads : ~late[t] /\ pc[t] \in {"asking"} \cup Opening},
         using <- {t \in Threads : pc[t] = "using"}
KeepsPromise == Promise!Spec
=============================================================================
