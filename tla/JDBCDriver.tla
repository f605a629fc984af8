---------------------------------- MODULE JDBCDriver ----------------------------------
(***************************************************************************)
(* The JVM driver of one database file, from its creation to its close:    *)
(* JDBCMCProperties, which hands every new connection the statements that  *)
(* key it, JDBCMC4Connection, which executes them, and PlatformDriver.     *)
(*                                                                         *)
(* SQLDelight's JdbcSqliteDriver gives each thread a connection of its own *)
(* and closes it when the statement or the transaction ends; its close is  *)
(* a no-op for a file.  The first connection is made by the thread that    *)
(* creates the driver and may rekey the file; later ones take the short    *)
(* path of withKeyProps, which copies the properties without the lock,     *)
(* while another thread may be clearing them.                              *)
(*                                                                         *)
(* An absent value is {}, a present one {x}.  A map of pragmas is the key  *)
(* in it, the "password" property the pair of keys in its statements.      *)
(***************************************************************************)
EXTENDS Naturals, FiniteSets

CONSTANTS
    Threads,        \* threads that use the driver
    Creator,        \* the thread that creates it
    Key,            \* the key of create
    Rekey,          \* {} or {the key to change to}
    Files,          \* the keys the file may have been written with
    Empty,          \* Key.Empty
    Nobody,         \* holds a free lock
    MaxRequests     \* bound on the requests for a connection

ASSUME ThreadAssumption == Creator \in Threads /\ Nobody \notin Threads
ASSUME RekeyAssumption == \A k \in Rekey : Rekey = {k}
ASSUME RequestAssumption == MaxRequests \in Nat

VARIABLES
    keyPragma, rekeyPragma,   \* the pragma maps of JDBCMCProperties
    properties,     \* its entries: [password, pragmas], pragmas TRUE when present
    isInitialized, lock,
    file,           \* the key the file is written with
    rekeys,         \* how often the file was rekeyed
    driver,         \* "creating", "created" or "failed"
    closing,        \* "no", "pragmas", "entries" or "done": PlatformDriver.close
    pc,             \* where a thread is
    prop,           \* the copy of the properties a new connection gets
    conn,           \* {} or {the properties in a connection's SQLiteConfig}
    late,           \* the thread asked after close had returned
    refused,        \* a request of the thread ended with an exception
    requests

shared == << keyPragma, rekeyPragma, properties, isInitialized, lock >>
vars == << shared, file, rekeys, driver, closing, pc, prop, conn, late, refused,
           requests >>

NoProperties == [password |-> {}, pragmas |-> FALSE]

\* create: of(keyPragma, rekeyPragma), putAll(pragmas) and remove("password").
Init ==
    /\ keyPragma = {Key} /\ rekeyPragma = Rekey
    /\ properties = [password |-> {}, pragmas |-> TRUE]
    /\ isInitialized = FALSE /\ lock = Nobody
    /\ file \in Files /\ rekeys = 0
    /\ driver = "creating" /\ closing = "no"
    /\ pc = [t \in Threads |-> "idle"]
    /\ prop = [t \in Threads |-> NoProperties]
    /\ conn = [t \in Threads |-> {}]
    /\ late = [t \in Threads |-> FALSE]
    /\ refused = [t \in Threads |-> FALSE]
    /\ requests = 0

Goto(t, l) == pc' = [pc EXCEPT ![t] = l]

-----------------------------------------------------------------------------
(* withKeyProps                                                            *)

\* getConnection: DriverManager asks JDBCMC for a connection with the properties.
Request(t) ==
    /\ pc[t] = "idle" /\ conn[t] = {} /\ requests < MaxRequests
    /\ driver = "created" \/ (driver = "creating" /\ closing = "no" /\ t = Creator)
    /\ requests' = requests + 1
    /\ late' = [late EXCEPT ![t] = closing = "done"]
    /\ prop' = [prop EXCEPT ![t] = NoProperties]
    /\ Goto(t, IF isInitialized THEN "copy" ELSE "lock")
    /\ UNCHANGED << shared, file, rekeys, driver, closing, conn, refused >>

\* synchronized(lock).  Nobody but the creator comes here, so the second look
\* at isInitialized finds what the first one found.
EnterLock(t) ==
    /\ pc[t] = "lock" /\ lock = Nobody
    /\ lock' = t
    /\ Goto(t, "first")
    /\ UNCHANGED << keyPragma, rekeyPragma, properties, isInitialized, file, rekeys,
                    driver, closing, prop, conn, late, refused, requests >>

\* keyProp.putAll(this) and packMCSqlStatements, under the lock.
PrepareFirst(t) ==
    /\ pc[t] = "first"
    /\ prop' = [prop EXCEPT ![t] =
          [properties EXCEPT !.password =
              {[key |-> k, rekey |-> rekeyPragma] : k \in keyPragma}]]
    /\ Goto(t, "connect")
    /\ UNCHANGED << shared, file, rekeys, driver, closing, conn, late, refused, requests >>

\* SQLiteConnection copies the properties entry by entry, in the map's order.
CopyPassword(t) ==
    /\ pc[t] \in {"copy", "copy_password"}
    /\ prop' = [prop EXCEPT ![t].password = properties.password]
    /\ Goto(t, IF pc[t] = "copy" THEN "copy_pragmas" ELSE "connect")
    /\ UNCHANGED << shared, file, rekeys, driver, closing, conn, late, refused, requests >>

CopyPragmas(t) ==
    /\ pc[t] \in {"copy", "copy_pragmas"}
    /\ prop' = [prop EXCEPT ![t].pragmas = properties.pragmas]
    /\ Goto(t, IF pc[t] = "copy" THEN "copy_password" ELSE "connect")
    /\ UNCHANGED << shared, file, rekeys, driver, closing, conn, late, refused, requests >>

\* Mutation: the lock is not released when an exception leaves it.
RefuseKeepLock(t) ==
    /\ refused' = [refused EXCEPT ![t] = TRUE]
    /\ prop' = [prop EXCEPT ![t] = NoProperties]
    /\ closing' = IF driver = "creating" THEN "pragmas" ELSE closing
    /\ Goto(t, "idle")
    /\ UNCHANGED << shared, file, rekeys, driver, conn, late, requests >>

\* The request ends with an exception.  In create the properties are cleared.
Refuse(t) ==
    /\ refused' = [refused EXCEPT ![t] = TRUE]
    /\ prop' = [prop EXCEPT ![t] = NoProperties]
    /\ lock' = IF lock = t THEN Nobody ELSE lock
    /\ closing' = IF driver = "creating" THEN "pragmas" ELSE closing
    /\ Goto(t, "idle")
    /\ UNCHANGED << keyPragma, rekeyPragma, properties, isInitialized, file, rekeys,
                    driver, conn, late, requests >>

\* On runtimes whose Properties is a Hashtable the iteration notices the clear.
CopyInterrupted(t) ==
    /\ pc[t] \in {"copy_password", "copy_pragmas"}
    /\ closing \in {"entries", "done"}
    /\ Refuse(t)

\* Without statements a connection has no key, which opens only a plain file.
KeyFits(t) ==
    IF prop[t].password = {} THEN file = Empty
    ELSE \A s \in prop[t].password : s.key = file

\* JDBCMC4Statement.execute and the first read of the file.
Connect(t) ==
    /\ pc[t] = "connect"
    /\ \/ /\ KeyFits(t)
          /\ LET newKeys == UNION {s.rekey : s \in prop[t].password}
             IN  /\ \/ newKeys = {} /\ UNCHANGED << file, rekeys >>
                    \/ file' \in newKeys /\ rekeys' = rekeys + 1
          /\ conn' = [conn EXCEPT ![t] = {prop[t]}]
          /\ prop' = [prop EXCEPT ![t] = NoProperties]
          /\ Goto(t, "strip")
          /\ UNCHANGED << shared, driver, closing, late, refused, requests >>
       \/ ~KeyFits(t) /\ Refuse(t)

\* Mutation: the statements stay in the connection's configuration.
StripNothing(t) ==
    /\ pc[t] = "strip"
    /\ Goto(t, IF lock = t THEN "swap" ELSE "using")
    /\ UNCHANGED << shared, conn, file, rekeys, driver, closing, prop, late, refused, requests >>

\* conn.database.config.toProperties().remove("password")
Strip(t) ==
    /\ pc[t] = "strip"
    /\ conn' = [conn EXCEPT ![t] = {[c EXCEPT !.password = {}] : c \in @}]
    /\ Goto(t, IF lock = t THEN "swap" ELSE "using")
    /\ UNCHANGED << shared, file, rekeys, driver, closing, prop, late, refused, requests >>

\* Mutation: the pragmas of the rekey are not moved over.
SwapForgotten(t) ==
    /\ pc[t] = "swap"
    /\ rekeyPragma' = {}
    /\ Goto(t, "pack")
    /\ UNCHANGED << keyPragma, properties, isInitialized, lock, file, rekeys, driver, closing,
                    prop, conn, late, refused, requests >>

\* Mutation: keyPragma is not cleared before it takes the new pragmas.
SwapWithoutClear(t) ==
    /\ pc[t] = "swap"
    /\ keyPragma' = keyPragma \cup rekeyPragma
    /\ rekeyPragma' = {}
    /\ Goto(t, "pack")
    /\ UNCHANGED << properties, isInitialized, lock, file, rekeys, driver, closing,
                    prop, conn, late, refused, requests >>

\* Mutation: rekeyPragma is not set to null.
SwapKeepRekey(t) ==
    /\ pc[t] = "swap"
    /\ keyPragma' = IF rekeyPragma = {} THEN keyPragma ELSE rekeyPragma
    /\ Goto(t, "pack")
    /\ UNCHANGED << rekeyPragma, properties, isInitialized, lock, file, rekeys, driver, closing,
                    prop, conn, late, refused, requests >>

\* The rekey was performed: its pragmas become those of the key.
Swap(t) ==
    /\ pc[t] = "swap"
    /\ keyPragma' = IF rekeyPragma = {} THEN keyPragma ELSE rekeyPragma
    /\ rekeyPragma' = {}
    /\ Goto(t, "pack")
    /\ UNCHANGED << properties, isInitialized, lock, file, rekeys, driver, closing,
                    prop, conn, late, refused, requests >>

\* this.packMCSqlStatements, for every later connection.
Pack(t) ==
    /\ pc[t] = "pack"
    /\ properties' = [properties EXCEPT !.password =
          {[key |-> k, rekey |-> rekeyPragma] : k \in keyPragma}]
    /\ Goto(t, "initialized")
    /\ UNCHANGED << keyPragma, rekeyPragma, isInitialized, lock, file, rekeys, driver, closing,
                    prop, conn, late, refused, requests >>

SetInitialized(t) ==
    /\ pc[t] = "initialized"
    /\ isInitialized' = TRUE
    /\ lock' = Nobody
    /\ Goto(t, "using")
    /\ UNCHANGED << keyPragma, rekeyPragma, properties, file, rekeys, driver, closing,
                    prop, conn, late, refused, requests >>

-----------------------------------------------------------------------------
(* PlatformDriver                                                          *)

\* The statement or the transaction ends and its connection is closed.
Release(t) ==
    /\ pc[t] = "using"
    /\ conn' = [conn EXCEPT ![t] = {}]
    /\ Goto(t, "idle")
    /\ UNCHANGED << shared, file, rekeys, driver, closing, prop, late, refused, requests >>

\* The schema is created or migrated and create returns the driver ...
Created ==
    /\ driver = "creating" /\ isInitialized /\ closing = "no"
    /\ pc[Creator] = "idle"
    /\ driver' = "created"
    /\ UNCHANGED << shared, file, rekeys, closing, pc, prop, conn, late, refused, requests >>

\* ... or that fails, and create clears the properties and throws.
SchemaFails ==
    /\ driver = "creating" /\ isInitialized /\ closing = "no"
    /\ pc[Creator] = "idle"
    /\ closing' = "pragmas"
    /\ UNCHANGED << shared, file, rekeys, driver, pc, prop, conn, late, refused, requests >>

\* PlatformDriver.close: driver.close() does nothing, properties.clear() follows.
Close ==
    /\ driver = "created" /\ closing = "no"
    /\ closing' = "pragmas"
    /\ UNCHANGED << shared, file, rekeys, driver, pc, prop, conn, late, refused, requests >>

\* clear, the part under the lock.
ClearPragmas ==
    /\ closing = "pragmas" /\ lock = Nobody
    /\ keyPragma' = {} /\ rekeyPragma' = {}
    /\ closing' = "entries"
    /\ UNCHANGED << properties, isInitialized, lock, file, rekeys, driver, pc, prop, conn,
                    late, refused, requests >>

\* super.clear(), entry by entry; the last one ends close, or create.
ClearEntry ==
    /\ closing = "entries"
    /\ properties' \in {[properties EXCEPT !.password = {}],
                        [properties EXCEPT !.pragmas = FALSE]} \ {properties}
    /\ closing' = IF properties' = NoProperties THEN "done" ELSE "entries"
    /\ driver' = IF driver = "creating" /\ properties' = NoProperties
                 THEN "failed" ELSE driver
    /\ UNCHANGED << keyPragma, rekeyPragma, isInitialized, lock, file, rekeys, pc, prop, conn,
                    late, refused, requests >>

Next ==
    \/ \E t \in Threads :
         \/ Request(t) \/ EnterLock(t) \/ PrepareFirst(t)
         \/ CopyPassword(t) \/ CopyPragmas(t) \/ CopyInterrupted(t)
         \/ Connect(t) \/ Strip(t) \/ Swap(t) \/ Pack(t) \/ SetInitialized(t)
         \/ Release(t)
    \/ Created \/ SchemaFails \/ Close \/ ClearPragmas \/ ClearEntry

\* A thread that runs, and the one in close or create, goes on; whether anyone asks
\* for a connection or closes the driver is up to the application.
Step(t) ==
    \/ EnterLock(t) \/ PrepareFirst(t) \/ CopyPassword(t) \/ CopyPragmas(t)
    \/ Connect(t) \/ Strip(t) \/ Swap(t) \/ Pack(t) \/ SetInitialized(t)

Fairness ==
    /\ \A t \in Threads : WF_vars(Step(t))
    /\ WF_vars(ClearPragmas \/ ClearEntry)

Spec == Init /\ [][Next]_vars /\ Fairness

-----------------------------------------------------------------------------
(* Properties                                                              *)

Passwords == [key : {Key} \cup Rekey, rekey : {{}, Rekey}]
PropertySets == [password : {{}} \cup {{p} : p \in Passwords}, pragmas : BOOLEAN]

\* The types; a map of pragmas is empty or holds one of the two keys.
TypeOK ==
    /\ keyPragma \in {{}, {Key}, Rekey} /\ rekeyPragma \in {{}, Rekey}
    /\ properties \in PropertySets
    /\ isInitialized \in BOOLEAN /\ lock \in Threads \cup {Nobody}
    /\ file \in Files \cup Rekey /\ rekeys \in 0 .. requests
    /\ driver \in {"creating", "created", "failed"}
    /\ closing \in {"no", "pragmas", "entries", "done"}
    /\ pc \in [Threads -> {"idle", "lock", "first", "copy", "copy_password",
                           "copy_pragmas", "connect", "strip", "swap", "pack",
                           "initialized", "using"}]
    /\ prop \in [Threads -> PropertySets]
    /\ conn \in [Threads -> {{}} \cup {{p} : p \in PropertySets}]
    /\ late \in [Threads -> BOOLEAN] /\ refused \in [Threads -> BOOLEAN]
    /\ requests \in 0 .. MaxRequests

\* Until somebody closes the driver every thread gets its connections, with
\* the key the first one left behind and with all configured pragmas.
ServedWhileOpen ==
    closing = "no" =>
        \A t \in Threads : ~refused[t] /\ \A c \in conn[t] : c.pragmas

\* After close nothing that the driver keeps holds the key: neither the maps,
\* nor the properties, nor the configuration of a connection still in use.
CredentialsErased ==
    closing = "done" =>
        /\ keyPragma = {} /\ rekeyPragma = {} /\ properties.password = {}
        /\ \A t \in Threads : pc[t] \in {"idle", "using"} =>
              prop[t].password = {} /\ \A c \in conn[t] : c.password = {}

\* The driver implements DriverPromise: the file is rekeyed once, with the first
\* connection; no request fails while the driver is open, and none that is made
\* after close has returned succeeds (GeneralTest: "any further connection attempts
\* should fail").
Promise == INSTANCE DriverPromise
    WITH status <- IF closing = "done" THEN "closed"
                   ELSE IF closing # "no" THEN "closing"
                   ELSE IF driver = "created" THEN "open" ELSE "creating",
         asking <- {t \in Threads : ~late[t] /\
                       pc[t] \in {"lock", "first", "copy", "copy_password",
                                  "copy_pragmas", "connect"}},
         using <- {t \in Threads : conn[t] # {}}
KeepsPromise == Promise!Spec

\* close, and a creation that fails, come to their end: a connection attempt that
\* throws leaves the lock that clear needs (synchronized in withKeyProps).
CloseEnds == closing = "pragmas" ~> closing = "done"
=============================================================================
