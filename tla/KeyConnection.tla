------------------------------- MODULE KeyConnection -------------------------------
(***************************************************************************)
(* One database file and the connections that key, rekey and reopen it.    *)
(*                                                                         *)
(* The driver prepares the statements (MCCipherConfig), the connection     *)
(* executes them one at a time against its parameter table and its codec   *)
(* (MCCodec).  A behaviour opens the file with the configuration and the   *)
(* key it was written with, migrates it to the configuration and the key   *)
(* that are current, and then opens it with the current ones alone, which  *)
(* is what every later connection of the driver does.                      *)
(*                                                                         *)
(* PRAGMA rekey is one step here; module Rekey opens that step up.         *)
(***************************************************************************)
EXTENDS MCCipherConfig, MCCodec

CONSTANTS
    Pairs,            \* pairs << old cipher configuration, current one >>
    Keys,             \* passphrases
    EmptyKey,         \* Key.Empty: no encryption
    Switching,        \* records [hmacCheck, mcLegacyWAL] of an EncryptionConfig
    PageSizes,        \* PRAGMA page_size of a new file without a legacy cipher
    MaxLeases         \* how often another connection may come and hold the file

ASSUME KeyAssumption == EmptyKey \notin Keys
ASSUME LeaseAssumption == MaxLeases \in Nat
ASSUME PairAssumption ==
    \A pair \in Pairs : \A config \in {pair[1], pair[2]} :
        /\ config.cipher \in Ciphers
        /\ DOMAIN config.params \subseteq DOMAIN ParamTable[config.cipher] \cup {"legacy"}
        /\ \A p \in DOMAIN config.params : config.params[p] \in Int
ASSUME SwitchingAssumption ==
    Switching \subseteq [hmacCheck : BOOLEAN, mcLegacyWAL : BOOLEAN]

VARIABLES
    plan,     \* what this behaviour does: [old, new, oldKey, newKey]
    file,     \* the database file
    conn,     \* the open connection: parameter table, codec, B-tree page size
    todo,     \* statements the connection still has to execute
    stage,    \* "migrate", "migrated", "reopen", "reopened" or "failed"
    leases    \* [held, left]: another connection of the process on the file

vars == << plan, file, conn, todo, stage, leases >>

-----------------------------------------------------------------------------
(* Codecs and files                                                        *)

NoScheme == [cipher |-> "none", legacy |-> FALSE, params |-> << >>]
NoCodec == [alloc |-> [cipher |-> "none"], key |-> EmptyKey,
            hmacCheck |-> 1, walLegacy |-> 0]

SchemeOf(codec) == IF codec = NoCodec THEN NoScheme ELSE Scheme(codec.alloc)

DefaultPageSize == 4096

\* A page is decrypted with the right key and scheme and at the right length.
\* In a legacy mode the page size comes from the configuration; a cipher
\* without a tag at the end of the page can still read the header of page 1.
CanRead(codec, f) ==
    /\ SchemeOf(codec) = f.scheme
    /\ codec.key = f.key
    /\ f.scheme.legacy =>
         IF PageSizeOf(codec.alloc) # 0 THEN PageSizeOf(codec.alloc) = f.pageSize
         ELSE Authenticated(codec.alloc) => f.pageSize = DefaultPageSize

\* sqlite3mcCodecAttach: the codec that PRAGMA key allocates from the table.
AttachedCodec(table, key) ==
    IF key = EmptyKey THEN NoCodec
    ELSE [alloc |-> Allocate(table), key |-> key,
          hmacCheck |-> table.params.global.hmac_check.value,
          walLegacy |-> table.params.global.mc_legacy_wal.value]

AttachedTable(table, key) == IF key = EmptyKey THEN table ELSE Consume(table)

\* The codec of a new connection that executes only the key statements.
FreshCodec(enc, key) ==
    AttachedCodec(ConfigureAll(CloneTable, "main", ApplyPragmas(enc)), key)

NewConnection == [table |-> CloneTable, codec |-> NoCodec, pageSize |-> DefaultPageSize]

WrittenBy(codec, pageSize) ==
    [scheme   |-> SchemeOf(codec),
     key      |-> codec.key,
     pageSize |-> IF codec # NoCodec /\ PageSizeOf(codec.alloc) # 0
                  THEN PageSizeOf(codec.alloc) ELSE pageSize,
     wal      |-> FALSE]

-----------------------------------------------------------------------------
Encryption(config, switches) ==
    [cipherConfig |-> config, hmacCheck |-> switches.hmacCheck,
     mcLegacyWAL |-> switches.mcLegacyWAL]

Init ==
    /\ \E pair \in Pairs, s1, s2 \in Switching, k1, k2 \in Keys \cup {EmptyKey},
          ps \in PageSizes, w \in BOOLEAN :
         LET old == Encryption(pair[1], s1)
             new == Encryption(pair[2], s2)
         IN  /\ plan = [old |-> old, new |-> new, oldKey |-> k1, newKey |-> k2]
             /\ file = [WrittenBy(FreshCodec(old, k1), ps) EXCEPT !.wal = w]
             /\ todo = KeyStatements(ApplyPragmas(old), k1)
                       \o RekeyStatements(ApplyPragmas(new), k2)
    /\ conn = NewConnection
    /\ stage = "migrate"
    /\ leases = [held |-> FALSE, left |-> MaxLeases]

Executing(op) ==
    /\ stage \in {"migrate", "reopen"}
    /\ todo # << >>
    /\ Head(todo).op = op

Done == todo' = Tail(todo) /\ UNCHANGED << plan, stage, leases >>

\* super.execute throws: the remaining statements are not executed, the
\* connection is closed and the caller gets an exception.
Fail ==
    /\ todo' = << >>
    /\ stage' = "failed"
    /\ UNCHANGED << plan, file, conn, leases >>

ExecCipher ==
    /\ Executing("cipher")
    /\ conn' = [conn EXCEPT !.table = Configure(@, Head(todo))]
    /\ UNCHANGED file
    /\ Done

ExecParam ==
    /\ Executing("param")
    /\ conn' = [conn EXCEPT !.table = Configure(@, Head(todo))]
    /\ UNCHANGED file
    /\ Done

\* PRAGMA key reads nothing but the salt: a wrong key shows at the first read.
ExecKey ==
    /\ Executing("key")
    /\ LET codec == AttachedCodec(conn.table, Head(todo).key)
       IN  conn' = [table    |-> AttachedTable(conn.table, Head(todo).key),
                    codec    |-> codec,
                    pageSize |-> IF codec # NoCodec /\ PageSizeOf(codec.alloc) # 0
                                 THEN PageSizeOf(codec.alloc) ELSE conn.pageSize]
    /\ UNCHANGED file
    /\ Done

\* SELECT 1 FROM sqlite_schema reads page 1 and learns the page size of it.
ExecSelect ==
    /\ Executing("select")
    /\ \/ /\ CanRead(conn.codec, file)
          /\ conn' = [conn EXCEPT !.pageSize = file.pageSize]
          /\ UNCHANGED file
          /\ Done
       \/ ~CanRead(conn.codec, file) /\ Fail

\* Leaving WAL mode needs the file for this connection alone.
ExecJournalDelete ==
    /\ Executing("journal_delete")
    /\ \/ /\ ~(file.wal /\ leases.held)
          /\ file' = [file EXCEPT !.wal = FALSE]
          /\ UNCHANGED conn
          /\ Done
       \/ file.wal /\ leases.held /\ Fail

\* The cipher pages are rewritten with, and whether its page size is right.
WriteCodec(newKey) == AttachedCodec(conn.table, newKey)

RekeyAllowed(newKey) ==
    /\ ~file.wal
    /\ CanRead(conn.codec, file)
    /\ ~leases.held
    /\ newKey # EmptyKey =>
          PageSizeOf(WriteCodec(newKey).alloc) \in {0, conn.pageSize}

\* sqlite3_rekey_v2.  Without a new key the file is decrypted and the table is
\* not read; with one the write cipher is allocated from it.  Without a codec
\* and a key there is nothing to do, and nothing is read or locked.
ExecRekey ==
    /\ Executing("rekey")
    /\ LET newKey == Head(todo).key
           codec  == WriteCodec(newKey)
           noop   == ~file.wal /\ newKey = EmptyKey /\ conn.codec = NoCodec
       IN  \/ noop /\ UNCHANGED << file, conn >> /\ Done
           \/ /\ ~noop /\ RekeyAllowed(newKey)
              /\ file' = [file EXCEPT !.scheme = SchemeOf(codec), !.key = newKey]
              /\ conn' = [conn EXCEPT !.codec = codec,
                                      !.table = AttachedTable(@, newKey)]
              /\ Done
           \/ ~noop /\ ~RekeyAllowed(newKey) /\ Fail

\* The statements are executed: the driver keeps the configuration it moved to.
FinishMigration ==
    /\ stage = "migrate" /\ todo = << >>
    /\ stage' = "migrated"
    /\ UNCHANGED << plan, file, conn, todo, leases >>

\* The application uses the connection; its pragmas may ask for WAL again.
UseWal ==
    /\ stage \in {"migrated", "reopened"}
    /\ ~file.wal /\ ~leases.held
    /\ file' = [file EXCEPT !.wal = TRUE]
    /\ UNCHANGED << plan, conn, todo, stage, leases >>

\* Every later connection: the key statements of the current configuration,
\* and the read that SQLDelight makes of the schema version.
Reopen ==
    /\ stage \in {"migrated", "reopened"}
    /\ conn' = NewConnection
    /\ todo' = Append(KeyStatements(ApplyPragmas(plan.new), plan.newKey),
                      Select)
    /\ stage' = "reopen"
    /\ UNCHANGED << plan, file, leases >>

FinishReopen ==
    /\ stage = "reopen" /\ todo = << >>
    /\ stage' = "reopened"
    /\ UNCHANGED << plan, file, conn, todo, leases >>

\* Another connection begins or ends its use of the file.
Lease ==
    /\ \/ ~leases.held /\ leases.left > 0
          /\ leases' = [held |-> TRUE, left |-> leases.left - 1]
       \/ leases.held /\ leases' = [leases EXCEPT !.held = FALSE]
    /\ UNCHANGED << plan, file, conn, todo, stage >>

Exec ==
    \/ ExecCipher \/ ExecParam \/ ExecKey \/ ExecSelect
    \/ ExecJournalDelete \/ ExecRekey
    \/ FinishMigration \/ Reopen \/ FinishReopen

Next == Exec \/ UseWal \/ Lease

Spec == Init /\ [][Next]_vars

-----------------------------------------------------------------------------
(* Properties                                                              *)

TypeOK ==
    /\ plan.oldKey \in Keys \cup {EmptyKey} /\ plan.newKey \in Keys \cup {EmptyKey}
    /\ file.key \in Keys \cup {EmptyKey}
    /\ file.scheme.cipher \in Ciphers \cup {"none"}
    /\ file.wal \in BOOLEAN
    /\ conn.table.cipher.value \in Ciphers /\ conn.table.cipher.default \in Ciphers
    /\ stage \in {"migrate", "migrated", "reopen", "reopened", "failed"}

\* A connection that executes only the key statements of the old, or of the
\* current, configuration and key can read the file.
OldOpens == CanRead(FreshCodec(plan.old, plan.oldKey), file)
NewOpens == CanRead(FreshCodec(plan.new, plan.newKey), file)

\* Once the statements of a migration were all executed, every later
\* connection, which knows only the current configuration and key, can read
\* the file (EncryptionMigrationConfig: "the new configuration ... will be
\* applied"; JDBCMCProperties and PlatformDriver keep only the new pragmas).
MigrationTakesEffect == stage \in {"migrated", "reopen", "reopened"} => NewOpens

\* Between any two statements the process may die: the file is then readable
\* either with the pragmas of the failed attempt or with the current ones,
\* so the attempts createActual makes at the next start find it.
AlwaysOpenable == OldOpens \/ NewOpens

\* A later connection never fails on its key statements or its first read.
ReopenNeverFails == [][stage = "reopen" => stage' # "failed"]_vars

\* After a migration the connection's own parameter table describes the file:
\* the next cipher allocated from it (another PRAGMA key, an attached
\* database) is the one the file is written with.  This is what the
\* non-transient statements after PRAGMA rekey are for.
TableDescribesFile ==
    stage = "migrated" /\ plan.newKey # EmptyKey =>
        Scheme(Allocate(conn.table)) = file.scheme

\* What the properties above need of a pair of configurations, whatever the
\* switches are.  The statements of the current one, executed after those of
\* the old one, make the cipher that they make on a connection of their own.
Supersedes(new, old) ==
    \A s1, s2 \in Switching :
        LET first  == ApplyPragmas(Encryption(old, s1))
            second == ApplyPragmas(Encryption(new, s2))
            after  == ConfigureAll(ConfigureAll(CloneTable, "main", first), "temp", second)
        IN  Allocate(after) = Allocate(ConfigureAll(CloneTable, "main", second))

\* A cipher in a legacy mode, whose tags are checked, says how long a page is.
PageSizeKnown(config) ==
    \A s \in Switching :
        LET alloc == Allocate(ConfigureAll(CloneTable, "main",
                                           ApplyPragmas(Encryption(config, s))))
        IN  Legacy(alloc) # 0 /\ Authenticated(alloc) => PageSizeOf(alloc) # 0

SoundPair(pair) ==
    /\ Supersedes(pair[2], pair[1])
    /\ PageSizeKnown(pair[1]) /\ PageSizeKnown(pair[2])

\* PRAGMA rekey is never reached in WAL mode, where sqlite3_rekey_v2 refuses.
NoRekeyInWal == Executing("rekey") => ~file.wal

\* hmac_check = 0, which one configuration may use to read a damaged file, and
\* mc_legacy_wal are transient: a connection that migrated away from them, and
\* every later one, has exactly the switches of the current configuration.
SwitchesInEffect ==
    stage \in {"migrated", "reopened"} /\ conn.codec # NoCodec =>
        /\ (conn.codec.hmacCheck = 1) = plan.new.hmacCheck
        /\ (conn.codec.walLegacy = 1) = plan.new.mcLegacyWAL
=============================================================================
