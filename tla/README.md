# sqlite-mc: verification project

sqlite-mc is a Kotlin Multiplatform SQLDelight driver over
SQLite3MultipleCiphers. This directory holds TLA+ models of the driver's logic and of
the parts of the vendored `sqlite3mc.c` it relies on, TLC runs on small instances, and
TLAPS proofs.

## 1. Inventory

| Component | State | Operations | Interacts with |
|---|---|---|---|
| `SQLiteMCDriver.Factory` | `hasOpened`, the dispatcher of its config | `create(key)`, `create(key, rekey)`, `create(opt)`, blocking variants; `createActual`, `attemptUpgrade` | platform `create`, encryption configuration |
| Configuration builders (`FactoryConfig`, `FilesystemConfig`, `EncryptionConfig`, `EncryptionMigrationConfig`, `MC*Config`, `PragmaConfig`) | immutable once built | `Builder` setters, `build`, `new` from an earlier one | Factory |
| `MCCipherConfig.applyPragmas`, `MCPragma` | insertion-ordered pragma maps | which pragmas a configuration needs, and the SQL statements for a key or a rekey | every connection |
| `Key` | the key material | `raw`, `passphrase`, `retrieveFormatted` | `MCPragma` |
| JVM/Android driver (`PlatformDriver`, `JDBCMC`, `JDBCMCProperties`, `JDBCMC4Connection`) | `keyPragma`, `rekeyPragma`, `isInitialized`, the `password` property | `create`, `withKeyProps`, `connect`, `clear`, `close` | SQLDelight's `JdbcSqliteDriver`, threads of the application |
| Native driver (`PlatformDriver`) | `keyPragma`, `rekeyPragma`, the connection pool of SQLiter | `create`, `onCreateConnection`, `close` | SQLDelight's `NativeSqliteDriver` |
| Ephemeral databases (`EphemeralOpt`) | in-memory, named or temporary databases | `create(opt)` | both platforms |
| sqlite3mc: codec configuration | per-connection parameter tables, default and transient values | `PRAGMA cipher`, parameters, `key`, `rekey` | the driver's statements |
| sqlite3mc: rekey transaction | pages, rollback journal, read and write cipher | `sqlite3_rekey_v2`, codec in the VFS, journal playback | the pager |
| Android initializer, `DatabasesDir`, `JvmPlatform`, Gradle plugin, build logic, `external/` scripts | - | start-up, paths, builds | not modelled |

What is hard in this code:

* a call of `create` walks through several configurations, each of which may rewrite the
  file, while other calls, other factories and other processes do the same;
* the order, the scope (`main.` or `temp.`) and the omission of pragmas decides how the
  file is written, and a mistake shows only when a *later* connection opens it;
* `PRAGMA rekey` is a transaction over all pages with two keys at once; a crash or an
  error in the middle is recovered by a connection that knows only one of them;
* on the JVM, the first connection of a driver rekeys and swaps the pragmas while other
  threads ask for connections and one may close the driver;
* on native, connections of the reader pool run `onCreateConnection` on an unsynchronised
  map of pragmas whenever they are opened, also while `close` empties it;
* a named in-memory database belongs to whoever has a connection to it, and the schema is
  created on it by whichever call comes first, step by step on the JVM;
* cancellation discards the driver but not what the call did to the file, and not its
  connection.

What makes each part correct: a configuration means the same to the builder, to the
statements and to sqlite3mc (`ConfigBuilder`, `KeyConnection`); a migration leaves a file
that the current configuration opens (`KeyConnection`) and that one of the two keys opens
at every moment (`Rekey`); a call of `create` tries what it should, changes only what was
asked for and reports the truth (`Factory`); a driver serves every thread with the key the
file has until it is closed, and keeps no key afterwards (`JDBCDriver`, `NativeDriver`); a
driver in memory has the whole schema and the rows of its own database (`Ephemeral`).

## 2. Modules

| Module | Models | Kind |
|---|---|---|
| `MCCipherConfig` | cipher configurations, `applyPragmas`, `toMCSQLStatements` | operators |
| `MCCodec` | parameter tables of a connection, `sqlite3mc_config_cipher`, what a codec is set up with | operators |
| `KeyConnection` | one connection that migrates a file and the later ones that open it, statement by statement | state machine over the two modules above |
| `Factory` | several factories and calls of `create(key)` on one file | state machine |
| `CipherConfigProofs` | lemmas about the statements of a configuration and the parameter table | proofs, used by the next two |
| `KeyConnectionProofs`, `ConfigBuilderProofs`, `FactoryProofs`, `RekeyProofs`, `JDBCDriverProofs`, `NativeDriverProofs`, `EphemeralProofs` | theorems about the state machine each is named after | proofs |
| `Rekey` | `sqlite3_rekey_v2` page by page, with journal, spills, errors, crashes, recovery | state machine |
| `ConfigBuilder` | the configuration DSL from the first block to `build` and `new` | state machine over `MCCipherConfig`, `MCCodec` |
| `JDBCDriver` | the JVM driver of one file from creation to close, with several threads | state machine |
| `NativeDriver` | the native driver of one file from creation to close, with its pools | state machine |
| `Ephemeral` | calls of `create(opt)` on both platforms and the databases in memory | state machine |
| `KeySwitch` | what a rekey promises | abstract specification, implemented by `Rekey` |
| `DriverPromise` | what the driver of a file promises | abstract specification, implemented by `JDBCDriver` and `NativeDriver` |
| `*_MC` | model values for TLC | |

### MCCipherConfig, MCCodec, KeyConnection

`MCCipherConfig` holds the predefined configurations as records `[cipher, params]`,
`ApplyPragmas` (which parameters a configuration names: those that differ from the
predefined configuration of its `legacy` version) and the statement lists that
`MCPragma.toMCSQLStatements` makes of them: `KeyStatements` (parameters qualified `main.`,
then `PRAGMA key`) and `RekeyStatements` (`journal_mode = DELETE`, parameters qualified
`temp.`, `PRAGMA rekey`, then the same parameters again qualified `main.`).

`MCCodec` holds the table of every cipher's parameters that a connection has. A parameter
has a *default* and a *value*: a statement qualified `main.` sets both, one qualified
`temp.` only the value, which the next cipher allocated from the table consumes
(`Consume`). `legacy = n` with n > 0 overwrites the cipher's other parameters, `legacy = 0`
resets nothing (`Configure`); a value outside its range is ignored without an error
(`AcceptsValue`). `Allocate` is what a codec is set up with and `Scheme` the part of it
that decides whether two codecs understand each other's pages.

`KeyConnection` executes one statement per step against the table, the codec and the
file. It opens the file with the configuration it was written with, migrates it, and then
reopens it with the current configuration alone. Between the statements another
connection may hold the file (`Lease`) and the application may turn WAL on (`UseWal`).
There is no crash action because no property needs one: `AlwaysOpenable` is an invariant,
hence true wherever the process stops between two statements.

The pairs of configurations checked by `key_migration` are all changes of cipher, all
changes of the key alone and the eight changes inside one cipher named `TestedPairs`.
Other changes inside one cipher are left out on purpose: where the old configuration's
`main.` statements outlive the migration, the file is written with a mixture of both
(finding 1, run `documented_migration`). What a pair needs is `SoundPair`: the statements of
the new configuration, executed after those of the old one, make the cipher they make on a
connection of their own (`Supersedes`), and a cipher in a legacy mode says how long a page
is (`PageSizeKnown`). `KeyConnection_MC` has TLC evaluate that every pair of `key_migration`
is sound and the documented one is not; the theorems of section 4 have it as hypothesis.

### Factory

Several calls run `createActual` on the factories of one file. The file is the
configuration and the key its pages are written with (`file`), or absent. A call is at
`pc[c]`: `Create` queues its block on the dispatcher, `Start` lets it run when no other
block of the factory does (`limitedParallelism(1)` in `FactoryConfig.build`),
`BuildPragmas` is `applyPragmas` and `applyKeyPragma`, `Verify` the key statements of the
first connection, `DoRekey` the rekey statements and the swap of the pragmas, `DoSchema`
what SQLDelight does with the schema, `AttemptFailed` the catch blocks with the loop over
`migrations.reversed()`, `Return` sets `hasOpened`. `Fault` is any other failure of the
platform's `create`, `Cancel` the cancellation of the caller (the block is not
interrupted, its result is dropped), `Crash` the end of the process.

`epoch`, `basis`, `wrote` and `trouble` are history variables: they let a property say
"unless another call changed the file meanwhile" or "unless a fault hit this call".

Abstracted: that the statements leave the file with the credentials they name is what
`KeyConnection` checks; that a rekey is atomic is what `Rekey` checks. Both have
exceptions (section 5), and `Factory` is faithful outside them only.

### Rekey and KeySwitch

A page is the key it is encrypted with: a credential and, when the cipher derives its key
from it, the salt at the beginning of the file. `Open` derives the key of a connection
from the salt on page 1 *as it is then*. The environment of the transaction (`env`) says
which ciphers derive their key from the salt, which authenticate a page, whether the cache
is too small and where an I/O error may happen. `JournalPage` is one round of the loop in
`sqlite3_rekey_v2`; the journal is written with the read key (codec case 7), pages with
the write key (case 6). `Spill` is `pagerStress` (page 1 is pinned by the transaction),
`CommitSync`, `CommitPage` and `CommitEnd` the two phases of the commit. `ReadFails` and
`CommitFails` lead to the rollback, which happens while the write key still is the new
one; `SpillFails` and `DeleteFails` put the pager in its error state and leave the
journal, as `RollbackFails` and `PlaybackFault` do, whose playback stops halfway.
A record of a hot journal that does not decrypt is an error for ciphers with a MAC and,
for those without, a checksum mismatch that ends the playback (`PlaybackFails`,
`PlaybackEnds`, which notes in `dropped` that it threw records away). The path through VACUUM (`sqlite3mcRunVacuumForRekey`) journals and
writes its pages the same way and is not a separate action. The pending-byte page, which
the loop skips, is left out. Writes of the dying process reach the disk: the model is
about a killed process, not about a power failure.

`KeySwitch` has one variable for the credential and one for what the caller knows.
`Rekey!AtomicSwitch` is its specification under the mapping "the credential is the old one
as long as a new connection with it gets the whole file", in the environments in which the
code can be atomic (`Atomic`).

One combination is left out of the environments: an error while a page is read, after
another one was spilled. Its rollback rewrites the journaled pages with the *new* key and
leaves the rest with the old one, so neither opens the file; the environments have the
read error with a large cache only.

### ConfigBuilder

What an application may call, and how often, is a member of `Applications`. The
innermost open block is `scope`; `fs`, `migrations`, `enc` and `cipher` are the
builders of the blocks around it. One action per function of the DSL: the options that
start from a predefined configuration, those that start from an `other`, the setters with
their `require` calls, the end of each block (`build`), `remove` of a migration and
`FilesystemConfig.new`. `asked` records what the application asked for, `verdict` the
outcome of the last setter. Left out: `databasesDir` and the note of a migration.

`ConfigTakesEffect` compares a built configuration with the codec of a new connection
that executes its statements; `WithoutEffect` lists the parameters that sqlite3mc accepts
and does not use (`kdf_iter` of sqleet, `plaintext_header_size` of SQLCipher unless
`legacy = 4`, `legacy` of Ascon). `IsConfiguration` says what an application may pass as
`other`: what the builders themselves make, that is, no null but in a field that admits it
and every value one that a setter accepts or the fixed `legacy` of RC4 and Ascon. A curiosity without a run: the KDoc of the HMAC
salt mask speaks of 255, the setter takes a `Byte` and hence at most 127.

### JDBCDriver

`keyPragma`, `rekeyPragma`, `properties`, `isInitialized` and `lock` are the fields of
`JDBCMCProperties`. The creating thread takes the slow path of `withKeyProps` under the
lock: it packs the statements, opens the first connection, which executes them, swaps the
pragmas and packs again. Every other thread copies the properties without the lock. Copying
and clearing go entry by entry, because `clear` and the copy are not one critical section;
on a `Properties` backed by a hash table the copying iterator may notice
(`CopyInterrupted`). Only the creator reaches the slow path, because `create` returns the
driver after the first connection was made, so the lock is never contended; the model has
it nevertheless. The file is assumed to exist. `close` clears the pragmas, then the
entries. SQLDelight's `JdbcSqliteDriver` is external: it gives each thread a connection
and closes it after use, and its own `close` does nothing for a file.

### DriverPromise and NativeDriver

`DriverPromise` says what both drivers of a file owe their users: the creation may change
the key of the file once, with its first connection; while the driver is open everyone who
asks is served and nobody turned away; who asks after `close` has returned is refused. It
counts rekeys, so a second one is no step of it.

`NativeDriver` keeps a map of pragmas as a function from names to the configuration the
value belongs to. `onCreateConnection` is `Check` (what `toMCSQLStatements` requires),
`Collect` (one name after the other), `Execute`, `RekeyFile`, `Swap` and `Select`, the
first statement that reads the file with what was collected; `ClearEntry` is a step of
`keyPragma.clear()`, between any two of those. Its pools are external: one connection for
writing, `maxReaderConnections` for reading, opened on demand and kept. `Reject` is a
failure of `versionInt` or `journalMode`, which throw before the `try` of `create`: the
maps then keep the key, but no driver exists that holds them. `KeepsPromise` shows that
a map torn by `close` fails only requests that were made before `close` returned.

### Ephemeral

A call of `create(opt)` goes from the dispatcher of its factory through `Connect`,
`ReadVersion` and the schema to `Return`, which drops the driver of a cancelled caller. A
database is identified by the call whose connection made it; a named one is shared by all
connections open at the same time (`DatabaseOf`). On the JVM the schema is `CreateTable`
by `CreateTable` and then `SetVersion`, without a transaction; on native it is one
(`BeginSchema`, `CommitSchema`). A failing creation ends with the platform's catch
(`Releases`): native closes the driver, the JVM drops it with its connection open
(`Orphans`). All factories of the model have the same `dbName`, the interesting case.

## 3. Runs

| Run | Instance | States | Properties |
|---|---|---|---|
| `key_migration` | `SoundPairs`, one passphrase and the empty key, both settings of `hmac_check` and `mc_legacy_wal`, page sizes 1024 and 4096, one lease | 612 k | `TypeOK`, `MigrationTakesEffect`, `AlwaysOpenable`, `TableDescribesFile`, `NoRekeyInWal`, `SwitchesInEffect`, `ReopenNeverFails` |
| `documented_migration` | SQLCipher v3 to SQLCipher with 500000 iterations | violation | `MigrationTakesEffect` |
| `factory` | two calls of three factories with migrations, every kind of key, one fault, one crash, cancellation | 618 k | `TypeOK`, `NoLateMigration`, `DriverOpensFile`, `HonestFailure`, `CredentialsChangeOnRequest`, `EveryCallEnds` |
| `rekey` | four environments, 5 pages, two I/O errors, two crashes, two rekeys | 46 k | `TypeOK`, `NeverStranded`, `AtomicSwitch` |
| `rekey_crash_passphrase` | passphrase to passphrase, 4 pages | violation | `RollbackRestores` |
| `rekey_error_new_key` | a large cache and an error in the commit | violation | `ErrorKeepsOldKey` |
| `rekey_unauthenticated` | to a cipher without a MAC | violation | `PlaybackRestores` |
| `config_builders` | one cipher out of the 11 predefined configurations with up to three setters at boundary values; or two predefined and two inherited ones in five blocks with three selections | 398 k | `TypeOK`, `BoundsAgree`, `ConfigTakesEffect`, `LastSelectionWins`, `MigrationsAsDeclared` |
| `config_ascon_inherited` | `ascon128(other)` | violation | `LastSelectionWins` |
| `jdbc_rekey` | three threads, key k1, rekey k2, a file of k1 or of another key, six requests | 123 k | `TypeOK`, `ServedWhileOpen`, `CredentialsErased`, `KeepsPromise`, `CloseEnds` |
| `native` | three threads, two readers, key k1, rekey k2, a file of k1 or of another key, five requests | 279 k | `TypeOK`, `CredentialsErased`, `KeepsPromise` |
| `ephemeral` | three symmetric calls of two factories, named and private, two tables, one fault, one cancelled caller, both platforms | 116 k | `TypeOK`, `SchemaComplete`, `SeesItsDatabase`, `FailsForAReason` |

Why the bounds are enough for the question of each run:

* `KeyConnection` has one file and one connection at a time, as the code has; a second
  passphrase adds only renamed behaviours, and one lease can begin before or after any
  statement. The theorems hold for any set of configurations, keys and leases.
* `Factory`: two calls can disturb each other at every step. Two migrations are the least
  for which their order matters, and three factories are those of `RekeyTest`. The theorems
  of section 4 remove the bounds for the safety properties.
* `Rekey`: page 1 is special and pinned; of the other pages one may be spilled, one dirty
  and one not yet reached, which makes four; the fifth lets two be spilled. Two crashes
  allow one in the rekey and one in the recovery from it, two faults an error in the commit
  and another one in its rollback. `NoFileIsStranded` removes these bounds.
* `ConfigBuilder`: a setter that depends on another one does so on at most two of them, so
  three suffice; three selections and five blocks allow an override, a removal and a
  configuration built from an earlier one. The theorems remove these bounds.
* `JDBCDriver`: one thread creates, one copies, one closes; the requests allow every
  thread one connection before and one after close.
* `NativeDriver`: the same threads; two readers are the least for which a pool has an idle
  connection and room for a new one.
* `Ephemeral`: two calls overlap and a third one meets what they left; two tables make a
  schema that is half there.

The last three have theorems for any number of threads, readers, requests, calls, tables
and faults too.

Fairness is assumed in two runs. In `factory`, for `EveryCallEnds`: a call whose block runs
goes on (the code has no wait inside it except for the dispatcher), and the dispatcher of
`FactoryConfig.build` eventually runs a queued block. In `jdbc_rekey`, for `CloseEnds`: a
thread inside `withKeyProps` or `clear` is scheduled again; whether the lock it waits for
becomes free is what the property is about. Nothing is assumed about faults, crashes,
cancellation or new calls.

Runs that say `CHECK_DEADLOCK FALSE` end legitimately: the application has made all the
calls that the bounds allow.

## 4. Proofs

`FactoryProofs` proves, for any sets of factories, calls, configurations and keys, any
migrations and any bounds on faults and crashes (`FactoryAssumptions` only types the
constants and says that `Key.Empty` is a key and the absent rekey is none):

* `TypeCorrect`, `MigratesOnlyBeforeFirstOpen`, `ReturnedDriverOpens`, `FailureIsHonest`:
  `Spec => []P` for `TypeOK`, `NoLateMigration`, `DriverOpensFile`, `HonestFailure`;
* `ChangesAreRequested`: `Spec => CredentialsChangeOnRequest`, an action property.

None of the properties is inductive. `IInv` adds what a call in the middle knows:
calls of one factory run one at a time (`OneAtATime`, without which `hasOpened` could be
set under a call that is trying migrations); the credentials held are those of the
attempt before the rekey and the requested ones after it (`HeldCredentials`); as long as
nobody else changed the file, what `Verify` or `DoRekey` found is still true
(`StillOpens`); and a call that is still looking has not changed the file and every
earlier attempt was rightly refused (`RefusedSoFar`, `AllTried`). `IInv` was checked by
TLC on the instances of `Factory` before it was proved. One lemma per conjunct
shows that it is preserved; `FileStep` carries the argument about the history variables.

`RekeyProofs` proves, for any number of pages, crashes, faults and rekeys
(`RekeyAssumptions` types the environments and the bounds):

* `RekeyTypeCorrect`: `Spec => []TypeOK`, in every environment;
* `NoFileIsStranded`: `Spec => []NeverStranded`, in the environments that are
  `Recoverable`: the old key does not depend on the salt of the file, and no page is spilled
  where reading one may fail. Those of the run are, and without either the property is false
  (`rekey_crash_passphrase`, and the combination named in section 2);
* `RekeyIsAtomic`: `Spec => AtomicSwitch`, the refinement of `KeySwitch`, in `Recoverable`
  environments. The switch is `CommitEnd`, which deletes the journal; the other steps map to
  the request, to a report of an error, to an interruption or to a stutter. In environments
  outside `Atomic` the mapping is constant and the theorem says nothing, as the findings 3
  and 4 oblige it to.

`NeverStranded` is not inductive: whether a crash leaves a file that one key opens depends
on what is in the journal, which the property does not see before it is synced. `IInv`
says, until a journal is dropped, that the file opens with the old key through its journal
or with the new one without (`OldOpens`, `NewOpens`), and at each place of the code which
pages have which key and which records exist: `Playing`, `Idle`, `Writing`, `Looping`,
`Committing`, `Rolling`. `Journaled` is what `TypeOK` needs in addition. `IInv` was checked
by TLC on the instance of `rekey` first. The proof goes by the three groups of
actions `Connecting`, `Rekeying` and `Failing`; `HeldClosed` takes care of every step that
ends the connection. The refinement adds that in `Atomic` environments no journal is dropped
and nothing rolled back (`SwitchInv`).

`CipherConfigProofs` is about operators. The statements of a configuration are executed
one by one on a table, so the question of every proof is what the table holds after k of
them. `Settled` is the answer in closed form, for every cipher, every value and every table
one starts from: the configured value of a parameter that was named and accepted, else the
value that `PRAGMA legacy` of SQLCipher set along, else what was there. `ConfigureAllEffect`
and `NextStatement` prove it, for all statements at once and for one more; `ConsumeEffect`
says what an allocation puts back. There is no induction: the list of MCPragma.ALL has twelve
entries, and the lemmas are about the k-th of them.

`KeyConnectionProofs` proves, for any configurations (`PairAssumption` types them), keys,
switches and number of leases:

* `KeyTypeCorrect`, `RekeyLeavesWalFirst`, `SwitchesAreCurrent`: `Spec => []P` for `TypeOK`,
  `NoRekeyInWal`, `SwitchesInEffect`, without a hypothesis on the configurations;
* `SomeKeyAlwaysOpens`, `MigrationsTakeEffect`, `TheTableDescribesTheFile`,
  `LaterConnectionsOpen`: `Spec => []P` for `AlwaysOpenable`, `MigrationTakesEffect`,
  `TableDescribesFile`, and `Spec => ReopenNeverFails`, assuming `Sound`: every pair is a
  `SoundPair` (section 2). Without it they are false;
* `AnotherCipherSupersedes` and `SettingAllSupersedes`: two large classes of migrations
  have the essential half of that hypothesis, for all values of their parameters, namely
  those that change the cipher, and those within one cipher whose new statements set all
  that the old ones set, among them every change of the key alone.

The inductive invariant is `Typed /\ Place`. `Place` says for each statement of each stage
which statements are left, what the table holds (in terms of `Settled`) and which
credentials open the file; the properties see only the last of these, and nothing follows
about the next statement without the other two. `InvariantHolds` names it as a theorem.

`ConfigBuilderProofs` proves, for any application and any number of calls
(`ApplicationAssumption`: values have the Kotlin type of the setter's argument, and
configurations passed in are such as builders make):

* `BuilderTypeCorrect` (`TypeOK`), `SettersAgreeWithTables` (`BoundsAgree`, for every `Int`,
  page sizes by an argument about the divisors of 65536), `MigrationsKeepTheirOrder`
  (`MigrationsAsDeclared`);
* `ConfigurationsTakeEffect` (`ConfigTakesEffect`): what the driver leaves out of its
  statements, because a predefined configuration has the same value, is indeed what the
  table has, after `PRAGMA legacy` or from the start (`PredefinedValues`), and what it names is
  accepted (`KeptIsAccepted`, which rests on `BoundsAgree`'s lemma `ChecksAgree`);
* `TheLastSelectionWins` (`LastSelectionWins`), assuming `NoAsconInherited`: no Ascon
  configuration is passed as `other`. The assumption is finding 5.

`IInv` adds to the properties that every configuration in every builder is one that its
setters would accept (`Typed`) and that the block of the migrations, or the builder when no
block is open, already holds the declared ones in order (`Declared`).

`JDBCDriverProofs` proves, for any set of threads, any files and any number of requests:
`JDBCTypeCorrect` (`TypeOK`), `EveryThreadIsServed` (`ServedWhileOpen`), `NoKeyOutlivesClose`
(`CredentialsErased`), and `JDBCKeepsPromise`, the refinement of `DriverPromise`, assuming
`Encrypted`: neither the file nor the rekey has `Key.Empty` (section 5 says why it is
needed). `IInv` states that how far the first connection is determines the maps, the entries
and the file (`Maps`, `Entries`, `FileKey`), that only the creator takes the path under the
lock (`Alone`, `Slow`) and that what a thread has copied is what the first connection left,
unless `close` meets it (`Copied`): without the last, nothing is known when it connects.

`NativeDriverProofs` proves, for any sets of threads, any number of readers and requests:
`NativeTypeCorrect` (`TypeOK`, which bounds the pools), `NoPragmaOutlivesClose`
(`CredentialsErased`), and `NativeKeepsPromise`, the refinement of `DriverPromise`. It needs
no hypothesis on the key, because a closed pool refuses whatever the key is. In `IInv`,
`Opener` says that one thread at a time opens a connection and has room for it, and
`Collecting` that its statements are those of the complete map unless `close` is emptying it.

`EphemeralProofs` proves, for any number of calls, factories, tables, faults and cancelled
callers: `EphemeralTypeCorrect` (`TypeOK`), `SchemaIsWhole` (`SchemaComplete`),
`DriversShareByName` (`SeesItsDatabase`), `CreationsFailForAReason` (`FailsForAReason`).
`IInv` says that calls of one factory run one at a time and named calls that overlap are noted
as disturbed (`Serial`), that all open named connections are on the same database
(`OneName`), that tables without a version are the work of one call (`Tables`), and that a
database left like that never becomes whole (`Stuck`): only then does a later failure keep
its reason.

The `IInv` of `JDBCDriverProofs`, `NativeDriverProofs` and `EphemeralProofs` were checked by
TLC on the instances of their runs; that of `KeyConnectionProofs` quantifies over all tables
and that of `ConfigBuilderProofs` over infinite sets, so TLC checks only what they imply. Induction over data is nowhere needed.

Only model-checked: liveness (`EveryCallEnds`, `CloseEnds`), which is out of the prover's
reach. The bounds in the guards of `Factory`, `JDBCDriver`, `NativeDriver`,
`Ephemeral` and `ConfigBuilder` are constants of the theorems.

## 5. Disagreements between the code and its documentation

1. `documented_migration` (documentation). The old configuration's statements set defaults
   of the connection; the rekey statements name only what differs from the predefined
   configuration, and `legacy = 0` resets nothing. The migration that
   `EncryptionMigrationConfig.kt:81-117` shows writes a file with SHA1 that the current
   configuration, which means SHA512, cannot open.
2. `rekey_crash_passphrase` (vendored code). The journal of a rekey is encrypted with a key
   derived from the salt on page 1, which the commit overwrites. After a crash between the
   two, the old passphrase cannot play the journal back.
3. `rekey_error_new_key` (vendored code). The rollback of a failed commit runs before the
   write key is restored: the caller gets an error and a file with the new key.
4. `rekey_unauthenticated` (vendored code). For RC4, the wxSQLite3 ciphers and no encryption
   a record of the old key is no error but a checksum mismatch, which the pager takes for
   the end of the journal: it deletes it and leaves a file of two keys. `createActual`
   meets this by itself, because after an interrupted migration it first tries the
   configuration the file was being migrated to.
5. `config_ascon_inherited` (code). `ascon128(other) { }` neither builds nor assigns: the
   selection is lost.

Seen and without a run: a `FilesystemConfig` without an encryption block gets
`EncryptionConfig.Default` (`FilesystemConfig.kt:163`), where its KDoc (134-135) says that
the file is not encrypted.

That nobody is served after `close` (`KeepsPromise`) is about encrypted files only:
`close` of the JVM driver erases the credentials and nothing else, so with `Key.Empty` a
closed driver still opens connections, without the configured pragmas, whatever the
comment at `GeneralTest.kt:97` says of further attempts.

## 6. Not modelled, and the plan

Not modelled: cryptography, SQL, B-trees and the rest of the vendored amalgamation; paths
and strings (`DatabasesDir`, `StringExt`); loading of the native library; the Gradle
plugin, the build logic and the scripts under `external/`. None of them has state that the
properties above depend on.

* `PragmaConfig`: the application's own pragmas are text, taken out of the map by exact
  name and parsed by each platform in its own way; only a pragma that fails is modelled, as
  a fault of the connection.
* the registration with `DriverManager` and the Base16 text of a raw key.
* a power failure in a rekey (writes of the dying process are assumed to reach the disk),
  and the recovery by a connection that does VACUUM.

The vendored `sqlite3mc.c` has about 355000 lines, of which the project models the rekey
transaction, the pager's part in it and the parameters of a connection; its share of the
repository's lines is small and will stay so. Definitions that translate functions of its
second half (the multiple-cipher extension, after line 216000) carry the lines in their
`symbol` entry of `PROJECT.json` and are listed there as vendored code that the driver
calls.

Planned, in this order:

1. the composition of `Rekey` with the order in which `createActual` tries configurations,
   which decides whether an interrupted migration to a cipher without a MAC is recovered or
   torn (finding 4);
2. `create(opt)` and `create(key)` on one dispatcher;
3. a class of migrations within one cipher for which `SoundPair` holds although the new
   configuration sets less than the old one, as SQLCipher v2 to v3 does.
