# Module-Database: specifications, model checking and proofs

Module-Database is an Android database library in two layers. `module-sqlite` is SQLite's
own Java binding for Android (`org.sqlite.database.sqlite`) with its native code: a database
object that threads share, a pool of native connections, and one session per thread.
`module-db`, with the annotation processor `module-db-compiler`, is a small ORM on top: tables
are described by annotated classes, created and migrated by a helper, and read and written
through DAOs.

This directory holds TLA+ models of the parts with state that several actors, failures or
long call sequences can disturb, the TLC configurations that check them, and proofs. Java file
names below are in `src/module-sqlite/src/main/java/org/sqlite/database/sqlite/`, C and C++ ones
below `src/module-sqlite/src/main/cpp/sqlite/`, Kotlin ones below
`src/module-db/src/main/java/com/lebusishu/database/`. `PROJECT.json` lists, for every
definition, the source lines it stands for, and for every run its properties, with a mutation
of the model each of them detects.

## Contents

| file | what it is |
| --- | --- |
| `SQLiteConnectionPool.tla` | the connection pool: detailed model and properties |
| `ConnectionLease.tla` | what the pool promises sessions (abstract specification) |
| `SQLiteConnectionPoolProofs.tla` | the inductive invariant of the pool, proved |
| `SQLiteConnectionPoolSafety.tla` | what rests on it, proved: wake-ups, order, cancellation, configuration, the bound, the lease contract |
| `SQLiteSession.tla` | sessions, nested transactions, their use of connections |
| `NestedTransaction.tla` | what nested transactions promise (abstract specification) |
| `SQLiteSessionProofs.tla` | sessions keep connections as long as needed, keep transactions apart and implement `NestedTransaction`, proved |
| `SQLiteConnection.tla` | one connection: statement cache, cancellation, log of operations |
| `SQLiteConnectionProofs.tla` | statements, cancellation and the log's entries, proved |
| `SQLiteCursor.tla` | a cursor and the native loop that fills its window |
| `SQLiteCursorProofs.tla` | the window holds the right rows, proved |
| `SQLiteDatabase.tla` | the database object: references, open and close, configuration, corruption |
| `SQLiteDatabaseProofs.tla` | references, configuration and WAL against ATTACH, proved |
| `ModuleDBMigration.tla` | what an upgrade does to a file's tables, as operators on its content |
| `ModuleDB.tla` | the ORM's registry, its helpers, and the upgrades they run |
| `ModuleDBProofs.tla` | upgrades keep rows, versions mean schemas, DAOs get upgraded files, proved |
| `Fts5Tokenizers.tla` | the two full-text tokenizers, against a declarative definition |
| `Fts5TokenizersProofs.tla` | the tokens are those of the text, for texts of any length, proved |
| `MC*.tla`, `*.cfg` | instances of these for TLC |

`SQLiteConnectionPool`, `SQLiteSession` and `SQLiteDatabase` each have an abstraction of the part
below: what one shows of the pool is what the next assumes of it. `ModuleDB` extends
`ModuleDBMigration`. To run one: `tlc -config pool_core.cfg MCSQLiteConnectionPool`; to check
proofs: `tlapm SQLiteConnectionPoolProofs.tla`.

## The system

How the parts interact: the application calls `SQLiteDatabase`, which finds the calling
thread's `SQLiteSession` (a `ThreadLocal`); the session acquires a connection from the
`SQLiteConnectionPool` for a statement or a transaction and calls `SQLiteConnection`, which
prepares, caches and runs statements through JNI; the connection goes back when the last use
ends. `SQLiteOpenHelper` opens and upgrades the database; `ModuleDatabaseHelper` is the ORM's
helper and `ModuleDB` the singleton that owns it. (The ORM imports the platform's classes, of
which those in `module-sqlite` are copies.)

### Connection pool (`SQLiteConnectionPool.java`)
- State: open or closed; the configuration and the maximum size it implies; the available
  primary connection and the available others; a weak map of acquired connections with what
  is to happen when they come back (normal, reconfigure, discard); a linked queue of
  `ConnectionWaiter`s by priority and a list of recycled ones; a flag "connection leaked".
- Operations: `acquireConnection` (at once, or wait: enqueue, park, check), `releaseConnection`,
  `reconfigure`, `close`, cancellation of a wait, `onConnectionLeaked` from a finalizer,
  and `wakeConnectionWaitersLocked`, the loop that hands connections to waiters.
- Hard: everything around waiting is split between code under the lock and code without it
  (parking, the leak flag, cancellation listeners); waiter objects are reused; connections
  are out while the configuration changes or the pool closes; opening may fail anywhere.
- Correct when: a connection has one owner; no waiter is forgotten or overtaken; a
  cancellation hits its own request; the size bound holds; changes reach every connection.

### Session (`SQLiteSession.java`, `SQLiteTransactionListener.java`)
- State: at most one connection with a use count and the flags it was acquired with; a stack
  of transactions, each with mode, listener, marked-successful and child-failed.
- Operations: begin, mark, end, yield, statements, and raw `BEGIN`, `COMMIT`, `ROLLBACK`.
- Hard: listeners are application code and throw; `COMMIT` throws; statements run inside
  statements; a yield ends a transaction and begins another that may not come about.
- Correct when: a nest of transactions is all or nothing; session, SQLite and pool agree on
  who is in a transaction; the connection is given back once on every path.

### Connection, statements, operation log (`SQLiteConnection.java`, `android_database_SQLiteConnection.cpp`)
- State: native handle; LRU cache of prepared statements with in-use and in-cache marks and a
  list of recycled ones; a count of attached cancellation signals, the native flag they set and
  the progress handler that reads it; a ring of recent operations.
- Operations: open, reconfigure, prepare, execute in several forms, dispose.
- Hard: a statement is used reentrantly or evicted while in use; a reset reports the error of the
  last step again; a cancellation races with the start and the end of the operation it is for; a
  late `endOperation` must not touch a newer entry of the ring.
- Correct when: a native statement is finalized once, not while in use, and none is forgotten; a
  cancellation interrupts the operation it was attached to, and only that.

### Cursor (`SQLiteCursor.java`, `SQLiteQuery.java`, `nativeExecuteForCursorWindow`)
- State: row count, position, a window of rows and its capacity as first seen.
- Operations: `getCount`, moving, `fillWindow`, `requery`, `deactivate`.
- Hard: the native loop restarts the window when it is full before the required row; row numbers
  and start position are kept on both sides of JNI; the result may have changed since the last fill.
- Correct when: a position of the cursor shows the row with that number, and the row asked for is
  there.

### Database object (`SQLiteDatabase.java`, `SQLiteClosable.java`, `SQLiteDatabaseConfiguration.java`, `DefaultDatabaseErrorHandler.java`)
- State: reference count; the pool or null; the configuration; a flag for attached databases.
- Operations: open, close by reference count, `reopenReadWrite`, `setForeignKeyConstraintsEnabled`,
  write-ahead logging on and off, `ATTACH`; the handler of corruption, which closes.
- Hard: a configuration change is stored first and taken back when the pool throws; references
  are acquired and released across threads; `ATTACH` takes the lock, lets go of it and goes on; the
  handler closes the database from inside an operation.
- Correct when: the configuration stored is the one the pool has; the pool outlives the operations
  that refer to it and is closed after them; WAL and attached databases exclude each other.

### Open helper (`SQLiteOpenHelper.java`)
- State: the open database or null, an "is initializing" flag, the version stored in the file.
- Operations: `getWritableDatabase`, `getReadableDatabase`, `close`, and the callbacks.
- Hard: a callback throws or the process dies during an upgrade; the version is read before the
  transaction; two helpers work on one file.
- Correct when: version and schema change together or not at all.

### Registry of the ORM (`ModuleDB.kt`, `BaseDao.kt`)
- State: a static instance with its database, the database's name and its helper; each DAO has a
  reference to an instance. Operations: `create`, `getDatabase`, `open`, `close`.
- Hard: nothing is synchronized: two threads create, close or use the instance in turns.
- Correct when: a DAO gets the database it asked for, created or upgraded.

### Schema creation and upgrade (`ModuleDatabaseHelper.kt`, `ModuleDBMigrationHelper.kt`)
- State: the tables and their temporary copies; `dbName`, a field of the one
  `ModuleDBMigrationHelper` of the process. Operations: create all, upgrade a version's tables by
  copying them aside, dropping, creating and restoring.
- Hard: statements fail half way and the exception is swallowed, or not; a crash; text that a
  failed statement leaves in a builder; tables found by the end of their names. Nothing keeps
  upgrades of different databases apart, and both use `dbName`: one assigns it when it begins
  (line 48), and looks up the `CREATE` statements under whatever it is later on (line 195).
- Correct when: rows of columns that both versions have survive an upgrade, and its tables are
  those of its own database.

### Full-text tokenizers (`wcicu_tokenizer.c`, `ascii_tokenizer.c`)
- State: the table of token characters, the fold buffer, the UTF-16 text with UTF-8 offsets.
- Hard: offsets between encodings, boundaries of the buffers, the answers of `xToken`.
- Correct when: the tokens are those of the text, each with its own bytes.

### Smaller parts
- Statements and programs (`SQLiteProgram`, `SQLiteStatement`, `SQLiteQuery`): a bound argument
  array and a reference to the database object; they forward to the session.
- Annotation processor and configuration (`ModuleProcessor.kt`, `ModuleReflectTool.kt`,
  `TypeConfig.kt`): tables and upgrade lists from annotations, through generated classes.
- DAO and SQL builders (`ModuleBaseDao.kt`, `ModuleDBSqlUtils.kt`): SQL text.
- Query builder (`SQLiteQueryBuilder`, `SqliteWrapper`), diagnostics (`SQLiteDebug`,
  `CloseGuard`, `SQLiteGlobal`), JNI support with vendored headers and the demo application: no
  state that outlives a call and could go wrong in more than one step.

## Runs

| run | instance | what it shows |
| --- | --- | --- |
| `pool_core` | 3 threads, WAL, 2 connections at most, two priorities | nobody waits in the queue for what it could have (`NoLostWakeup`); a dequeued thread has a permit (`DequeuedIsUnparked`); the queue is ordered and served in order (`QueueInOrder`, `NoOvertaking`, `GrantInOrder`); `PoolSizeBound`; the lease contract |
| `pool_cancel` | 2 threads, no WAL, nonces up to 2, `close` at any time | a cancellation ends its own request only, although waiter objects are reused and listeners run late (`CancelHitsOwnRequest`); a waiter to be cancelled is in the queue of an open pool; a closed pool hands nothing out (`ClosedRefuses`); the invariant of the proofs |
| `pool_change` | 2 threads; WAL, foreign keys, parameters, read-only access change; opening and reconfiguring fail | ownership and the single primary connection survive; what is ready is configured as the pool is (`ConfigurationPropagates`) |
| `pool_live` | 2 threads ask for the only connection, cancel, leak it, close the pool | cancelled waits and waits for a closed pool end; every request is answered if connections come back |
| `session_main` | 2 sessions, 2 connections, nests of 2, listeners throw, `COMMIT` is undone, the pool closes | all or nothing (`ImplementsNestedTransaction`); connection and use count are those of the transaction and statements in progress (`ConnectionWhileNeeded`); whoever waits holds nothing (`WaitsEmptyHanded`); SQLite has a transaction on exactly the connections of sessions that have one (`TransactionsMatch`) |
| `session_live` | 2 sessions share one connection and all faults happen | the connection is given back on every path, and every wait for it ends |
| `session_commit_busy` | only a `COMMIT` that throws and leaves the transaction open | the disagreement under Finding |
| `connection_main` | nested operations with 2 signals, a cache of 1 statement, a log of 2 entries; preparing, binding, stepping fail | `StatementsAccounted`, `CancelHitsOwnOperation`, `EndsOwnEntry`; a cancelled operation ends though its statement would run for ever |
| `cursor_window` | every result of up to 4 rows, of sizes that fit thrice, once or never into a window of 3; one change by another writer | consecutive rows under their own numbers; the required row; the values the fill returns |
| `database_main` | 2 threads, 3 operations or configuration changes, 2 closes, any statement throws | `OpenWhileReferenced`, `ConfigurationsAgree`, WAL is not enabled on attached databases, a closed database closes its pool |
| `orm_main` | 2 threads, 2 names with lists of their own, an old and a new version; one upgrade or creation, or two upgrades at once; one failure or crash | `UpgradeKeepsRows`, `VersionMeansSchema`, `HandedIsUpgraded` |
| `tokenizers` | texts of up to 4 bytes or characters, 7 argument lists | the tokens put out are those of the text; a refusal ends the ascii tokenizer |

`CHECK_DEADLOCK FALSE` is set wherever the system may stop: a closed pool or database with idle
threads has nothing to do, and a function returns. `orm_main` is the largest with 1.9 million
states; the others have between 23,000 and 620,000 (the
violation is found earlier).

## The pool model

Every `synchronized (mLock)` block is one step. The exception is the loop of
`wakeConnectionWaitersLocked`, which ends most of those blocks: it takes one step per waiter
(`WakeClosed`, `WakeAssign`, `WakeThrow`, `WakeSkip`), with its position and its two "ran out"
flags in `wake`. While it runs the lock is held (`LockFree` is false), so that no other locked
block starts, but what takes no lock interleaves with it: park and unpark, polling the leak
flag, the collector, a `CancellationSignal`.

| model | code |
| --- | --- |
| `availablePrimary`, `availableNonPrimary`, `acquired` | `mAvailablePrimaryConnection`, `mAvailableNonPrimaryConnections`, `mAcquiredConnections` |
| `waiterQueue`, `waiter[w]` | the linked list from `mConnectionWaiterQueue`, the fields of a `ConnectionWaiter` |
| `pc`, `hold`, `ticket` | where a thread is in `waitForConnection`, the connection its session has, its waiter object with the nonce it read |
| `permits` | `LockSupport` permits |
| `signal`, `listener` | the thread's `CancellationSignal` and whether its listener is set or running |
| `live`, `primary`, `configOf`, `garbage` | connections that are open, primary, how they are configured; open ones only the weak map knows |

`AcquireNow` and `AcquireWaits` are `acquireConnection` up to the first park; `SetListener`,
`PollLeakFlag`, `RecoverFromLeak`, `Unpark`, `CheckClosed`, `CheckDone`, `CheckAgain`,
`ClearListener` the rest of `waitForConnection`; `Cancel`, `OnCancel` and `SelfCancel` the ways a
cancellation arrives; `ReleaseClosed`, `ReleasePrimary`, `ReleaseExcess`, `ReleaseNonPrimary` the
branches of `releaseConnection`; `ReconfigureInPlace`, `ReconfigureReopening`,
`ReconfigureFails` those of `reconfigure`; `Leak`, `ClearWeakEntry`, `Finalize` a session that
is dropped with its connection, and the collector. `park` may return at any time, which covers
its timeout and spurious wake-ups. A closed `Conn` that is opened again stands for a new object.

`ConnectionLease` is the contract: a lease goes to one session at a time, one that asked, a
primary connection to who asked for one, only while the pool is open; one that was not picked
up when the pool closed is void. `ImplementsContract` maps the waiter that was assigned a
connection to "granted".

Bounds. Three threads are what overtaking needs: one holds, two wait with different needs. Two
are enough where the question is about a waiter and one other actor. There are as many waiter
objects as threads, so that every wait finds one; a recycled one is preferred, as in the code.
`MaxNonce` bounds how often one object serves cancellable requests: 2 lets a late listener meet
the second use of its object. `WALConnectionPoolSize` is 2: a primary and one other connection.
One more `Conn` than that lets a connection be replaced while the old one is still out. `Faults`
says what may go wrong; each may happen any number of times. `Switches` says which configuration
changes the application makes. Threads, waiters and connections are symmetry sets where no
liveness is checked.

Fairness. `WF(WakeStep)`: a thread that holds the lock runs on. `SF(Proceed(t))`: a waiting
thread gets the monitor in the end and parks time out; strong, because those steps are disabled
whenever someone else has the lock. `FairSpec` adds that cancellations are delivered and the
collector gets round to garbage. `EveryRequestAnswered` assumes in its own hypothesis what
`acquireConnection` demands of its callers, that connections are released; the other two do not
need it. It is about requests of one priority for the primary connection. Two other cases do
starve, by design or for a reason outside a single pool call: a low priority behind an endless
stream of higher ones, and a plain request when sessions leak connections for ever (a newcomer
takes the room between the clearing of the weak entry and the leak flag, and `releaseConnection`
closes an excess connection without waking anyone).

## The session model

A session's fields are used by its thread only. A step runs to the next point where it meets
something shared or foreign: the pool, an SQL statement, a listener. `phase` says which call a
thread is in: waiting for the pool, about to run `BEGIN` (`begin`), in `onBegin`, about to undo
after it threw (`unbegin`), in `onCommit` or `onRollback` (`onEnd`), about to run `COMMIT` or
`ROLLBACK` (`finish`), in the delay of a yield (`sleep`).

| model | code |
| --- | --- |
| `connection`, `useCount`, `flags` | `mConnection`, `mConnectionUseCount`, `mConnectionFlags` |
| `stack` | `mTransactionStack`, outermost first, with the fields of `Transaction` |
| `call`, `ending` | arguments and locals of the call under way |
| `running` | statements in progress; one may run inside another, as SQLite calls functions of the application |
| `idle`, `poolOpen` | the pool, by its contract |
| `native`, `disk` | SQLite: of each connection whether a transaction is open, whether it has the write lock and what it wrote; what was committed |

The pool is reduced to what the pool model shows of it: it gives a suitable idle connection to a
waiting session, refuses when closed, and closes what comes back then. SQLite is external code:
one write lock, `BEGIN IMMEDIATE` and writes that fail while another connection has it, `BEGIN`
inside a transaction fails. `Faults` adds what may go wrong: cancellation of a wait, `BEGIN`,
listeners, a `COMMIT` that SQLite undoes ("commit") or leaves open ("busy"), `ROLLBACK`.
A transaction is the code's only in what the session does: when a listener is called it may run
statements or throw, but not begin or end transactions. The list of recycled `Transaction`
objects is left out, as `obtainTransaction` sets every field. A cancelled call that throws
before it changes anything is no step.

`NestedTransaction` is the promise of the class comment: what a nest of transactions wrote is
published at once by the end of the outermost, only if all were marked, or not at all; a yield
publishes as well. The mapping has one difficulty: the stack is popped before `COMMIT` runs, so in
phase `finish` the abstract transaction is still open and its mark is taken from `ending`.

Bounds. Two sessions and two connections, one of them primary, are what contention and yielding
need: one session waits for the primary connection while the other has it. A nest of two has a
parent and a child, and a child's failure travels one level per end, so that depth adds nothing
but repetition. Two data let a yield publish one and roll back the other.

Fairness in `session_live`: the thread of a session goes on with its call and listeners return;
the pool serves a waiting thread that it can serve again and again (`EveryRequestAnswered` of the
pool); the application ends its transactions and statements, and does not for ever start one
before it ends the other (`LetsGo`). A cancellation is no part of the fairness, as it would end
every wait by itself.

## The connection model

One thread at a time has a connection, so that the threads of this model are one that runs
operations, and those that cancel. Operations nest: a statement may call a custom function, which
is code of the application and runs statements of its own on the connection of its thread.

| model | code |
| --- | --- |
| `sqlOf`, `inUse`, `inCache`, `cache` | native statements with their SQL, `mInUse`, `mInCache`, `mPreparedStatementCache` in LRU order |
| `ops` | the operations in progress: statement, signal, cookie, and where each is between binding and release |
| `attached`, `listening` | `mCancellationSignalAttachCount`, `setOnCancelListener` |
| `progress`, `canceled` | in C++: the progress handler, `connection->canceled` |
| `isCanceled`, `canceling` | `CancellationSignal` (external): the flag, and being inside `cancel()` before the listener runs |
| `log`, `generation` | `mOperations`, `mGeneration` |

`UseCached`, `UsePrepared`, `PrepareThrows` are the branches of `acquirePreparedStatement` with the
`beginOperation` before it; `BindThrows` the checks and bindings; `AttachNothing`, `AttachThrows`,
`Attach`, `Listen` are `attachCancellationSignal`; `Finish`, `StepFails`, `Interrupt` the ends of
`sqlite3_step`; `Detach`, `Release` the two `finally` clauses. What SQLite does with a statement that
two nested operations share, or that was finalized under one, is undefined, and such a state is the
last of its behaviour (`Corrupt`; see Observations).

Bounds: `Sql` has two texts that are cached and one that is not, `Stmt` as many native statements
as the cache and two operations hold at a time; a cache of one evicts at every second text. The
log has two entries and three operations overwrite one. Two nested operations with two signals
cover both orders of attaching and the signal that is not listened to. `MaxOperations` also bounds
the generation; its wrap-around after 2^24 operations is out of reach (see Hazards).

Fairness, for `CanceledOperationEnds` only: the thread goes on with its operation, `cancel()` ends,
and SQLite asks the progress handler again and again. A statement need not end by itself.

## The cursor model

`GetCount`, `Move` with `MoveCounts`, `MoveArrives`, `MoveFills`, then `Requery` and `Deactivate` are
the calls of `SQLiteCursor`; `FillWindow` and `FillReturns` what its `fillWindow` does before and after
the native loop, of which `SkipRow`, `CopyRow`, `WindowFull`, `Restart`, `LastRow` are a round each.
The fields of `fill` are the variables of `nativeExecuteForCursorWindow`. A result is the sequence of
the sizes of its rows, a row in the window its number in the result; the window has room for
`Capacity` units, which the copying of a row uses up as a whole (a row that did not fit is freed
again). `TableChanges` is another writer between two fills. `AbstractCursor` and `CursorWindow` are
Android's. Rows of size 1 and 2 make windows of different lengths, 4 is larger than a window of 3;
four rows allow two restarts in one fill.

## The database object model

The object's lock is taken for short blocks; each is a step, and so is what is done outside of it.
`BeginOperation`, `BeginEnd`, `BeginStatement` start the calls, `Execute`, `Run`, `Leave` are their
common shape (get the connection, run, give the reference back in `finally`), with `ExecuteRefused`
and `RunThrows` for their failures. `AttachFlag` and `AttachDisablesWal` are what `executeSql` does
before an `ATTACH`; `Configure` is the four setters, with the pool's refusals and its failure half way
(`NotApplied`); `HandlerIsOpen`, `HandlerGetAttached`, `HandlerList`, `HandlerClose` are
`onCorruption`; `Release`, `Dispose`, `ClosePool` are `releaseReference` and `dispose`, which lets go of
the pool under the lock and closes it outside; `OpenInner`, `OpenCorrupt`, `OpenFails` are `open`.

| model | code |
| --- | --- |
| `refs`, `poolRef`, `pool` | `mReferenceCount`, `mConnectionPoolLocked`, the pool: none, open or closed |
| `config`, `poolConfig` | `mConfigurationLocked`, the pool's own copy |
| `hasAttachedDbs`, `attached` | the flag, and whether the primary connection has one |
| `holder`, `discarded`, `session`, `transaction` | the pool and the sessions, as the database sees them |
| `closes` | how often `close` was called, by the application or the handler |

All statements go to the primary connection, the one on which transactions and `ATTACH` run. Two
threads and three operations let one thread attach, switch WAL or close at every point of the
other's operation. Two closes are one more than the object allows for.

Fairness: `SF(Proceed(t))`, a thread goes on with what it has begun and one that waits for a
connection that comes back again and again gets it; `WF(BeginEnd(t))`, a transaction that was begun
is ended, the `try`/`finally` the documentation of `beginTransaction` asks for. `ClosedEventually` is
about a bounded number of operations: an application that never stops starting new ones could keep
the database open for ever.

## The ORM model

`ModuleDB.tla` has no lock, as `ModuleDB.kt` has none: `GetDatabase`, `CreateAgain`, `NewInstance`,
`Open`, `GetWritable`, `AssignDb`, `AssignCurrentDb`, `CloseDb`, `CloseHelper`, `Forget`, `Made`, `Get`,
`Return` each read or assign one field or test one condition. The helper is external: it holds its
monitor while it opens the file, reads the version, and runs `onCreate` or `onUpgrade` in an
exclusive transaction (`Begin`, then `OnCreate`, or `BuildTempTable` to `DropSpecifyTable`, then
`Commit`). Each opening makes a helper of its own, so that two upgrades of one file can meet. `Crash`
loses what is in memory and every open transaction.

Upgrades of two databases have a helper and a file each, so that neither the monitor nor the
transaction orders them, but one `ModuleDBMigrationHelper`. Its field is the variable `dbName`:
`MigrateSpecifyTable` assigns it, and each round of `RebuildSpecifyTables`, which drops all tables
of the list and runs `buildTables`, reads it anew, as the loop of `rebuildSpecifyTables` does. Between
the rounds the other upgrade may assign it, so that one round takes its own list and the next
another. (The lock of `lazy` makes one object of this class, and does no more.)

`ModuleDBMigration` gives the effect of each method on the content of a file: which tables there
are, what the `CREATE` that made them says (`schema`), which rows they hold, and the temporary tables.
`CreateSqls`, `Updates` and `Deletes` are lists per database; `Rebuilt(c, list, n, m)` is the content of
database n after a round that found m in `dbName`, and creates nothing if m has nothing of the kind.
A row stands for its values in the columns that the old and the new table have in common. Where
the table is there as its own configuration says (`HasOwnForm`), restoring brings the rows back whole; in
one that another list made, any of them may lack values (`KeptRows`), or no column is left and the
`INSERT` throws, as it does where the table was not made. Four further fields say for the properties
what the program does not record: what was written, the version a file had at first, the tables a failed
statement excuses (`hurt`), and those ever made from another list which says something else of them
(`astray`).

`UpgradeKeepsRows` and `VersionMeansSchema` except the tables that are `astray`, since the code does
create tables from the wrong list (`OwnListsOnly`, under Observations). What they say is how far this
goes: it takes a second database with tables to update, hurts the tables of the update list only, and
neither the tables to delete nor the rows of others.

Bounds: the file of the first name is to be upgraded, or to be created, and the other is up to date; or
both are to be upgraded. The first updates two of its three tables; the last has no `CREATE` and is
deleted, and the name of the second ends with that of the first, because `buildTables` looks for a
name followed by " (". The second updates one table, of which the first says nothing, and has one of
the name of a table the first updates, in another form: an upgrade that takes the wrong list finds
nothing there, or something else. One failure or crash is enough
for each path; two calls for the first name and one for the other let a thread switch databases under
the other. `FewerCalls` takes one of these away where both files are to be upgraded, which leaves one
upgrade of each, or two of the same, and a failure; and where the file is to be created, unless there
is no failure. That an upgrade is repeated after another list has been taken is left to the proofs.
`Instances` and `Helpers` bound objects in use at once and never keep a thread from making one.

## The tokenizers

`Fts5Tokenizers` runs both on any text: a step reads one pair of arguments (`AsciiArgument`), decodes
one character (`WcicuDecode`) or looks for one token (`AsciiToken`, `WcicuToken`), with any answer of
`xToken` and failures of memory, ICU and `output_token`. `TokensOfTheText` compares the calls of
`xToken` with a definition that does not scan (`Spans`): the maximal runs of token characters of
the text as a whole, where a byte's last mention in the arguments decides whether it is one, or the
characters before the first NUL with the marks that follow them. A byte or character is its class
(letter, mark, ignored, NUL, invalid) with the number of UTF-8 bytes and UTF-16 units; a token longer
than `FoldBuffer` (2, for the 64 of the code) needs a larger buffer. ICU's character boundaries are
external. Four bytes or characters have room for two tokens with a separator between them, for a
token that outgrows the fold buffer and a second one, and for a surrogate pair or a NUL on either
side of a boundary.

## Proofs

The eight proof modules follow one plan: an inductive invariant, a lemma for each action or group of
actions, and a temporal theorem that combines them. Constants are arbitrary but for the named
assumptions of the modules. Finiteness is assumed only where something is counted: for the threads
of `SQLiteDatabase` and for nothing else (the connections of the pool that are out are finitely many
at any time, which is proved). Four theorems have a condition on the constants in front, with the
reason given below.

**Pool: ownership.** `PoolInvariantHolds` is `Spec => []PoolInvariant`, for every number of threads,
waiters and connections, every set of configurations, switches and requests and every combination
of faults; `TypesHold`, `OwnershipIsExclusive`, `PrimaryIsSingle`, `QueueStaysInOrder` are its parts.
`ExclusiveOwnership` is not inductive alone. That `WakeAssign` gives a connection to nobody
twice rests on the waiter being unanswered, which the queue guarantees (`QueueInOrder`: queued
waiters have no assignment and no exception, and belong to the thread that waits with them); that
`CheckDone` picks up its own connection rests on a waiting thread having a waiter object of its
own and holding nothing (`WaitersInUse`, which also keeps the wake loop's position in the queue
and unused objects blank). Closing empties the queue in several steps, in which the pool is
closed and still has waiters: `ClosedDrains` says that the loop is under way then. Whether a
connection may be put back into the primary slot depends on there being only one
(`SinglePrimary`), and the slot not being taken is part of `ExclusiveOwnership`. Hence

    PoolInvariant == TypeOK /\ WaitersInUse /\ ClosedDrains
                     /\ QueueInOrder /\ ExclusiveOwnership /\ SinglePrimary

**Pool: what rests on it** (`SQLiteConnectionPoolSafety`).
- Cancellation. `Settled(t)` says of a waiting thread that its ticket is current, that it is in the
  queue or answered and unparked, and that nothing is cancelled unasked. Recycling a waiter object
  raises its nonce, so that the ticket of a thread that leaves while its listener may still run is
  behind. `CancellationHitsItsRequest`, `DequeuedWakesUp` and, while the pool is open,
  `CancellationFindsWaiter` follow.
- Wake-ups. `NoWakeupIsLost` is by `WakeScanned`: what the wake loop has passed cannot be served, and
  what its two flags say has run out has; when the lock is free it has passed everybody. Every step
  that makes room starts the loop from the front, except for two: `releaseConnection` closes an
  excess connection and a `reconfigure` that throws closes connections, both without waking
  anybody. The proof has to show that neither makes room for a waiter; for the first it compares
  counts before and after, for which the sets of connections must be finite (`AlwaysFinite`).
- Order. `GrantsAreInOrder` follows from `WakeScanned`, as those the loop has passed could not be
  served; `NobodyIsOvertaken` from how the queue is changed. Both are action properties.
- Configuration. `ConfigurationReachesAll` is about what is ready or will come back as it is;
  `ClosedPoolRefuses` about every step of a closed pool.
- The bound. `PoolStaysWithinBound` is under `PrimaryStays`, a condition on `Faults` and `Switches`:
  connections are not leaked and do not fail to be reconfigured, and only WAL mode changes the open
  flags (no change of WAL where opening may fail). Without it the code opens a primary connection
  uncounted (see Observations), so that the bound does not hold. `pool_core` is such an instance.
- The contract. `KeepsLeaseContract` proves `ImplementsContract`: each step of the pool is one of
  `ConnectionLease` or none. Assigning is the abstract grant, closing voids what is not picked up.

**Session.** `ConnectionHeldWhileNeeded` and `WaitingIsEmptyHanded` are parts of

    SessionInvariant == TypeOK /\ ConnectionWhileNeeded /\ WaitsEmptyHanded
                        /\ ConnectionsApart /\ PhaseMatchesStack /\ CallMatchesPhase
                        /\ EndingMatchesTop /\ BegunIsOpen

The use count is right after each path only because the phase says how deep the stack is
(`PhaseMatchesStack`: empty in `begin` and `finish`, not empty in `onEnd`) and the arguments of the
call are there until the transaction is begun, and begun again after a yield (`CallMatchesPhase`).
`BegunIsOpen` is half of `TransactionsMatch` and holds with every fault. The other half, that no
connection is left in a transaction, does not, as the finding shows; `TransactionsMatchAlways` and
`OwnTransactionStateAlways` have the condition that neither `COMMIT` nor `ROLLBACK` throws and leaves
the transaction open (`Faults \cap {"busy", "rollback"} = {}`): they show that these two are all
that is in the way.

`RefinesNestedTransaction` proves `ImplementsNestedTransaction` under all faults, from the invariant:
most steps are stuttering, `BEGIN` opens the abstract transaction, the pop of an inner level ends
it, and `EndingMatchesTop` gives that the mark `finish` takes from `ending` is that of the level
popped before.

**Connection.** `StatementsStayAccounted`, `CancelHitsOwnOperationAlways` and `EndsOwnEntryAlways`, for any
cache and log size, number of signals, and depth of nesting, from

    ConnectionInvariant == TypeOK /\ StatementsAccounted /\ OperationsNest /\ AttachmentsCounted

`CancelHitsOwnOperation` is not inductive: the native flag is reset by whoever attaches first and by
whoever detaches last, so that one has to know who that is. `AttachmentsCounted` says that the count
is the number of operations between attaching and detaching, that the handler is installed while
there is one, and that only the outermost is listened to, once it got past `setOnCancelListener`,
which is also when the flag can first be set for it. `OperationsNest` (all but the last
operation are in their statement) gives that the outermost to attach is the last to detach.

**Cursor.** `ContiguousHolds`, `RequiredRowHolds`, `FillResultHolds` and `TypesHold` hold for windows,
rows and results of any size, from

    CursorInvariant == TypeOK /\ WindowContiguous /\ FillInvariant

`FillInvariant` is the loop invariant of the native code, which is nowhere written down there: until
a row has been turned away the window ends at the current row; afterwards its end is a row for which
there was no room, and it is behind the required row unless that row fits no window at all. The
type invariant has some weight here: that start positions and row counts stay natural numbers is
what `cursorPickFillWindowStartPosition` has its case distinction for.

**Database.** `PoolOutlivesOperations`, `ConfigurationsAlwaysAgree` and `WalRefusedOnAttached` for any
number of threads, operations and closes, from

    DatabaseInvariant == TypeOK /\ ReferencesCounted /\ IdleHasNoOperation /\ Unopened
                         /\ DisposedUnreferenced /\ ConfigurationsAgree

`ReferencesCounted` is an equation: the count is one, less a reference per close, plus the threads in
an operation, plus those whose handler lists attached databases. While there was at most one close
and some thread is in an operation it is thus positive, and `DisposedUnreferenced` says that the pool
is open then. WAL is refused because every database attached, or about to be, is behind the flag
(`AttachedIsFlagged`), which an action property then uses.

**ORM.** `UpgradesKeepRows`, `HandedDatabasesAreUpgraded` and `VersionsMeanSchemas`, for any number of
threads, databases, tables, rows, versions and helpers, any lists of tables without repetitions, any
upgrades at once, and any failures and crashes. `RegistryInvariant` (in `ModuleDBProofs`) has two layers.
- The content an upgrade works on, by how far it is (`Stage`): while *copying*, the tables passed are
  also aside; when *rebuilding*, all are, and tables may go; while *restoring*, every table is kept,
  still aside, or excused, and a text left in the builder (`stale`) means that all tables still to
  come are excused; while *sweeping* and *deleting*, all is back and only temporary tables and those
  of the delete list go. A round of the rebuilding leaves a table of the update list in its own form or
  `astray`, whatever is in `dbName` (`RebuiltFacts`), and there is a name in it from the first step
  on. What is committed is a file as it was found or one that has been through
  all stages (`FileOk`).
- The registry. Without a lock, what makes it correct is that whatever refers to a helper with an
  open database, an instance's field or a thread on its way, refers to one whose file is ready
  (`InstanceOk`, `ThreadOk`), and a ready file stays ready. That two helpers do not upgrade
  one file at a time is SQLite's exclusive transaction (`writing`). The version is read before it:
  another helper may have upgraded the file in between, and the upgrade then runs again on a new
  file, which the stages allow for, as they say what is in the tables and not which version the
  file has.

`Found`, part of the assumption on the files at the start, says that they are consistent. The theorem
on versions has the condition `NoTempsAtFirst`, no file has temporary tables when it is found: others
than those of the update list would stay. Whose list was taken is an invariant of its own
(`AstrayInvariant`): `dbName` names a database that was found with tables to update, so that only
another such database leads an upgrade astray. It follows that where at most one database has tables
to update every upgrade takes its own list (`OneUpgradeTakesItsOwnList`), and the exceptions are void.

**Tokenizers.** `TokensAreOfTheText` and `RefusalAlwaysEndsAscii`, for texts and argument lists of any
length, from

    TokenizersInvariant == TokenizersType /\ (tokenizer = "ascii" => AsciiInvariant)
                           /\ (tokenizer = "wcicu" => WcicuInvariant) /\ TokensOfTheText

- ascii: while arguments are read, the table is what the pairs so far say (`IsTokenCharAfter`);
  while tokens are looked for, no run straddles the position (`MayStart`: it is behind a separator,
  or at either end), and every run in front of it has been put out. `AsciiToken` then puts out
  the first run that is left, which is what makes the loop's `is = ie + 1` right.
- wcicu: `Decoded` relates buffer and offset table to the characters read: the entry at the unit behind
  character j is the number of bytes of the first j characters, whatever the entries in between
  hold. The boundaries are the ends of characters no mark follows (`BoundariesAre`), so that
  `current` is always one of them (`UpTo(c)`), and all groups of characters before it have been put
  out or lost; between two boundaries that follow each other there is one group or an ignored one
  (`NextGroup`). That the offsets of a token are those of its group follows from `Decoded`.
- Bytes and units of a prefix are recursive functions. What is needed of them (they are sums, and
  increase) is proved without an induction theorem, by the least number at which it would fail.
  `Least`, that there is one, is by a well-founded order: the intervals up to the members of a set
  of numbers are finite sets, and strict inclusion of finite sets is well-founded.

Each property has its theorem beside the run that checks it (`PROJECT.json`, "theorems"), and
`pool_cancel`, `pool_core`, `session_main`, `connection_main`, `cursor_window` and `database_main` check
the invariants above with TLC, whole or in parts. Only model-checked remains liveness
(`EveryRequestAnswered`, `CanceledRequestEnds`, `ClosedPoolLetsGo`, `EveryWaitEnds`,
`CanceledOperationEnds`, `ClosedEventually`): fairness and `ENABLED` are out of the prover's reach.

## Finding

**A `COMMIT` that throws leaves its transaction to the next session** (`SQLiteSession.java:441`,
run `session_commit_busy`). The connection goes back to the pool whatever `COMMIT` did. The class
comment (line 54) says each thread has its own transaction state.

## Observations

Definitions marked "Not so" in the modules state what one would expect, or a comment says, and are
violated. They are kept as documentation next to what does hold, and no run checks them.

- `OwnedByPoolOrSession` (pool, line 681): a waiting thread throws because the pool is closed before
  it looks at the connection it was assigned, which stays open until its finalizer runs.
- `CancelFindsWaiter` (pool, line 722): closing unlinks all waiters without answering them; a
  cancellation delivered next passes the nonce check and dereferences null. It holds while the pool
  is open.
- `PrimaryIsExclusive` (pool, line 540): reopened for writing, the pool makes a second primary
  connection while a session still has the first.
- A leaked primary connection is reopened without counting: the maximum can be exceeded by one.
- `InUseProtected` (connection, line 916): `acquirePreparedStatement` returns a cached statement
  without setting `mInUse`. A custom function that runs the SQL text it was called from gets the
  same statement and resets it; one that runs others can have it evicted and finalized.
- `RequiredRowMust` (cursor, `android_database_SQLiteConnection.cpp:838`): a row larger than a
  window, in front of the required one, ends the copying; the cursor moves to a row it does not have.
- `AttachedHasNoWal` (database, line 1666): a second `ATTACH` finds the flag set and runs while the
  first has yet to disable WAL, or after it failed to.
- `TransactionCanEnd` (database): a transaction of a database that another thread closed cannot be
  ended, and its connection does not come back. A second `close` takes the reference of an operation
  under way.
- `OwnListsOnly` (`ModuleDBMigrationHelper.kt`, lines 48 and 195): two threads that have both found
  `mInstance` null upgrade two databases at once; the second assigns `dbName` before `buildTables` of
  the first reads it, and the first commits the new version without its tables, or with tables of the
  same names made for the other database, which its rows may not fit. No version number tells.
- `HandedAsAsked` (`ModuleDB.kt`): threads that ask for different databases may be handed each
  other's, a closed one, or a null pointer exception.
- `restoreTable` (`ModuleDBMigrationHelper.kt:328`): a failed `INSERT` stays in the builder, so that no
  later table of the list is restored. `UpgradeKeepsRows` says so, and that nothing worse happens.
  Called from `migrateAllTable`, which nothing calls, it removes from the list it iterates over.
- `WcicuKeepsContract` (`wcicu_tokenizer.c:229`): refusals of `xToken` are not looked at, and a text
  that ends with ignored characters returns `SQLITE_DONE` with cursor and iterator not freed.

## Hazards without a property

`PROJECT.json` lists every hazard with its line. Those without a property have a note. Apart from
the observations above they are: the remaining busy timeout computed with the wrong sign (pool, line
695), which makes a waiter spin, as parking is not timed in the model; and a transaction that SQLite
undoes by itself after a failed statement, which the session never learns. Not listed there, as they
are by design or beyond any run: starvation of low priorities, and the wrap-around of the operation
log's generation, after which a late end could match again.

## Not modelled

- Vendored and generated code: `sqlite3.h`, the ICU headers and the JNI helpers. They are most of the
  lines of C and C++ in the repository (over 100,000), whereas the logic of the two libraries is some
  thousand lines of Java and Kotlin, with the loops of `android_database_SQLiteConnection.cpp` and the
  tokenizers below it; these are what the modules translate.
- Of the pool, `enableLocalizedCollators`, `collectDbStats`, `dump` and `shouldYieldConnection`; of the
  connection, its PRAGMAs at opening and `reconfigure` (one step of the pool module), binding of
  arguments; of the database object, `setLocale`, `setMaxSqlCacheSize` and `addCustomFunction`, which
  have the pattern of the setters without a refusal; of the cursor, `close`.
- Of the open helper, the read-only fallback and `onDowngrade`; of the migration, `migrateAllTable`,
  which nothing calls, tables whose own names end with the suffix of temporary ones, and columns; of the
  tokenizers, the branch for ideographic words, which character boundaries never enter,
  normalisation and case folding.
- Builders of SQL text (`ModuleDBSqlUtils.kt`, `SQLiteQueryBuilder`), the annotation processor, which
  writes classes at compile time, diagnostics and the demo application: they keep no state, and what
  they could get wrong is the text itself.

## What could follow

In this order: a composition of `SQLiteDatabase` with `SQLiteSession` in place of its reduced
sessions, with the step from one contract to the next proved; connections other than the primary one
in `SQLiteDatabase`; the branches named under Not modelled, of the helper and the pool first.
