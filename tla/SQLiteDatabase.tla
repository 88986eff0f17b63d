-------------------------- MODULE SQLiteDatabase --------------------------
(***************************************************************************)
(* A database object: its reference count (SQLiteClosable), the pool it    *)
(* owns, its configuration, and the operations of several threads on it    *)
(* (SQLiteDatabase.java), with the handler of a corrupt database           *)
(* (DefaultDatabaseErrorHandler.java).                                     *)
(*                                                                          *)
(* The pool is reduced to what the database sees of it: whether it is      *)
(* open, the configuration it has applied, and who holds its primary       *)
(* connection; the module SQLiteConnectionPool has the rest.  An operation *)
(* is a call of the database, which takes a reference, or the execution of *)
(* a compiled statement, which takes none on the database.                 *)
(***************************************************************************)
EXTENDS Integers, FiniteSets

CONSTANTS
  Thread,         \* threads that use the database
  MaxOperations,  \* bound: operations and configuration changes begun
  MaxCloses,      \* bound: calls of close by the application
  None            \* no thread

\* Operations that acquire a reference; a compiled statement only takes its own.
Referencing == {"begin", "end", "exec", "attach"}

ASSUME DatabaseAssumption ==
  /\ IsFiniteSet(Thread)
  /\ MaxOperations \in Nat
  /\ MaxCloses \in Nat
  /\ None \notin Thread \cup Referencing \cup {"statement"}

VARIABLES
  opening,        \* progress of open()
  refs,           \* mReferenceCount
  poolRef,        \* mConnectionPoolLocked is not null
  pool,           \* the pool: none yet, open or closed
  config,         \* mConfigurationLocked
  poolConfig,     \* the pool's mConfiguration
  hasAttachedDbs, \* mHasAttachedDbsLocked
  attached,       \* the primary connection has an attached database
  holder,         \* thread whose session has the primary connection
  discarded,      \* threads whose session has a connection marked DISCARD
  session,        \* threads that have a session
  transaction,    \* threads whose session is in a transaction
  op,             \* operation of each thread
  pc,             \* where each thread is in it
  then,           \* where it goes on after dispose
  closes,         \* calls of close so far
  operations      \* operations begun

countVars == <<closes, operations>>
sessionVars == <<holder, discarded, session, transaction>>
configVars == <<config, poolConfig, hasAttachedDbs, attached>>
vars == <<opening, refs, poolRef, pool, configVars, sessionVars, op, pc, then, countVars>>

Configurations == [readOnly : BOOLEAN, wal : BOOLEAN, foreignKeys : BOOLEAN]

Holds(t) == holder = t \/ t \in discarded
AcquiredBy == {t \in Thread : Holds(t)}

Goto(t, l) == pc' = [pc EXCEPT ![t] = l] /\ UNCHANGED then

-----------------------------------------------------------------------------
(* SQLiteClosable.                                                         *)

\* acquireReference, which throws for an object already closed.  (Bug: it does
\* not look.)
MayAcquire_Always == TRUE
MayAcquire == refs > 0

\* releaseReference finds the count zero after its decrement.  (Bug: before it.)
LastReference_Before == refs = 0
LastReference == refs = 1

\* releaseReference, after which t goes on at l; the last one disposes first.
Release(t, l) ==
  /\ refs' = refs - 1
  /\ IF LastReference
     THEN pc' = [pc EXCEPT ![t] = "dispose"] /\ then' = [then EXCEPT ![t] = l]
     ELSE Goto(t, l)

\* dispose, under the lock.
Dispose(t) ==
  /\ pc[t] = "dispose"
  /\ poolRef' = FALSE
  /\ Goto(t, IF poolRef THEN "closePool" ELSE then[t])
  /\ UNCHANGED <<opening, refs, pool, configVars, sessionVars, op, countVars>>

\* dispose, outside of it.
ClosePool(t) ==
  /\ pc[t] = "closePool"
  /\ pool' = "closed"
  /\ attached' = (attached /\ holder # None)
  /\ Goto(t, then[t])
  /\ UNCHANGED <<opening, refs, poolRef, config, poolConfig, hasAttachedDbs, sessionVars, op,
                 countVars>>

\* close() by the application.
Close(t) ==
  /\ opening = "done" /\ pc[t] = "idle" /\ closes < MaxCloses
  /\ closes' = closes + 1
  /\ Release(t, "idle")
  /\ UNCHANGED <<opening, poolRef, pool, configVars, sessionVars, op, operations>>

-----------------------------------------------------------------------------
(* Opening.                                                                *)

OpenInner ==
  /\ opening \in {"first", "second"}
  /\ opening' = "done"
  /\ poolRef' = TRUE
  /\ pool' = "open"
  /\ poolConfig' = config
  /\ UNCHANGED <<refs, config, hasAttachedDbs, attached, sessionVars, op, pc, then, countVars>>

\* SQLiteDatabaseCorruptException: the error handler deletes the file.
OpenCorrupt ==
  /\ opening = "first"
  /\ opening' = "second"
  /\ UNCHANGED <<refs, poolRef, pool, configVars, sessionVars, op, pc, then, countVars>>

\* Any other SQLiteException, or the second one: close, with no pool to close.
OpenFails ==
  /\ opening \in {"first", "second"}
  /\ opening' = "failed"
  /\ refs' = refs - 1
  /\ UNCHANGED <<poolRef, pool, configVars, sessionVars, op, pc, then, countVars>>

-----------------------------------------------------------------------------
(* Configuration changes, each under the lock.                             *)

\* SQLiteConnectionPool.reconfigure refuses two changes while connections are
\* acquired, and opens a new primary connection for other open flags.
Accepts(k) ==
  k.wal # poolConfig.wal \/ k.foreignKeys # poolConfig.foreignKeys => AcquiredBy = {}
Reopens(k) == k.wal # poolConfig.wal \/ k.readOnly # poolConfig.readOnly

Applied(k) ==
  /\ pool = "open" /\ Accepts(k)
  /\ config' = k
  /\ poolConfig' = k
  /\ IF Reopens(k)
     THEN attached' = FALSE /\ holder' = None /\ discarded' = AcquiredBy
     ELSE UNCHANGED <<attached, holder, discarded>>

\* The catch clause of each setter.  (Bug: the new value stays.)
RolledBack_Kept(k) == k
RolledBack(k) == config

\* It throws: for a change of WAL mode the pool has closed its connections before
\* it tries to open one.
NotApplied(k) ==
  /\ pool # "open" \/ ~Accepts(k) \/ Reopens(k)
  /\ config' = RolledBack(k)
  /\ attached' = (attached /\ (pool = "open" /\ Accepts(k) => k.wal = poolConfig.wal))
  /\ UNCHANGED <<poolConfig, holder, discarded>>

\* (Bug: attached databases are not looked at.)
MayEnableWal_Attached == ~config.wal /\ ~config.readOnly
MayEnableWal == ~config.wal /\ ~config.readOnly /\ ~hasAttachedDbs

\* reopenReadWrite, setForeignKeyConstraintsEnabled, enableWriteAheadLogging and
\* disableWriteAheadLogging, where they do not return at once.
Setter(k) ==
  \/ config.readOnly /\ k = [config EXCEPT !.readOnly = FALSE]
  \/ k = [config EXCEPT !.foreignKeys = ~@]
  \/ MayEnableWal /\ k = [config EXCEPT !.wal = TRUE]
  \/ config.wal /\ k = [config EXCEPT !.wal = FALSE]

Configure(t) ==
  /\ poolRef /\ pc[t] = "idle" /\ operations < MaxOperations
  /\ operations' = operations + 1
  /\ \E k \in Configurations : Setter(k) /\ (Applied(k) \/ NotApplied(k))
  /\ UNCHANGED <<opening, refs, poolRef, pool, hasAttachedDbs, session, transaction, op, pc, then,
                 closes>>

-----------------------------------------------------------------------------
(* Operations.                                                             *)

Begin(t, o, l) ==
  /\ opening = "done" /\ pc[t] = "idle"
  /\ op' = [op EXCEPT ![t] = o]
  /\ Goto(t, l)
  /\ UNCHANGED <<opening, poolRef, pool, configVars, sessionVars, closes>>

\* beginTransaction, compileStatement, insert, executeSql...
BeginOperation(t) ==
  /\ MayAcquire /\ operations < MaxOperations
  /\ refs' = refs + 1
  /\ operations' = operations + 1
  /\ \/ t \notin transaction /\ Begin(t, "begin", "execute")
     \/ Begin(t, "exec", "execute")
     \/ Begin(t, "attach", "attach")

\* endTransaction.
BeginEnd(t) ==
  /\ t \in transaction /\ MayAcquire
  /\ refs' = refs + 1
  /\ Begin(t, "end", "run")
  /\ UNCHANGED operations

\* A compiled statement, whatever has become of the database.
BeginStatement(t) ==
  /\ operations < MaxOperations
  /\ operations' = operations + 1
  /\ Begin(t, "statement", "execute")
  /\ UNCHANGED refs

\* executeSql for an ATTACH, under the lock.
AttachFlag(t) ==
  /\ pc[t] = "attach"
  /\ hasAttachedDbs' = TRUE
  /\ Goto(t, IF hasAttachedDbs THEN "execute" ELSE "disableWal")
  /\ UNCHANGED <<opening, refs, poolRef, pool, config, poolConfig, attached, sessionVars, op,
                 countVars>>

\* The first ATTACH calls disableWriteAheadLogging; the flag stays if it throws.
AttachDisablesWal(t) ==
  LET k == [config EXCEPT !.wal = FALSE] IN
  /\ pc[t] = "disableWal"
  /\ \/ /\ poolRef /\ (config.wal => Applied(k))
        /\ ~config.wal => UNCHANGED <<config, poolConfig, attached, holder, discarded>>
        /\ Goto(t, "execute")
     \/ /\ IF poolRef THEN config.wal /\ NotApplied(k)
           ELSE UNCHANGED <<config, poolConfig, attached, holder, discarded>>
        /\ Goto(t, "leave")
  /\ UNCHANGED <<opening, refs, poolRef, pool, hasAttachedDbs, session, transaction, op,
                 countVars>>

\* getThreadSession, and the connection the session has or acquires.
GetConnection(t, l) ==
  /\ t \in session \/ poolRef
  /\ session' = session \cup {t}
  /\ Holds(t) \/ (pool = "open" /\ holder = None)
  /\ holder' = IF Holds(t) THEN holder ELSE t
  /\ Goto(t, l)

Execute(t) ==
  /\ pc[t] = "execute"
  /\ GetConnection(t, "run")
  /\ UNCHANGED <<opening, refs, poolRef, pool, configVars, discarded, transaction, op, countVars>>

\* There is no session to be had, or the pool has been closed.
NoConnection(t) ==
  \/ t \notin session /\ ~poolRef
  \/ ~Holds(t) /\ pool = "closed"

ExecuteRefused(t) ==
  /\ pc[t] = "execute" /\ NoConnection(t)
  /\ session' = IF poolRef THEN session \cup {t} ELSE session
  /\ Goto(t, "leave")
  /\ UNCHANGED <<opening, refs, poolRef, pool, configVars, holder, discarded, transaction, op,
                 countVars>>

\* The session gives its connection back unless it is in a transaction.
GiveBack(t, inTransaction) ==
  /\ transaction' = inTransaction
  /\ holder' = IF holder = t /\ t \notin inTransaction THEN None ELSE holder
  /\ discarded' = IF t \notin inTransaction THEN discarded \ {t} ELSE discarded

\* SQLite refuses ATTACH within a transaction.
Run(t) ==
  /\ pc[t] = "run"
  /\ op[t] = "attach" => t \notin transaction
  /\ GiveBack(t, CASE op[t] = "begin" -> transaction \cup {t}
                   [] op[t] = "end"   -> transaction \ {t}
                   [] OTHER           -> transaction)
  /\ attached' = ((attached \/ (op[t] = "attach" /\ holder = t)) /\ (pool = "closed" => holder # t))
  /\ Goto(t, "leave")
  /\ UNCHANGED <<opening, refs, poolRef, pool, config, poolConfig, hasAttachedDbs, session, op,
                 countVars>>

\* It throws; corruption goes to the error handler first, except in the BEGIN and
\* COMMIT of a session.
RunThrows(t) ==
  /\ pc[t] = "run" /\ op[t] # "end"
  /\ GiveBack(t, transaction)
  /\ attached' = (attached /\ (pool = "closed" => holder # t))
  /\ \/ Goto(t, "leave")
     \/ op[t] # "begin" /\ Goto(t, "isOpen")
  /\ UNCHANGED <<opening, refs, poolRef, pool, config, poolConfig, hasAttachedDbs, session, op,
                 countVars>>

\* The finally clause.
Leave(t) ==
  /\ pc[t] = "leave"
  /\ op' = [op EXCEPT ![t] = None]
  /\ IF op[t] \in Referencing THEN Release(t, "idle") ELSE Goto(t, "idle") /\ UNCHANGED refs
  /\ UNCHANGED <<opening, poolRef, pool, configVars, sessionVars, countVars>>

-----------------------------------------------------------------------------
(* DefaultDatabaseErrorHandler.onCorruption.                               *)

handlerVars == <<opening, pool, configVars, sessionVars, op, operations>>

\* A database that is not open only has its file deleted.
HandlerIsOpen(t) ==
  /\ pc[t] = "isOpen"
  /\ Goto(t, IF poolRef THEN "getAttached" ELSE "leave")
  /\ UNCHANGED <<handlerVars, refs, poolRef, closes>>

\* getAttachedDbs, under the lock.  acquireReference throws an exception the
\* handler does not catch.
HandlerGetAttached(t) ==
  /\ pc[t] = "getAttached"
  /\ IF poolRef /\ hasAttachedDbs
     THEN IF MayAcquire THEN refs' = refs + 1 /\ Goto(t, "list")
                        ELSE UNCHANGED refs /\ Goto(t, "leave")
     ELSE UNCHANGED refs /\ Goto(t, "handlerClose")
  /\ UNCHANGED <<handlerVars, poolRef, closes>>

\* "pragma database_list", with a connection if it can have one.
HandlerList(t) ==
  /\ pc[t] = "list"
  /\ \/ (Holds(t) \/ holder = None) /\ pool = "open" /\ Release(t, "handlerClose")
     \/ NoConnection(t) /\ Release(t, "leave")
  /\ UNCHANGED <<handlerVars, poolRef, closes>>

\* "Close the database, which will cause subsequent operations to fail"; the files
\* are deleted then.
HandlerClose(t) ==
  /\ pc[t] = "handlerClose"
  /\ closes' = closes + 1
  /\ Release(t, "leave")
  /\ UNCHANGED <<handlerVars, poolRef>>

-----------------------------------------------------------------------------
Init ==
  /\ opening = "first"
  /\ refs = 1
  /\ poolRef = FALSE
  /\ pool = "none"
  /\ config \in {k \in Configurations : ~k.foreignKeys}
  /\ poolConfig = config
  /\ hasAttachedDbs = FALSE
  /\ attached = FALSE
  /\ holder = None
  /\ discarded = {}
  /\ session = {}
  /\ transaction = {}
  /\ op = [t \in Thread |-> None]
  /\ pc = [t \in Thread |-> "idle"]
  /\ then = [t \in Thread |-> "idle"]
  /\ closes = 0
  /\ operations = 0

Open == OpenInner \/ OpenCorrupt \/ OpenFails

Handler(t) ==
  HandlerIsOpen(t) \/ HandlerGetAttached(t) \/ HandlerList(t) \/ HandlerClose(t)

\* A thread goes on with what it has begun.
Proceed(t) ==
  \/ AttachFlag(t) \/ AttachDisablesWal(t) \/ Execute(t) \/ ExecuteRefused(t)
  \/ Run(t) \/ RunThrows(t) \/ Leave(t) \/ Handler(t) \/ Dispose(t) \/ ClosePool(t)

Next ==
  \/ Open
  \/ \E t \in Thread :
       \/ BeginOperation(t) \/ BeginEnd(t) \/ BeginStatement(t)
       \/ Close(t) \/ Configure(t) \/ Proceed(t)

Spec == Init /\ [][Next]_vars

\* Threads finish their operations and end the transactions they have begun; a
\* connection that comes back again and again is given to every one who waits.
FairSpec ==
  /\ Spec
  /\ \A t \in Thread : SF_vars(Proceed(t)) /\ WF_vars(BeginEnd(t))

-----------------------------------------------------------------------------
(* Properties.                                                             *)

\* Every variable has its type.
TypeOK ==
  /\ opening \in {"first", "second", "done", "failed"}
  /\ refs \in Int
  /\ poolRef \in BOOLEAN
  /\ pool \in {"none", "open", "closed"}
  /\ config \in Configurations /\ poolConfig \in Configurations
  /\ hasAttachedDbs \in BOOLEAN /\ attached \in BOOLEAN
  /\ holder \in Thread \cup {None}
  /\ discarded \subseteq Thread /\ session \subseteq Thread /\ transaction \subseteq Thread
  /\ op \in [Thread -> Referencing \cup {"statement", None}]
  /\ pc \in [Thread -> {"idle", "attach", "disableWal", "execute", "run", "leave", "isOpen",
                        "getAttached", "list", "handlerClose", "dispose", "closePool"}]
  /\ then \in [Thread -> {"idle", "leave", "handlerClose"}]
  /\ closes \in Nat
  /\ operations \in 0 .. MaxOperations

\* Threads in an operation that has a reference.
Users == {t \in Thread : op[t] \in Referencing}

\* Threads whose error handler has one.
Listing == {t \in Thread : pc[t] = "list"}

\* Each close gives back one reference, the first that of the object itself.
ReferencesCounted ==
  opening = "done" => refs = 1 - closes + Cardinality(Users) + Cardinality(Listing)

\* A thread between two operations has none, nor one that closes an idle database.
IdleHasNoOperation ==
  \A t \in Thread :
    \/ pc[t] = "idle"
    \/ pc[t] \in {"dispose", "closePool"} /\ then[t] = "idle"
    => op[t] = None

\* Nobody has the object before it is open.
Unopened ==
  opening # "done" =>
    /\ \A t \in Thread : pc[t] = "idle"
    /\ closes = 0
    /\ opening # "failed" => refs = 1

\* The pool is let go of when the count is zero, and then never taken up again.
DisposedUnreferenced ==
  opening = "done" /\ refs > 0 =>
    /\ poolRef /\ pool = "open"
    /\ \A t \in Thread : pc[t] \notin {"dispose", "closePool"}

\* The pool of a database is not closed while an operation has a reference to it,
\* unless the database has been closed more often than once: every way out of an
\* operation, error handler included, gives back what was taken and no more.
OpenWhileReferenced == closes <= 1 /\ Users # {} => poolRef /\ pool = "open"

\* The database's configuration is the one its pool has applied, whichever changes
\* were refused or failed on the way.
ConfigurationsAgree == opening = "done" => config = poolConfig

\* The inductive invariant.
DatabaseInvariant ==
  /\ TypeOK /\ ReferencesCounted /\ IdleHasNoOperation /\ Unopened /\ DisposedUnreferenced
  /\ ConfigurationsAgree

\* Every database attached, or about to be, is behind mHasAttachedDbsLocked.
AttachedIsFlagged ==
  /\ attached => hasAttachedDbs
  /\ \A t \in Thread :
       op[t] = "attach" /\ pc[t] \in {"disableWal", "execute", "run"} => hasAttachedDbs

\* "this database has NO attached databases because sqlite's write-ahead-logging
\* doesn't work for databases with attached databases": it is not enabled then,
\* an ATTACH by another thread included.
WalNotEnabledOnAttached == [][config'.wal /\ ~config.wal => ~attached]_vars

\* A database that was closed does close its pool, once the operations begun have
\* ended.
ClosedEventually == closes > 0 ~> pool = "closed"

\* Not so: a second ATTACH finds the flag set and runs while the first has yet to
\* disable WAL, or after it could not.
\* "If the database has any attached databases, then execution of queries in
\* parallel is NOT possible."
AttachedHasNoWal == attached => ~poolConfig.wal

\* Not so: the end of a transaction needs a reference of its own.
\* "threads that have active connections to the database may still have work to
\* complete even after the call to close": such as the end of a transaction.
TransactionCanEnd ==
  \A t \in transaction : pc[t] = "idle" => MayAcquire

=============================================================================
