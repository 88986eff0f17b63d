------------------------- MODULE SQLiteConnection -------------------------
(***************************************************************************)
(* One database connection (SQLiteConnection.java and, below it,           *)
(* android_database_SQLiteConnection.cpp): the cache of prepared           *)
(* statements, the cancellation of the operation in progress and the log   *)
(* of recent operations.                                                   *)
(*                                                                         *)
(* One thread at a time uses a connection (module SQLiteConnectionPool).   *)
(* Its operations nest, because a statement may call a custom function,    *)
(* which is code of the application and may run statements of its own on   *)
(* the same connection.  Other threads only cancel.                        *)
(*                                                                         *)
(* A native statement and the PreparedStatement object that refers to it   *)
(* are one element of Stmt, from nativePrepareStatement until              *)
(* finalizePreparedStatement.                                              *)
(***************************************************************************)
EXTENDS Naturals, FiniteSets, SequencesExt

CONSTANTS
  Sql,           \* SQL texts
  Cacheable,     \* those isCacheable says yes to: SELECT, INSERT, UPDATE, DELETE
  Stmt,          \* native statements
  Signal,        \* CancellationSignal objects
  None,          \* null
  CacheSize,     \* maxSqlCacheSize
  RecentOps,     \* MAX_RECENT_OPERATIONS
  Faults,        \* what goes wrong: "prepare", "bind", "step"
  MaxDepth,      \* bound: operations in progress
  MaxOperations  \* bound: operations begun

ASSUME ConnectionAssumption ==
  /\ None \notin Sql \cup Stmt \cup Signal
  /\ Cacheable \subseteq Sql
  /\ CacheSize \in Nat \ {0}
  /\ RecentOps \in Nat \ {0}
  /\ MaxDepth \in Nat
  /\ MaxOperations \in Nat

VARIABLES
  open,        \* mConnectionPtr is not 0
  sqlOf,       \* the SQL of each native statement, None if there is no such statement
  inUse,       \* mInUse
  inCache,     \* mInCache
  cache,       \* mPreparedStatementCache, least recently used first
  ops,         \* operations in progress, outermost first
  attached,    \* mCancellationSignalAttachCount
  progress,    \* the progress handler is installed
  canceled,    \* connection->canceled, which the progress handler returns
  isCanceled,  \* signals that have been canceled
  listening,   \* signals whose listener is this connection
  canceling,   \* signals inside cancel(), about to call onCancel
  log,         \* mOperations
  generation   \* mGeneration

statementVars == <<sqlOf, inUse, inCache, cache>>
cancelVars == <<attached, progress, canceled, isCanceled, listening, canceling>>
logVars == <<log, generation>>
vars == <<open, statementVars, ops, cancelVars, logVars>>

-----------------------------------------------------------------------------
(* The log of recent operations.                                           *)

\* newOperationCookieLocked: a cookie is a generation and, with it, an index.
IndexOf(cookie) == (cookie + 1) % RecentOps

\* beginOperation, for an operation that is not over, or is if prepare fails.
Logged(finished, failed) ==
  /\ generation' = generation + 1
  /\ log' = [log EXCEPT ![IndexOf(generation)] =
               [cookie |-> generation, finished |-> finished, failed |-> failed]]

\* getOperationLocked: the entry is still that of this operation.  (Bug: taken
\* for granted.)
IsEntryOf_Always(cookie) == TRUE
IsEntryOf(cookie) == log[IndexOf(cookie)].cookie = cookie

\* failOperation, if an exception was thrown, and endOperation.
LogEnd(cookie, thrown) ==
  /\ log' = IF IsEntryOf(cookie)
            THEN [log EXCEPT ![IndexOf(cookie)].finished = TRUE,
                             ![IndexOf(cookie)].failed = thrown]
            ELSE log
  /\ UNCHANGED generation

-----------------------------------------------------------------------------
(* Prepared statements.                                                    *)

Live == {s \in Stmt : sqlOf[s] # None}

CachedFor(q) == {s \in Range(cache) : sqlOf[s] = q}

\* LruCache.remove.
Without(s) ==
  IF s \in Range(cache) THEN RemoveAt(cache, CHOOSE i \in DOMAIN cache : cache[i] = s) ELSE cache

\* LruCache.get: what was found becomes the most recently used.
Touched(q) ==
  LET found == CHOOSE s \in CachedFor(q) : TRUE
  IN  IF CachedFor(q) = {} THEN cache ELSE Append(Without(found), found)

\* entryRemoved for each of S: finalized unless in use.
Finalizes(S) == S \ inUse

\* entryRemoved clears mInCache.
FlagsWithout(S) == inCache \ S

\* put: the eldest is pushed out of a full cache.
PushedOut(full) == IF Len(full) > CacheSize THEN {Head(full)} ELSE {}
Trimmed(full) == IF Len(full) > CacheSize THEN Tail(full) ELSE full

Unprepared(S) == [s \in Stmt |-> IF s \in S THEN None ELSE sqlOf[s]]

Held == {ops[i].statement : i \in DOMAIN ops}

\* A statement two operations have, or one has that was finalized: what SQLite
\* does with it is undefined, and the model ends here.
Corrupt ==
  \E i \in DOMAIN ops :
    \/ sqlOf[ops[i].statement] = None
    \/ \E j \in DOMAIN ops \ {i} : ops[i].statement = ops[j].statement

-----------------------------------------------------------------------------
(* Operations: execute, executeForLong, executeForString,                  *)
(* executeForBlobFileDescriptor, executeForChangedRowCount,                *)
(* executeForLastInsertedRowId and executeForCursorWindow.                 *)

Top == Last(ops)
At(pc) == ops # <<>> /\ Top.pc = pc

\* The thread that has the connection calls one of them: nothing is in
\* progress, or a custom function called by what is.
MayBegin ==
  /\ open
  /\ ops = <<>> \/ At("running")
  /\ Len(ops) < MaxDepth
  /\ generation < MaxOperations

Operation(s, g) ==
  [statement |-> s, signal |-> g, pc |-> "bind", outcome |-> "none", cookie |-> generation]

Goto(pc) == ops' = [ops EXCEPT ![Len(ops)].pc = pc]
Ends(pc, outcome) ==
  ops' = [ops EXCEPT ![Len(ops)].pc = pc, ![Len(ops)].outcome = outcome]

\* acquirePreparedStatement finds a statement in the cache that is not marked.
\* It is not marked now either.
UseCached(q, g) ==
  /\ MayBegin
  /\ \E s \in CachedFor(q) \ inUse : ops' = Append(ops, Operation(s, g))
  /\ cache' = Touched(q)
  /\ Logged(FALSE, FALSE)
  /\ UNCHANGED <<open, sqlOf, inUse, inCache, cancelVars>>

\* It finds none, or one that is marked; a new statement is prepared and, in
\* the first case, put into the cache, which may push out the eldest.
UsePrepared(q, g) ==
  LET kept(s) == IF CachedFor(q) = {} /\ q \in Cacheable THEN <<s>> ELSE <<>>
      full(s) == Touched(q) \o kept(s)
      out(s) == PushedOut(full(s))
  IN
  /\ MayBegin
  /\ CachedFor(q) \subseteq inUse
  /\ \E s \in Stmt \ Live :
       /\ cache' = Trimmed(full(s))
       /\ sqlOf' = [Unprepared(Finalizes(out(s))) EXCEPT ![s] = q]
       /\ inCache' = FlagsWithout(out(s)) \cup Range(kept(s))
       /\ inUse' = inUse \cup {s}
       /\ ops' = Append(ops, Operation(s, g))
  /\ Logged(FALSE, FALSE)
  /\ UNCHANGED <<open, cancelVars>>

\* nativePrepareStatement throws.
PrepareThrows(q) ==
  /\ "prepare" \in Faults
  /\ MayBegin
  /\ CachedFor(q) \subseteq inUse
  /\ cache' = Touched(q)
  /\ Logged(TRUE, TRUE)
  /\ UNCHANGED <<open, sqlOf, inUse, inCache, ops, cancelVars>>

\* throwIfStatementForbidden or bindArguments throws.
BindThrows ==
  /\ "bind" \in Faults
  /\ At("bind")
  /\ Ends("release", "unstarted")
  /\ UNCHANGED <<open, statementVars, cancelVars, logVars>>

\* attachCancellationSignal without a signal.
AttachNothing ==
  /\ At("bind") /\ Top.signal = None
  /\ Goto("running")
  /\ UNCHANGED <<open, statementVars, cancelVars, logVars>>

\* attachCancellationSignal: throwIfCanceled throws.
AttachThrows ==
  /\ At("bind") /\ Top.signal \in isCanceled
  /\ Ends("release", "unstarted")
  /\ UNCHANGED <<open, statementVars, cancelVars, logVars>>

\* attachCancellationSignal up to setOnCancelListener; only the outermost
\* signal is listened to.
Attach ==
  /\ At("bind") /\ Top.signal \in Signal \ isCanceled
  /\ attached' = attached + 1
  /\ IF attached = 0
     THEN /\ canceled' = FALSE
          /\ progress' = TRUE
          /\ Goto("listen")
     ELSE /\ Goto("running")
          /\ UNCHANGED <<canceled, progress>>
  /\ UNCHANGED <<open, statementVars, isCanceled, listening, canceling, logVars>>

\* setOnCancelListener(this), which calls onCancel if the signal was canceled
\* meanwhile.  (Bug: it is not called.)
OnCancelAtOnce_Never(g) == FALSE
OnCancelAtOnce(g) == g \in isCanceled

Listen ==
  /\ At("listen") /\ Top.signal \notin canceling
  /\ listening' = listening \cup {Top.signal}
  /\ canceled' = (canceled \/ OnCancelAtOnce(Top.signal))
  /\ Goto("running")
  /\ UNCHANGED <<open, statementVars, attached, progress, isCanceled, canceling, logVars>>

AfterStep == IF Top.signal = None THEN "release" ELSE "detach"

\* sqlite3_step runs the statement to its end.
Finish ==
  /\ At("running")
  /\ Ends(AfterStep, "done")
  /\ UNCHANGED <<open, statementVars, cancelVars, logVars>>

\* It fails.  What executeForCursorWindow runs has been reset when it throws.
StepFails ==
  /\ "step" \in Faults
  /\ At("running")
  /\ \E o \in {"failed", "failedReset"} : Ends(AfterStep, o)
  /\ UNCHANGED <<open, statementVars, cancelVars, logVars>>

\* The progress handler interrupts it.
Interrupt ==
  /\ At("running") /\ progress /\ canceled
  /\ Ends(AfterStep, "interrupted")
  /\ UNCHANGED <<open, statementVars, cancelVars, logVars>>

\* setOnCancelListener(null) waits for an onCancel that is under way.  (Bug: it
\* does not.)
MayDetach_NoWait(g) == TRUE
MayDetach(g) == g \notin canceling

\* detachCancellationSignal.
Detach ==
  /\ At("detach")
  /\ attached' = attached - 1
  /\ IF attached = 1
     THEN /\ MayDetach(Top.signal)
          /\ listening' = listening \ {Top.signal}
          /\ canceled' = FALSE
          /\ progress' = FALSE
     ELSE UNCHANGED <<listening, canceled, progress>>
  /\ Goto("release")
  /\ UNCHANGED <<open, statementVars, isCanceled, canceling, logVars>>

\* releasePreparedStatement resets a cached statement.  sqlite3_reset reports
\* the error of the last step once more: the statement is taken out of the
\* cache, unless the error is an interruption, which is not an SQLiteException.
\* A statement that is not in the cache is finalized.  (Bug: it is not.)
Discarded_Never(s) == {}
Discarded(s) ==
  IF s \notin inCache \/ Top.outcome = "failed" THEN {s} ELSE {}

Release ==
  LET s == Top.statement IN
  /\ At("release")
  /\ inUse' = inUse \ {s}
  /\ inCache' = inCache \ Discarded(s)
  /\ cache' = IF s \in Discarded(s) THEN Without(s) ELSE cache
  /\ sqlOf' = Unprepared(Discarded(s))
  /\ LogEnd(Top.cookie, Top.outcome # "done")
  /\ ops' = Front(ops)
  /\ UNCHANGED <<open, cancelVars>>

-----------------------------------------------------------------------------
(* Other calls.                                                            *)

\* isPreparedStatementInCache, which the pool calls while it has the connection.
IsPreparedStatementInCache(q) ==
  /\ open /\ ops = <<>>
  /\ CachedFor(q) # {}
  /\ cache' = Touched(q)
  /\ UNCHANGED <<open, sqlOf, inUse, inCache, ops, cancelVars, logVars>>

\* dispose: sqlite3_close fails while there are statements.
Close ==
  LET gone == Finalizes(Range(cache)) IN
  /\ open /\ ops = <<>>
  /\ generation < MaxOperations
  /\ cache' = <<>>
  /\ inCache' = FlagsWithout(Range(cache))
  /\ sqlOf' = Unprepared(gone)
  /\ open' = (Live # gone)
  /\ Logged(TRUE, FALSE)
  /\ UNCHANGED <<inUse, ops, cancelVars>>

\* CancellationSignal.cancel, up to the call of the listener.
Cancel(g) ==
  /\ g \notin isCanceled
  /\ isCanceled' = isCanceled \cup {g}
  /\ canceling' = canceling \cup ({g} \cap listening)
  /\ UNCHANGED <<open, statementVars, ops, attached, progress, canceled, listening, logVars>>

\* onCancel: nativeCancel.
OnCancel(g) ==
  /\ g \in canceling
  /\ canceled' = TRUE
  /\ canceling' = canceling \ {g}
  /\ UNCHANGED <<open, statementVars, ops, attached, progress, isCanceled, listening, logVars>>

Init ==
  /\ open = TRUE
  /\ sqlOf = [s \in Stmt |-> None]
  /\ inUse = {} /\ inCache = {}
  /\ cache = <<>>
  /\ ops = <<>>
  /\ attached = 0
  /\ progress = FALSE /\ canceled = FALSE
  /\ isCanceled = {} /\ listening = {} /\ canceling = {}
  /\ log = [i \in 0 .. RecentOps - 1 |-> [cookie |-> None, finished |-> TRUE, failed |-> FALSE]]
  /\ generation = 0

OperationStep ==
  \/ \E q \in Sql, g \in Signal \cup {None} : UseCached(q, g) \/ UsePrepared(q, g)
  \/ \E q \in Sql : PrepareThrows(q)
  \/ BindThrows \/ AttachNothing \/ AttachThrows \/ Attach \/ Listen
  \/ Finish \/ StepFails \/ Interrupt \/ Detach \/ Release

Next ==
  /\ ~Corrupt
  /\ \/ OperationStep
     \/ \E q \in Sql : IsPreparedStatementInCache(q)
     \/ Close
     \/ \E g \in Signal : Cancel(g) \/ OnCancel(g)

Spec == Init /\ [][Next]_vars

\* The thread that has the connection goes on with its operation, cancel() ends,
\* and SQLite asks the progress handler again and again; a statement need not
\* end by itself.
FairSpec ==
  /\ Spec
  /\ WF_vars(~Corrupt /\ (AttachNothing \/ AttachThrows \/ Attach \/ Listen
                          \/ Interrupt \/ Detach \/ Release))
  /\ \A g \in Signal : WF_vars(~Corrupt /\ OnCancel(g))

-----------------------------------------------------------------------------
(* Properties.                                                             *)

LogEntry ==
  [cookie : (0 .. MaxOperations) \cup {None}, finished : BOOLEAN, failed : BOOLEAN]

OperationRecord ==
  [statement : Stmt, signal : Signal \cup {None},
   pc : {"bind", "listen", "running", "detach", "release"},
   outcome : {"none", "unstarted", "done", "failed", "failedReset", "interrupted"},
   cookie : 0 .. MaxOperations]

\* Every variable has its type.
TypeOK ==
  /\ open \in BOOLEAN
  /\ sqlOf \in [Stmt -> Sql \cup {None}]
  /\ inUse \subseteq Stmt /\ inCache \subseteq Stmt
  /\ cache \in Seq(Stmt) /\ Len(cache) <= CacheSize
  /\ ops \in Seq(OperationRecord)
  /\ progress \in BOOLEAN /\ canceled \in BOOLEAN
  /\ isCanceled \subseteq Signal /\ listening \subseteq Signal /\ canceling \subseteq Signal
  /\ log \in [0 .. RecentOps - 1 -> LogEntry]
  /\ generation \in 0 .. MaxOperations

\* Native statements are neither lost nor forgotten: none is finalized while it
\* is marked as in use; those that exist are the cached ones and those of
\* operations in progress; mInCache is set for exactly those in the cache, which
\* has one for each SQL text; and none is left when the connection has been
\* closed (sqlite3_close fails while there is one).
StatementsAccounted ==
  /\ inUse \subseteq Live
  /\ ~Corrupt =>
    /\ Live = Range(cache) \cup Held
    /\ inCache = Range(cache)
    /\ \A i, j \in DOMAIN cache : sqlOf[cache[i]] = sqlOf[cache[j]] => i = j
    /\ ~open => Live = {}

\* A cancellation hits the operation it is for: whatever could be interrupted
\* now is, or runs inside, an operation with a canceled signal, and the
\* connection onCancel touches is open ("we can safely assume that the SQLite
\* connection is still alive").
CancelHitsOwnOperation ==
  /\ progress /\ canceled => \E i \in DOMAIN ops : ops[i].signal \in isCanceled
  /\ canceling # {} => open /\ \E i \in DOMAIN ops : ops[i].signal \in canceling

\* What the other invariants rest on.  An operation calls others only while its
\* statement runs, and they run on an open connection.
OperationsNest ==
  /\ ops # <<>> => open
  /\ Len(ops) <= MaxDepth
  /\ \A i \in DOMAIN ops : i < Len(ops) => ops[i].pc = "running"
  /\ \A i \in DOMAIN ops : ops[i].pc \in {"listen", "detach"} => ops[i].signal # None
  /\ inUse \subseteq Held

\* The operations whose signal is attached, and the outermost of them.
Attached ==
  {i \in DOMAIN ops : ops[i].signal # None /\ ops[i].pc \in {"listen", "running", "detach"}}
IsOutermost(i) == i \in Attached /\ \A j \in Attached : i <= j

\* They are counted; while there is one the progress handler is installed; only
\* the outermost signal is listened to, once it is past setOnCancelListener; and
\* canceled is for it.
AttachmentsCounted ==
  /\ attached = Cardinality(Attached)
  /\ progress <=> Attached # {}
  /\ \A i \in Attached : ops[i].pc = "listen" => IsOutermost(i) /\ ~canceled
  /\ \A g \in listening : \E i \in Attached :
       IsOutermost(i) /\ ops[i].pc # "listen" /\ ops[i].signal = g
  /\ canceling \subseteq listening \cap isCanceled
  /\ progress /\ canceled => \E i \in Attached : IsOutermost(i) /\ ops[i].signal \in isCanceled

\* The inductive invariant of the connection.
ConnectionInvariant ==
  TypeOK /\ StatementsAccounted /\ OperationsNest /\ AttachmentsCounted

\* The connection listens to g: it is the outermost signal in progress.
Heard(g) ==
  \E i \in DOMAIN ops : /\ ops[i].signal = g
                        /\ \A j \in 1 .. i - 1 : ops[j].signal = None

\* A canceled operation ends, though its statement would run for ever.
CanceledOperationEnds ==
  \A g \in Signal : g \in isCanceled /\ Heard(g) ~> ~Heard(g) \/ Corrupt

\* The end of an operation is entered for this operation only, although its
\* entry may have been overwritten by operations that ran inside it.
EndsOwnEntry ==
  [][\A i \in DOMAIN log : log'[i] # log[i] =>
       log'[i].cookie \in {generation} \cup {ops[j].cookie : j \in DOMAIN ops}]_log

\* Not so: a cached statement is not marked, and a reentrant call takes it again.
\* PreparedStatement: "it's possible for SQLite calls to be re-entrant.
\* Consequently we need to prevent in use statements from being finalized until
\* they are no longer in use" (and acquirePreparedStatement prepares a copy of a
\* statement that is in use).
InUseProtected == ~Corrupt

=============================================================================
