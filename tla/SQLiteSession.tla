--------------------------- MODULE SQLiteSession ---------------------------
(***************************************************************************)
(* The sessions of one database (SQLiteSession.java): one for each thread, *)
(* with a stack of nested transactions and at most one connection, that    *)
(* compete for the connections of a pool and for SQLite's write lock.      *)
(*                                                                         *)
(* A session's own fields are used by its thread only, so a step of the    *)
(* model runs to the next point where it meets something shared: the pool, *)
(* an SQL statement, or a SQLiteTransactionListener, which is code of the  *)
(* application.  The pool is taken by its contract (module ConnectionLease,*)
(* which SQLiteConnectionPool implements), SQLite by what the session      *)
(* relies on: BEGIN, COMMIT, ROLLBACK and one write lock.                  *)
(***************************************************************************)
EXTENDS Naturals, FiniteSets, SequencesExt

CONSTANTS
  Session,    \* sessions, each bound to a thread
  Conn,       \* the connections of the pool
  Primary,    \* the primary one
  None,       \* null
  Data,       \* what can be written
  Begins,     \* the ways transactions are begun
  Faults,     \* what goes wrong: "canceled", "begin", "listener", "commit",
              \* "busy" (COMMIT throws and leaves the transaction open), "rollback"
  MaxNesting, \* bound: transactions in a nest
  MaxRunning  \* bound: statements one session has in progress

Modes == {"deferred", "immediate", "exclusive"}

ASSUME SessionAssumption ==
  /\ Primary \in Conn
  /\ None \notin Conn
  /\ Begins \subseteq [mode : Modes, listener : BOOLEAN, primary : BOOLEAN]
  /\ MaxNesting \in Nat \ {0}
  /\ MaxRunning \in Nat

VARIABLES
  connection,  \* mConnection
  useCount,    \* mConnectionUseCount
  flags,       \* mConnectionFlags: the primary connection was asked for
  stack,       \* mTransactionStack, outermost first
  phase,       \* where the thread is
  call,        \* arguments of the call in progress
  ending,      \* locals of endTransactionUnchecked
  running,     \* statements in progress
  poolOpen, idle,  \* the pool: open, connections it has available
  native,      \* of each connection: SQLite's transaction
  disk         \* the database

fieldVars == <<connection, useCount, flags, stack>>
localVars == <<phase, call, ending, running>>
poolVars == <<poolOpen, idle>>
nativeVars == <<native, disk>>
vars == <<fieldVars, localVars, poolVars, nativeVars>>

-----------------------------------------------------------------------------
(* SQLite, as far as the session uses it.                                  *)

NoTransaction == [open |-> FALSE, lock |-> FALSE, writes |-> {}]

\* Another connection holds the write lock: SQLITE_BUSY.
LockedOut(c) == \E d \in Conn \ {c} : native[d].lock

\* What BEGIN makes of a connection.
Begun(mode) == [open |-> TRUE, lock |-> mode # "deferred", writes |-> {}]

BeginWorks(c, mode) ==
  /\ ~native[c].open
  /\ mode # "deferred" => ~LockedOut(c)

\* The transaction of c with w written (w is empty: nothing was).
Written(c, w) ==
  IF native[c].open /\ w # {}
  THEN [native[c] EXCEPT !.lock = TRUE, !.writes = @ \cup w]
  ELSE native[c]

\* The database after a statement on c wrote w: outside a transaction
\* SQLite commits by itself.
DiskWith(c, w) == IF native[c].open THEN disk ELSE disk \cup w

-----------------------------------------------------------------------------
(* Sessions.                                                               *)

NoCall == [mode |-> "none", listener |-> FALSE, primary |-> FALSE]
NotEnding == [successful |-> FALSE, yielding |-> FALSE, thrown |-> FALSE]

HasTransaction(s) == stack[s] # <<>>
HasNestedTransaction(s) == Len(stack[s]) > 1
Top(s) == Last(stack[s])

\* The transactions endTransaction is called for, and beginTransaction inside of.
Unmarked(s) == HasTransaction(s) /\ ~Top(s).marked

\* acquireConnection goes to the pool.  (Bug: although it has a connection.)
NeedsConnection_Always(s) == TRUE
NeedsConnection(s) == connection[s] = None

\* Connections the pool can give for a request.
Suitable(primary) == {c \in idle : primary => c = Primary}

\* The session waits for a connection that another one has.
Blocked(s) == phase[s] = "waiting" /\ Suitable(call[s].primary) = {}

\* shouldYieldConnection.  All requests have the same priority here.
ShouldYield(s) ==
  /\ poolOpen
  /\ \E u \in Session : Blocked(u) /\ (connection[s] = Primary \/ ~call[u].primary)

\* obtainTransaction sets all fields.  (Bug: not the mode.)
Obtained_NoMode(r) ==
  [mode |-> NoCall.mode, listener |-> r.listener, marked |-> FALSE, childFailed |-> FALSE]
Obtained(r) ==
  [mode |-> r.mode, listener |-> r.listener, marked |-> FALSE, childFailed |-> FALSE]

Push(s, r) ==
  /\ stack' = [stack EXCEPT ![s] = Append(@, Obtained(r))]
  /\ phase' = [phase EXCEPT ![s] = "ready"]
  /\ call' = [call EXCEPT ![s] = NoCall]

\* releaseConnection, when SQLite left n of the transaction on the connection.
\* A closed pool closes what comes back.  (Bugs: the count is not looked at,
\* or it is before it is decremented.)
LastUse_Always(s) == TRUE
LastUse_PostDecrement(s) == useCount[s] = 0
LastUse(s) == useCount[s] = 1

Release(s, n) ==
  LET c == connection[s] IN
  /\ useCount' = [useCount EXCEPT ![s] = @ - 1]
  /\ IF LastUse(s)
     THEN /\ connection' = [connection EXCEPT ![s] = None]
          /\ idle' = IF poolOpen THEN idle \cup {c} ELSE idle
          /\ native' = [native EXCEPT ![c] = IF poolOpen THEN n ELSE NoTransaction]
     ELSE /\ native' = [native EXCEPT ![c] = n]
          /\ UNCHANGED <<connection, idle>>
  /\ UNCHANGED <<flags, poolOpen>>

-----------------------------------------------------------------------------
(* Acquiring a connection.                                                 *)

\* acquireConnection for r; next is where the thread goes on.
AcquireFor(s, r, next) ==
  \/ /\ NeedsConnection(s)
     /\ phase' = [phase EXCEPT ![s] = "waiting"]
     /\ UNCHANGED <<fieldVars, running>>
  \/ /\ ~NeedsConnection(s)
     /\ useCount' = [useCount EXCEPT ![s] = @ + 1]
     /\ phase' = [phase EXCEPT ![s] = next]
     /\ running' = IF r.mode = "none" THEN [running EXCEPT ![s] = @ + 1] ELSE running
     /\ UNCHANGED <<connection, flags, stack>>

\* The pool gives the session a connection.
Acquire(s) ==
  /\ phase[s] = "waiting"
  /\ poolOpen
  /\ \E c \in Suitable(call[s].primary) :
       /\ connection' = [connection EXCEPT ![s] = c]
       /\ idle' = idle \ {c}
  /\ useCount' = [useCount EXCEPT ![s] = @ + 1]
  /\ flags' = [flags EXCEPT ![s] = call[s].primary]
  /\ IF call[s].mode = "none"
     THEN /\ phase' = [phase EXCEPT ![s] = "ready"]
          /\ running' = [running EXCEPT ![s] = @ + 1]
          /\ call' = [call EXCEPT ![s] = NoCall]
     ELSE /\ phase' = [phase EXCEPT ![s] = "begin"]
          /\ UNCHANGED <<running, call>>
  /\ UNCHANGED <<stack, ending, poolOpen, nativeVars>>

AcquireThrows(s) ==
  /\ phase[s] = "waiting"
  /\ phase' = [phase EXCEPT ![s] = "ready"]
  /\ call' = [call EXCEPT ![s] = NoCall]
  /\ UNCHANGED <<fieldVars, ending, running, poolVars, nativeVars>>

AcquireRefused(s) == ~poolOpen /\ AcquireThrows(s)
AcquireCanceled(s) == "canceled" \in Faults /\ AcquireThrows(s)

-----------------------------------------------------------------------------
(* Beginning a transaction.                                                *)

BeginOutermost(s, r) ==
  /\ phase[s] = "ready"
  /\ ~HasTransaction(s)
  /\ call' = [call EXCEPT ![s] = r]
  /\ AcquireFor(s, r, "begin")
  /\ UNCHANGED <<ending, poolVars, nativeVars>>

BeginNested(s, r) ==
  /\ phase[s] = "ready"
  /\ Unmarked(s)
  /\ Len(stack[s]) < MaxNesting
  /\ IF r.listener
     THEN /\ phase' = [phase EXCEPT ![s] = "onBegin"]
          /\ call' = [call EXCEPT ![s] = r]
          /\ UNCHANGED stack
     ELSE Push(s, r)
  /\ UNCHANGED <<connection, useCount, flags, ending, running, poolVars, nativeVars>>

ExecuteBegin(s) ==
  /\ phase[s] = "begin"
  /\ BeginWorks(connection[s], call[s].mode)
  /\ native' = [native EXCEPT ![connection[s]] = Begun(call[s].mode)]
  /\ IF call[s].listener
     THEN /\ phase' = [phase EXCEPT ![s] = "onBegin"]
          /\ UNCHANGED <<stack, call>>
     ELSE Push(s, call[s])
  /\ UNCHANGED <<connection, useCount, flags, ending, running, poolVars, disk>>

ExecuteBeginThrows(s) ==
  /\ phase[s] = "begin"
  /\ ~BeginWorks(connection[s], call[s].mode) \/ "begin" \in Faults
  /\ Release(s, native[connection[s]])
  /\ phase' = [phase EXCEPT ![s] = "ready"]
  /\ call' = [call EXCEPT ![s] = NoCall]
  /\ UNCHANGED <<stack, ending, running, disk>>

OnBegin(s) ==
  /\ phase[s] = "onBegin"
  /\ Push(s, call[s])
  /\ UNCHANGED <<connection, useCount, flags, ending, running, poolVars, nativeVars>>

OnBeginThrows(s) ==
  /\ phase[s] = "onBegin"
  /\ "listener" \in Faults
  /\ phase' = [phase EXCEPT ![s] = IF HasTransaction(s) THEN "ready" ELSE "unbegin"]
  /\ call' = [call EXCEPT ![s] = NoCall]
  /\ UNCHANGED <<fieldVars, ending, running, poolVars, nativeVars>>

\* ROLLBACK after onBegin threw, which may throw as well.  (Bug: forgotten.)
Unbegin_NoRollback(s) ==
  /\ phase[s] = "unbegin"
  /\ Release(s, native[connection[s]])
  /\ phase' = [phase EXCEPT ![s] = "ready"]
  /\ UNCHANGED <<stack, call, ending, running, disk>>
Unbegin(s) ==
  /\ phase[s] = "unbegin"
  /\ \/ Release(s, NoTransaction)
     \/ "rollback" \in Faults /\ Release(s, native[connection[s]])
  /\ phase' = [phase EXCEPT ![s] = "ready"]
  /\ UNCHANGED <<stack, call, ending, running, disk>>

-----------------------------------------------------------------------------
(* Ending a transaction.                                                   *)

Mark(s) ==
  /\ phase[s] = "ready"
  /\ Unmarked(s)
  /\ stack' = [stack EXCEPT ![s][Len(stack[s])].marked = TRUE]

SetTransactionSuccessful(s) ==
  /\ Mark(s)
  /\ UNCHANGED <<connection, useCount, flags, localVars, poolVars, nativeVars>>

Successful(t, yielding) == (t.marked \/ yielding) /\ ~t.childFailed

\* The stack without its top, whose end is e.  (Bug: the parent is not told.)
Popped_NotTold(ts, e) == Front(ts)
Popped(ts, e) ==
  IF Len(ts) > 1 /\ ~e.successful
  THEN [Front(ts) EXCEPT ![Len(ts) - 1].childFailed = TRUE]
  ELSE Front(ts)

Pop(s, e) ==
  /\ stack' = [stack EXCEPT ![s] = Popped(@, e)]
  /\ IF HasNestedTransaction(s)
     THEN /\ phase' = [phase EXCEPT ![s] = "ready"]
          /\ ending' = [ending EXCEPT ![s] = NotEnding]
     ELSE /\ phase' = [phase EXCEPT ![s] = "finish"]
          /\ ending' = [ending EXCEPT ![s] = e]

\* endTransactionUnchecked up to the listener or, without one, to COMMIT or ROLLBACK.
EndUnchecked(s, t, yielding) ==
  LET e == [NotEnding EXCEPT !.successful = Successful(t, yielding), !.yielding = yielding] IN
  /\ IF t.listener
     THEN /\ phase' = [phase EXCEPT ![s] = "onEnd"]
          /\ ending' = [ending EXCEPT ![s] = e]
          /\ UNCHANGED stack
     ELSE Pop(s, e)
  /\ UNCHANGED <<connection, useCount, flags, running, poolVars, nativeVars>>

EndTransaction(s) ==
  /\ phase[s] \in {"ready", "special"}
  /\ HasTransaction(s)
  /\ EndUnchecked(s, Top(s), FALSE)
  /\ UNCHANGED call

\* COMMIT as a statement: setTransactionSuccessful, and endTransaction next.
ExecuteSpecialCommit(s) ==
  /\ Mark(s)
  /\ phase' = [phase EXCEPT ![s] = "special"]
  /\ UNCHANGED <<connection, useCount, flags, call, ending, running, poolVars, nativeVars>>

\* yieldTransactionUnchecked keeps what it needs to begin again.
MayYield(s) == Unmarked(s) /\ ~HasNestedTransaction(s) /\ ~Top(s).childFailed

YieldTransaction(s) ==
  /\ phase[s] = "ready"
  /\ MayYield(s)
  /\ ShouldYield(s)
  /\ call' = [call EXCEPT ![s] =
                [mode |-> Top(s).mode, listener |-> Top(s).listener, primary |-> flags[s]]]
  /\ EndUnchecked(s, Top(s), TRUE)

OnEnd(s) ==
  /\ phase[s] = "onEnd"
  /\ Pop(s, ending[s])
  /\ UNCHANGED <<connection, useCount, flags, call, running, poolVars, nativeVars>>

OnEndThrows(s) ==
  /\ phase[s] = "onEnd"
  /\ "listener" \in Faults
  /\ Pop(s, [ending[s] EXCEPT !.successful = FALSE, !.thrown = TRUE])
  /\ UNCHANGED <<connection, useCount, flags, call, running, poolVars, nativeVars>>

\* After COMMIT or ROLLBACK: an exception goes to the caller, a yield goes on.
Finish(s, thrown) ==
  /\ IF ending[s].yielding /\ ~thrown
     THEN phase' = [phase EXCEPT ![s] = "sleep"] /\ UNCHANGED call
     ELSE /\ phase' = [phase EXCEPT ![s] = "ready"]
          /\ call' = [call EXCEPT ![s] = NoCall]
  /\ ending' = [ending EXCEPT ![s] = NotEnding]
  /\ UNCHANGED <<stack, running>>

Commit(s) ==
  /\ phase[s] = "finish"
  /\ ending[s].successful
  /\ disk' = disk \cup native[connection[s]].writes
  /\ Release(s, NoTransaction)
  /\ Finish(s, FALSE)

\* SQLite rolled back, or the transaction is still open.
CommitThrows(s) ==
  /\ phase[s] = "finish"
  /\ ending[s].successful
  /\ \/ "commit" \in Faults /\ Release(s, NoTransaction)
     \/ "busy" \in Faults /\ Release(s, native[connection[s]])
  /\ Finish(s, TRUE)
  /\ UNCHANGED disk

Rollback(s) ==
  /\ phase[s] = "finish"
  /\ ~ending[s].successful
  /\ \/ Release(s, NoTransaction) /\ Finish(s, ending[s].thrown)
     \/ "rollback" \in Faults /\ Release(s, native[connection[s]]) /\ Finish(s, TRUE)
  /\ UNCHANGED disk

\* yieldTransactionUnchecked begins the next transaction.
Resume(s) ==
  /\ phase[s] = "sleep"
  /\ AcquireFor(s, call[s], "begin")
  /\ UNCHANGED <<call, ending, poolVars, nativeVars>>

-----------------------------------------------------------------------------
(* Statements.  One may run inside another: SQLite calls functions that    *)
(* the application registered.                                             *)

StatementBegins(s, primary) ==
  LET r == [NoCall EXCEPT !.primary = primary] IN
  /\ phase[s] = "ready"
  /\ running[s] < MaxRunning
  /\ call' = [call EXCEPT ![s] = IF NeedsConnection(s) THEN r ELSE NoCall]
  /\ AcquireFor(s, r, "ready")
  /\ UNCHANGED <<ending, poolVars, nativeVars>>

\* The statement reads, fails or writes w.
StatementEnds(s, w) ==
  /\ phase[s] = "ready"
  /\ running[s] > 0
  /\ w # {} => ~LockedOut(connection[s])
  /\ running' = [running EXCEPT ![s] = @ - 1]
  /\ disk' = DiskWith(connection[s], w)
  /\ Release(s, Written(connection[s], w))
  /\ UNCHANGED <<stack, phase, call, ending>>

\* A statement in a listener, which has a connection already.
ListenerWrites(s, w) ==
  /\ phase[s] \in {"onBegin", "onEnd"}
  /\ ~LockedOut(connection[s])
  /\ native' = [native EXCEPT ![connection[s]] = Written(connection[s], w)]
  /\ disk' = DiskWith(connection[s], w)
  /\ UNCHANGED <<fieldVars, localVars, poolVars>>

\* SQLiteConnectionPool.close.
ClosePool ==
  /\ poolOpen
  /\ poolOpen' = FALSE
  /\ idle' = {}
  /\ native' = [c \in Conn |-> IF c \in idle THEN NoTransaction ELSE native[c]]
  /\ UNCHANGED <<fieldVars, localVars, disk>>

-----------------------------------------------------------------------------

Init ==
  /\ connection = [s \in Session |-> None]
  /\ useCount = [s \in Session |-> 0]
  /\ flags = [s \in Session |-> FALSE]
  /\ stack = [s \in Session |-> <<>>]
  /\ phase = [s \in Session |-> "ready"]
  /\ call = [s \in Session |-> NoCall]
  /\ ending = [s \in Session |-> NotEnding]
  /\ running = [s \in Session |-> 0]
  /\ poolOpen = TRUE
  /\ idle = Conn
  /\ native = [c \in Conn |-> NoTransaction]
  /\ disk = {}

\* Steps of a call that is under way (a cancellation comes from outside).
CallGoesOn(s) ==
  \/ AcquireRefused(s)
  \/ ExecuteBegin(s) \/ ExecuteBeginThrows(s)
  \/ OnBegin(s) \/ OnBeginThrows(s) \/ Unbegin(s)
  \/ OnEnd(s) \/ OnEndThrows(s)
  \/ Commit(s) \/ CommitThrows(s) \/ Rollback(s) \/ Resume(s)
  \/ phase[s] = "special" /\ EndTransaction(s)

\* Calls of the application.
Call(s) ==
  \/ \E r \in Begins : BeginOutermost(s, r) \/ BeginNested(s, r)
  \/ SetTransactionSuccessful(s) \/ EndTransaction(s) \/ ExecuteSpecialCommit(s)
  \/ YieldTransaction(s)
  \/ \E p \in BOOLEAN : StatementBegins(s, p)
  \/ \E d \in Data : StatementEnds(s, {d}) \/ ListenerWrites(s, {d})
  \/ StatementEnds(s, {})

Next == ClosePool \/ \E s \in Session : Acquire(s) \/ AcquireCanceled(s) \/ CallGoesOn(s) \/ Call(s)

Spec == Init /\ [][Next]_vars

-----------------------------------------------------------------------------
(* Fairness.  The thread of a session goes on with a call that can go on,  *)
(* listeners return, and the pool serves a waiting thread that it can      *)
(* serve again and again (EveryRequestAnswered of SQLiteConnectionPool).   *)
(* The application ends its transactions and statements, and does not for  *)
(* ever start one before it ends the other.                                *)

EndOutermost(s) == ~HasNestedTransaction(s) /\ EndTransaction(s)

\* The end of the only thing the session has its connection for.
LetsGo(s) ==
  /\ useCount[s] = 1
  /\ EndOutermost(s) \/ StatementEnds(s, {})

Fairness ==
  \A s \in Session :
    /\ SF_vars(Acquire(s))
    /\ WF_vars(CallGoesOn(s))
    /\ WF_vars(EndTransaction(s))
    /\ SF_vars(EndOutermost(s))
    /\ SF_vars(StatementEnds(s, {}))
    /\ SF_vars(LetsGo(s))

FairSpec == Spec /\ Fairness

-----------------------------------------------------------------------------
(* Properties.                                                             *)

\* The fields of a Transaction.
StackEntry ==
  [mode : Modes, listener : BOOLEAN, marked : BOOLEAN, childFailed : BOOLEAN]

\* Every variable has its type.
TypeOK ==
  /\ connection \in [Session -> Conn \cup {None}]
  /\ useCount \in [Session -> 0..MaxRunning + 1]
  /\ flags \in [Session -> BOOLEAN]
  /\ stack \in [Session -> Seq(StackEntry)]
  /\ \A s \in Session : Len(stack[s]) <= MaxNesting
  /\ phase \in [Session -> {"ready", "waiting", "begin", "onBegin", "unbegin",
                            "special", "onEnd", "finish", "sleep"}]
  /\ call \in [Session -> [mode : Modes \cup {"none"}, listener : BOOLEAN, primary : BOOLEAN]]
  /\ ending \in [Session -> [successful : BOOLEAN, yielding : BOOLEAN, thrown : BOOLEAN]]
  /\ running \in [Session -> 0..MaxRunning]
  /\ poolOpen \in BOOLEAN
  /\ idle \subseteq Conn
  /\ native \in [Conn -> [open : BOOLEAN, lock : BOOLEAN, writes : SUBSET Data]]
  /\ disk \subseteq Data

\* The session uses its connection for a transaction: the outermost one is on
\* the stack, or on its way there or from there.
UsesForTransaction(s) ==
  HasTransaction(s) \/ phase[s] \in {"begin", "onBegin", "unbegin", "finish"}

\* A session has a connection exactly as long as a transaction or a statement
\* of it needs one, whichever way calls and listeners end: every failing path
\* of beginTransactionUnchecked and endTransactionUnchecked lets go once.
ConnectionWhileNeeded ==
  \A s \in Session :
    /\ useCount[s] = running[s] + (IF UsesForTransaction(s) THEN 1 ELSE 0)
    /\ useCount[s] = 0 <=> connection[s] = None

\* A thread that waits for a connection holds none, which is why sessions
\* cannot wait for each other in a circle.
WaitsEmptyHanded ==
  \A s \in Session : phase[s] = "waiting" => connection[s] = None

\* SQLite has a transaction open on exactly those connections whose session
\* has one (COMMIT, when it throws, having ended it): no connection goes back to
\* the pool with a transaction, and no statement of an explicit transaction is
\* committed by itself.
TransactionsMatch ==
  \A c \in Conn :
    native[c].open <=>
      \E s \in Session :
        connection[s] = c /\ (UsesForTransaction(s) /\ phase[s] # "begin")

\* "each thread has its own session object and therefore its own transaction
\* state independent of other threads" (line 54): a session that takes a
\* connection from the pool to begin a transaction does not find one of an
\* earlier session open on it.
OwnTransactionState ==
  \A s \in Session :
    phase[s] = "begin" /\ useCount[s] = 1 => ~native[connection[s]].open

\* A connection belongs to one session or is idle; a closed pool has none.
ConnectionsApart ==
  /\ \A s, u \in Session : connection[s] # None /\ connection[s] = connection[u] => s = u
  /\ \A s \in Session : connection[s] \notin idle
  /\ ~poolOpen => idle = {}

\* The stack is empty before the first BEGIN and after the last pop, has a
\* transaction to end while one is being ended, and room for one to be begun.
PhaseMatchesStack ==
  \A s \in Session :
    /\ phase[s] \in {"waiting", "begin", "unbegin", "finish", "sleep"} => stack[s] = <<>>
    /\ phase[s] \in {"special", "onEnd"} => stack[s] # <<>>
    /\ phase[s] = "onBegin" => Len(stack[s]) < MaxNesting

\* What is to be begun is known until it has been, and by a yield until it is
\* begun again.
CallMatchesPhase ==
  \A s \in Session :
    /\ phase[s] \in {"begin", "onBegin", "sleep"} \/ ending[s].yielding => call[s].mode \in Modes
    /\ phase[s] = "waiting" /\ call[s].mode = "none" => running[s] < MaxRunning

\* The end in progress is that of the transaction on top.
EndingMatchesTop ==
  \A s \in Session :
    /\ phase[s] \notin {"onEnd", "finish"} => ending[s] = NotEnding
    /\ phase[s] = "onEnd" =>
         /\ ending[s].successful = Successful(Top(s), ending[s].yielding)
         /\ ending[s].yielding => MayYield(s)

\* BEGIN was executed on the connection of a session that is in a transaction.
BegunIsOpen ==
  \A s \in Session :
    UsesForTransaction(s) /\ phase[s] # "begin" => native[connection[s]].open

\* The inductive invariant.
SessionInvariant ==
  /\ TypeOK /\ ConnectionWhileNeeded /\ WaitsEmptyHanded
  /\ ConnectionsApart /\ PhaseMatchesStack /\ CallMatchesPhase /\ EndingMatchesTop
  /\ BegunIsOpen

\* Whoever waits for a connection gets one or an exception, when sessions end
\* what they begin: also after failures and through yields and nests.
EveryWaitEnds ==
  \A s \in Session : phase[s] = "waiting" ~> phase[s] # "waiting"

-----------------------------------------------------------------------------
(* Every step is one that NestedTransaction allows.  Its transaction opens *)
(* with BEGIN and is over with COMMIT or ROLLBACK; in between the stack is *)
(* ahead of it, as the top is popped before COMMIT.                        *)

Opening(s) == ~HasTransaction(s) /\ phase[s] \in {"onBegin", "unbegin"}

Depth(s) ==
  IF Opening(s) \/ phase[s] = "finish" THEN 1 ELSE Len(stack[s])

MarkedLevels(s) ==
  IF phase[s] = "finish"
  THEN IF ending[s].successful /\ ~ending[s].yielding THEN {1} ELSE {}
  ELSE {i \in DOMAIN stack[s] : stack[s][i].marked}

IsDoomed(s) ==
  \/ phase[s] = "finish" /\ ~ending[s].successful
  \/ \E i \in DOMAIN stack[s] : stack[s][i].childFailed

Work(s) == IF Depth(s) > 0 THEN native[connection[s]].writes ELSE {}

Depths == [s \in Session |-> Depth(s)]
Marks == [s \in Session |-> MarkedLevels(s)]
Doomed == {s \in Session : IsDoomed(s)}
GivingWay == {s \in Session : ending[s].yielding}
Works == [s \in Session |-> Work(s)]

Abstract == INSTANCE NestedTransaction WITH
  depth <- Depths, marked <- Marks, doomed <- Doomed, yielding <- GivingWay, work <- Works

\* All or nothing: what a nest of transactions wrote is published only by the
\* end of the outermost one, and only if all were marked and no listener threw.
ImplementsNestedTransaction == Abstract!Spec
=============================================================================
