------------------------ MODULE SQLiteConnectionPool ------------------------
(***************************************************************************)
(* The pool of database connections of one open database                   *)
(* (SQLiteConnectionPool.java).  Threads ask for a connection, wait in a   *)
(* priority queue when none can be had, and give it back; the pool may be  *)
(* reconfigured or closed under their feet, a wait may be canceled, and a  *)
(* connection may be abandoned and recovered through the garbage           *)
(* collector.                                                              *)
(*                                                                         *)
(* Every synchronized (mLock) block is one atomic step, except that the    *)
(* loop of wakeConnectionWaitersLocked, which ends most of those blocks,   *)
(* takes one step per waiter: while it runs the lock is held (LockFree is  *)
(* false) and no other locked block can start, but the code that takes no  *)
(* lock (park and unpark, the leak flag, the garbage collector, a          *)
(* CancellationSignal) interleaves with it.                                *)
(***************************************************************************)
EXTENDS Naturals, FiniteSets, SequencesExt

CONSTANTS
  Thread,     \* sessions: each is bound to a thread and holds one connection
  Waiter,     \* ConnectionWaiter objects
  Conn,       \* SQLiteConnection objects (an unused one stands for a new one)
  None,       \* null
  Configs,    \* database configurations
  Switches,   \* pairs of configurations: the application goes from one to the other
  Requests,   \* what threads ask for
  WALConnectionPoolSize,  \* SQLiteGlobal.getWALConnectionPoolSize()
  Faults,     \* which of "open", "reconfigure", "leak" go wrong
  MaxNonce    \* bound: how often one waiter object serves a cancellable request

ASSUME PoolAssumption ==
  /\ None \notin Thread \cup Waiter \cup Conn
  /\ \A k \in Configs : k.wal \in BOOLEAN
  /\ Switches \subseteq Configs \X Configs
  /\ Requests \subseteq [wantPrimary : BOOLEAN, priority : 0..1, cancellable : BOOLEAN]
  /\ WALConnectionPoolSize \in Nat \ {0}
  /\ MaxNonce \in Nat

VARIABLES
  isOpen, configuration, maxPoolSize,       \* the pool
  availablePrimary, availableNonPrimary,    \* strong references
  acquired,        \* mAcquiredConnections: status of each connection handed out
  connectionLeaked,                         \* mConnectionLeaked
  live, primary, configOf,  \* connections: open, primary, configured as
  garbage,         \* open connections nothing but the weak map refers to
  waiter,          \* the fields of each ConnectionWaiter
  waiterQueue,     \* mConnectionWaiterQueue, front first
  wake,            \* the wake loop: position (0: not running) and its flags
  permits,         \* threads with a LockSupport permit
  pc, hold,        \* where a thread is in waitForConnection, what it acquired
  ticket,          \* its waiter object and the nonce it read at enqueueing
  signal, listener \* its CancellationSignal and that signal's listener

poolVars == <<isOpen, configuration, maxPoolSize>>
connVars == <<live, primary, configOf>>
availVars == <<availablePrimary, availableNonPrimary>>
waitVars == <<waiter, waiterQueue, permits>>
cancelVars == <<signal, listener>>
threadVars == <<pc, hold, ticket>>
vars == <<poolVars, availVars, acquired, connectionLeaked, connVars, garbage,
          waitVars, wake, threadVars, cancelVars>>

-----------------------------------------------------------------------------
(* Lock and configuration.                                                 *)

NotWaking == [at |-> 0, noPrimary |-> FALSE, noNonPrimary |-> FALSE]

\* mLock is free: no wake loop is under way.
LockFree == wake = NotWaking

\* throwIfClosedLocked does not throw.  (Bug: never throws.)
NotClosed_Never == TRUE
NotClosed == isOpen

\* setMaxConnectionPoolSizeLocked for configuration k.
MaxPoolSizeFor(k) == IF k.wal THEN WALConnectionPoolSize ELSE 1

\* The keys of mAcquiredConnections.
AcquiredConns == {c \in Conn : acquired[c] # "none"}

\* The connections the pool refers to strongly.
AvailableConns == availableNonPrimary \cup ({availablePrimary} \ {None})

\* Start wakeConnectionWaitersLocked on queue q: the last thing a locked block does.
\* (Bugs: nobody is woken; the walk begins at the wrong end.)
StartWake_Nobody(q) == wake' = NotWaking
StartWake_FromTail(q) ==
  wake' = IF q = <<>> THEN NotWaking ELSE [NotWaking EXCEPT !.at = Len(q)]
StartWake(q) == wake' = IF q = <<>> THEN NotWaking ELSE [NotWaking EXCEPT !.at = 1]

-----------------------------------------------------------------------------
(* Taking connections out of the pool.                                     *)

\* openConnectionLocked: a new connection object configured as k.
OpenConnection(c, isPrimary, k) ==
  /\ c \in Conn \ live
  /\ live' = live \cup {c}
  /\ primary' = IF isPrimary THEN primary \cup {c} ELSE primary \ {c}
  /\ configOf' = [configOf EXCEPT ![c] = k]

\* What tryAcquireNonPrimaryConnectionLocked counts before it expands the pool.
\* (Bug: the available primary connection is not counted.)
OpenConnections_NoPrimary == Cardinality(AcquiredConns)
OpenConnections ==
  Cardinality(AcquiredConns) + (IF availablePrimary # None THEN 1 ELSE 0)

\* The primary connection exists and has been acquired.  (Bug: not looked for.)
PrimaryIsAcquired_Never == FALSE
PrimaryIsAcquired == AcquiredConns \cap primary # {}

\* Neither call below returns null.
CanTakeNonPrimary == availableNonPrimary # {} \/ OpenConnections < maxPoolSize
CanTakePrimary == availablePrimary # None \/ ~PrimaryIsAcquired

\* finishAcquireConnectionLocked.
FinishAcquire(c) == acquired' = [acquired EXCEPT ![c] = "normal"]

\* tryAcquireNonPrimaryConnectionLocked returns c.  Which available connection
\* is taken depends on prepared statement caches: any one may be.
TryAcquireNonPrimary(c) ==
  /\ \/ /\ c \in availableNonPrimary
        /\ availableNonPrimary' = availableNonPrimary \ {c}
        /\ UNCHANGED connVars
     \/ /\ availableNonPrimary = {}
        /\ OpenConnections < maxPoolSize
        /\ OpenConnection(c, FALSE, configuration)
        /\ UNCHANGED availableNonPrimary
  /\ FinishAcquire(c)
  /\ UNCHANGED availablePrimary

\* tryAcquirePrimaryConnectionLocked returns c.
TryAcquirePrimary(c) ==
  /\ \/ /\ c = availablePrimary
        /\ availablePrimary' = None
        /\ UNCHANGED connVars
     \/ /\ availablePrimary = None
        /\ ~PrimaryIsAcquired
        /\ OpenConnection(c, TRUE, configuration)
        /\ UNCHANGED availablePrimary
  /\ FinishAcquire(c)
  /\ UNCHANGED availableNonPrimary

\* The two attempts in the order both callers make them.
TryAcquire(tryNonPrimary, tryPrimary, c) ==
  \/ tryNonPrimary /\ TryAcquireNonPrimary(c)
  \/ /\ tryNonPrimary => ~CanTakeNonPrimary
     /\ tryPrimary
     /\ TryAcquirePrimary(c)

\* Opening a connection throws in one of the two attempts.
TryAcquireThrows(tryNonPrimary, tryPrimary) ==
  /\ "open" \in Faults
  /\ \/ tryNonPrimary /\ CanTakeNonPrimary /\ availableNonPrimary = {}
     \/ /\ tryNonPrimary => ~CanTakeNonPrimary
        /\ tryPrimary /\ CanTakePrimary /\ availablePrimary = None

\* Both attempts return null.
NothingToAcquire(tryNonPrimary, tryPrimary) ==
  /\ tryNonPrimary => ~CanTakeNonPrimary
  /\ tryPrimary => ~CanTakePrimary

-----------------------------------------------------------------------------
(* The wake loop.                                                          *)

\* Remove the i-th waiter from the queue and unpark its thread.
\* (Bug: it is not unparked.)
Dequeue_NoUnpark(i) ==
  waiterQueue' = RemoveAt(waiterQueue, i) /\ UNCHANGED permits
Dequeue(i) ==
  /\ waiterQueue' = RemoveAt(waiterQueue, i)
  /\ permits' = permits \cup {waiter[waiterQueue[i]].thread}

\* Go on at position i with the flags, or let the lock go at the end of q.
WakeOn(i, q, noPrimary, noNonPrimary) ==
  wake' = IF i > Len(q) THEN NotWaking
          ELSE [at |-> i, noPrimary |-> noPrimary, noNonPrimary |-> noNonPrimary]

CurrentWaiter == waiterQueue[wake.at]
\* What the loop tries for the current waiter.  (Bug: any connection will do.)
WakeTriesNonPrimary_Always == ~wake.noNonPrimary
WakeTriesNonPrimary == ~waiter[CurrentWaiter].wantPrimary /\ ~wake.noNonPrimary
WakeTriesPrimary == ~wake.noPrimary
NoNonPrimaryLeft == wake.noNonPrimary \/ (WakeTriesNonPrimary /\ ~CanTakeNonPrimary)

\* The pool is closed: every waiter is sent away to find out for itself.
WakeClosed ==
  /\ ~LockFree
  /\ ~isOpen
  /\ Dequeue(wake.at)
  /\ WakeOn(wake.at, waiterQueue', FALSE, FALSE)
  /\ UNCHANGED <<poolVars, availVars, acquired, connectionLeaked, connVars,
                 garbage, waiter, threadVars, cancelVars>>

\* The waiter gets a connection.
WakeAssign ==
  /\ ~LockFree
  /\ isOpen
  /\ \E c \in Conn :
       /\ TryAcquire(WakeTriesNonPrimary, WakeTriesPrimary, c)
       /\ waiter' = [waiter EXCEPT ![CurrentWaiter].assigned = c]
  /\ Dequeue(wake.at)
  /\ WakeOn(wake.at, waiterQueue', wake.noPrimary, NoNonPrimaryLeft)
  /\ UNCHANGED <<poolVars, connectionLeaked, garbage, threadVars, cancelVars>>

\* The waiter gets the exception thrown when a connection was opened for it.
WakeThrow ==
  /\ ~LockFree
  /\ isOpen
  /\ TryAcquireThrows(WakeTriesNonPrimary, WakeTriesPrimary)
  /\ waiter' = [waiter EXCEPT ![CurrentWaiter].exception = "failed"]
  /\ Dequeue(wake.at)
  /\ WakeOn(wake.at, waiterQueue', wake.noPrimary, NoNonPrimaryLeft)
  /\ UNCHANGED <<poolVars, availVars, acquired, connectionLeaked, connVars,
                 garbage, threadVars, cancelVars>>

\* Nothing for this waiter: go on to the next, or stop when nothing is left.
WakeSkip ==
  /\ ~LockFree
  /\ isOpen
  /\ NothingToAcquire(WakeTriesNonPrimary, WakeTriesPrimary)
  /\ IF NoNonPrimaryLeft
     THEN wake' = NotWaking
     ELSE WakeOn(wake.at + 1, waiterQueue, TRUE, FALSE)
  /\ UNCHANGED <<poolVars, availVars, acquired, connectionLeaked, connVars,
                 garbage, waitVars, threadVars, cancelVars>>

WakeStep == WakeClosed \/ WakeAssign \/ WakeThrow \/ WakeSkip

-----------------------------------------------------------------------------
(* waitForConnection.                                                      *)

\* A request that is not closed out, canceled or failed gets a connection at
\* once.  (The early throws change nothing and are not steps.)
AcquireNow(t, r) ==
  /\ pc[t] = "idle" /\ hold[t] = None
  /\ LockFree
  /\ NotClosed
  /\ \E c \in Conn :
       /\ TryAcquire(~r.wantPrimary, TRUE, c)
       /\ hold' = [hold EXCEPT ![t] = c]
  /\ UNCHANGED <<poolVars, connectionLeaked, garbage, waitVars, wake, pc,
                 ticket, cancelVars>>

\* obtainConnectionWaiterLocked: a recycled object if there is one.
RecycledWaiters == {w \in Waiter : waiter[w].thread = None /\ waiter[w].nonce > 0}
NewWaiters == {w \in Waiter : waiter[w].thread = None /\ waiter[w].nonce = 0}
ObtainableWaiters == IF RecycledWaiters # {} THEN RecycledWaiters ELSE NewWaiters

\* The fields obtainConnectionWaiterLocked sets.
Obtained(w, t, r) ==
  [waiter[w] EXCEPT !.thread = t, !.priority = r.priority,
                    !.wantPrimary = r.wantPrimary]

\* Where a waiter of priority p goes: after all of the same or higher priority.
\* (Bugs: always last; before those of the same priority.)
QueuePosition_Last(p) == Len(waiterQueue) + 1
QueuePosition_Before(p) ==
  CHOOSE i \in 1 .. Len(waiterQueue) + 1 :
    /\ \A j \in 1 .. i - 1 : waiter[waiterQueue[j]].priority > p
    /\ i <= Len(waiterQueue) => waiter[waiterQueue[i]].priority <= p
QueuePosition(p) ==
  CHOOSE i \in 1 .. Len(waiterQueue) + 1 :
    /\ \A j \in 1 .. i - 1 : waiter[waiterQueue[j]].priority >= p
    /\ i <= Len(waiterQueue) => waiter[waiterQueue[i]].priority < p

\* No connection can be had: enqueue a waiter.
AcquireWaits(t, r) ==
  /\ pc[t] = "idle" /\ hold[t] = None
  /\ LockFree
  /\ NotClosed
  /\ NothingToAcquire(~r.wantPrimary, TRUE)
  /\ \E w \in ObtainableWaiters :
       /\ r.cancellable => waiter[w].nonce < MaxNonce
       /\ waiter' = [waiter EXCEPT ![w] = Obtained(w, t, r)]
       /\ waiterQueue' = InsertAt(waiterQueue, QueuePosition(r.priority), w)
       /\ ticket' = [ticket EXCEPT ![t] = [waiter |-> w, nonce |-> waiter[w].nonce]]
  /\ pc' = [pc EXCEPT ![t] = IF r.cancellable THEN "listen" ELSE "top"]
  /\ signal' = [signal EXCEPT ![t] = IF r.cancellable THEN "live" ELSE "none"]
  /\ UNCHANGED <<poolVars, availVars, acquired, connectionLeaked, connVars,
                 garbage, permits, wake, hold, listener>>

\* setOnCancelListener(listener): called back at once if canceled already.
\* (Bug: it is not.)
SetListener_NotCalledBack(t) ==
  /\ pc[t] = "listen"
  /\ listener' = [listener EXCEPT ![t] = "set"]
  /\ pc' = [pc EXCEPT ![t] = "top"]
  /\ UNCHANGED <<poolVars, availVars, acquired, connectionLeaked, connVars,
                 garbage, waitVars, wake, hold, ticket, signal>>
SetListener(t) ==
  /\ pc[t] = "listen"
  /\ listener' = [listener EXCEPT ![t] = "set"]
  /\ pc' = [pc EXCEPT ![t] = IF signal[t] = "canceled" THEN "selfCancel" ELSE "top"]
  /\ UNCHANGED <<poolVars, availVars, acquired, connectionLeaked, connVars,
                 garbage, waitVars, wake, hold, ticket, signal>>

\* The head of the loop: poll the leak flag, then park.
\* (Bug: the flag is reset and nothing done.)
PollLeakFlag_Ignored(t) ==
  /\ pc[t] = "top"
  /\ connectionLeaked' = FALSE
  /\ pc' = [pc EXCEPT ![t] = "parked"]
  /\ UNCHANGED <<poolVars, availVars, acquired, connVars, garbage, waitVars,
                 wake, hold, ticket, cancelVars>>
PollLeakFlag(t) ==
  /\ pc[t] = "top"
  /\ connectionLeaked' = FALSE
  /\ pc' = [pc EXCEPT ![t] = IF connectionLeaked THEN "recover" ELSE "parked"]
  /\ UNCHANGED <<poolVars, availVars, acquired, connVars, garbage, waitVars,
                 wake, hold, ticket, cancelVars>>

\* The flag was set: serve the waiters with what the leak left over.
RecoverFromLeak(t) ==
  /\ pc[t] = "recover"
  /\ LockFree
  /\ StartWake(waiterQueue)
  /\ pc' = [pc EXCEPT ![t] = "parked"]
  /\ UNCHANGED <<poolVars, availVars, acquired, connectionLeaked, connVars,
                 garbage, waitVars, hold, ticket, cancelVars>>

\* parkNanos returns: a permit, the timeout, or for no reason at all.
Unpark(t) ==
  /\ pc[t] = "parked"
  /\ permits' = permits \ {t}
  /\ pc' = [pc EXCEPT ![t] = "awake"]
  /\ UNCHANGED <<poolVars, availVars, acquired, connectionLeaked, connVars,
                 garbage, waiter, waiterQueue, wake, hold, ticket, cancelVars>>

NoTicket == [waiter |-> None, nonce |-> 0]

\* Leave the loop, through the finally block if there is a listener to remove
\* (which refers to the ticket until then).
LeaveLoop(t) ==
  IF signal[t] = "none"
  THEN /\ pc' = [pc EXCEPT ![t] = "idle"]
       /\ ticket' = [ticket EXCEPT ![t] = NoTicket]
  ELSE /\ pc' = [pc EXCEPT ![t] = "leave"]
       /\ UNCHANGED ticket

\* recycleConnectionWaiterLocked.  The nonce counts up to MaxNonce and stays
\* there: a listener only ever remembers a smaller one.
\* (Bug: the connection stays assigned.)
Recycled_StillAssigned(w) ==
  [waiter[w] EXCEPT !.thread = None, !.exception = "none",
                    !.nonce = IF @ < MaxNonce THEN @ + 1 ELSE @]
Recycled(w) ==
  [waiter[w] EXCEPT !.thread = None, !.assigned = None, !.exception = "none",
                    !.nonce = IF @ < MaxNonce THEN @ + 1 ELSE @]

\* The pool has been closed: throw.  The waiter object is abandoned as it is.
CheckClosed(t) ==
  /\ pc[t] = "awake"
  /\ LockFree
  /\ ~NotClosed
  /\ garbage' = garbage \cup ({waiter[ticket[t].waiter].assigned} \ {None})
  /\ LeaveLoop(t)
  /\ UNCHANGED <<poolVars, availVars, acquired, connectionLeaked, connVars,
                 waitVars, wake, hold, cancelVars>>

\* The wait is over: return the connection or rethrow the exception.
CheckDone(t) ==
  /\ pc[t] = "awake"
  /\ LockFree
  /\ NotClosed
  /\ LET w == ticket[t].waiter
     IN  /\ waiter[w].assigned # None \/ waiter[w].exception # "none"
         /\ waiter' = [waiter EXCEPT ![w] = Recycled(w)]
         /\ hold' = [hold EXCEPT ![t] = waiter[w].assigned]
  /\ LeaveLoop(t)
  /\ UNCHANGED <<poolVars, availVars, acquired, connectionLeaked, connVars,
                 garbage, waiterQueue, permits, wake, cancelVars>>

\* Not yet: go round the loop.
CheckAgain(t) ==
  /\ pc[t] = "awake"
  /\ LockFree
  /\ NotClosed
  /\ waiter[ticket[t].waiter].assigned = None
  /\ waiter[ticket[t].waiter].exception = "none"
  /\ pc' = [pc EXCEPT ![t] = "top"]
  /\ UNCHANGED <<poolVars, availVars, acquired, connectionLeaked, connVars,
                 garbage, waitVars, wake, hold, ticket, cancelVars>>

\* setOnCancelListener(null), once no cancellation is being delivered.
ClearListener(t) ==
  /\ pc[t] = "leave"
  /\ listener[t] # "running"
  /\ listener' = [listener EXCEPT ![t] = "unset"]
  /\ signal' = [signal EXCEPT ![t] = "none"]
  /\ pc' = [pc EXCEPT ![t] = "idle"]
  /\ ticket' = [ticket EXCEPT ![t] = NoTicket]
  /\ UNCHANGED <<poolVars, availVars, acquired, connectionLeaked, connVars,
                 garbage, waitVars, wake, hold>>

-----------------------------------------------------------------------------
(* Cancellation.                                                           *)

\* CancellationSignal.cancel() by any thread: the listener set at this moment
\* is called, after the signal's own lock has been given up.
Cancel(t) ==
  /\ signal[t] = "live"
  /\ signal' = [signal EXCEPT ![t] = "canceled"]
  /\ listener' = [listener EXCEPT ![t] = IF @ = "set" THEN "running" ELSE @]
  /\ UNCHANGED <<poolVars, availVars, acquired, connectionLeaked, connVars,
                 garbage, waitVars, wake, threadVars>>

\* The listener's waiter is still the one it was made for, and still waiting.
\* (Bugs: the nonce, or what became of the waiter, is not looked at.)
CancelIsDue_AnyNonce(t) ==
  LET w == ticket[t].waiter
  IN  waiter[w].assigned = None /\ waiter[w].exception = "none"
CancelIsDue_Answered(t) == waiter[ticket[t].waiter].nonce = ticket[t].nonce
CancelIsDue(t) ==
  LET w == ticket[t].waiter
  IN  /\ waiter[w].nonce = ticket[t].nonce
      /\ waiter[w].assigned = None /\ waiter[w].exception = "none"

\* cancelConnectionWaiterLocked runs off the end of the queue (it asserts that
\* it does not; without assertions it dereferences null and throws).
CancelCrashes(t) ==
  CancelIsDue(t) /\ ticket[t].waiter \notin Range(waiterQueue)

\* The body of onCancel, mLock held.
OnCancelLocked(t) ==
  IF CancelIsDue(t) /\ ~CancelCrashes(t)
  THEN /\ \E i \in 1 .. Len(waiterQueue) :
            /\ waiterQueue[i] = ticket[t].waiter
            /\ Dequeue(i)
       /\ waiter' = [waiter EXCEPT ![ticket[t].waiter].exception = "canceled"]
       /\ StartWake(waiterQueue')
  ELSE UNCHANGED <<waitVars, wake>>

\* The canceling thread delivers the cancellation.
OnCancel(t) ==
  /\ listener[t] = "running"
  /\ LockFree
  /\ OnCancelLocked(t)
  /\ listener' = [listener EXCEPT ![t] = "set"]
  /\ UNCHANGED <<poolVars, availVars, acquired, connectionLeaked, connVars,
                 garbage, threadVars, signal>>

\* The waiting thread delivers it to itself.  It is not in the try block yet:
\* an exception leaves waitForConnection with the spent listener in place.
SelfCancel(t) ==
  /\ pc[t] = "selfCancel"
  /\ LockFree
  /\ OnCancelLocked(t)
  /\ IF CancelCrashes(t)
     THEN /\ pc' = [pc EXCEPT ![t] = "idle"]
          /\ ticket' = [ticket EXCEPT ![t] = NoTicket]
          /\ signal' = [signal EXCEPT ![t] = "none"]
          /\ listener' = [listener EXCEPT ![t] = "unset"]
     ELSE /\ pc' = [pc EXCEPT ![t] = "top"]
          /\ UNCHANGED <<ticket, cancelVars>>
  /\ UNCHANGED <<poolVars, availVars, acquired, connectionLeaked, connVars,
                 garbage, hold>>

-----------------------------------------------------------------------------
(* releaseConnection.                                                      *)

\* Take c out of mAcquiredConnections and out of the session's hands.
GiveBack(t, c) ==
  /\ pc[t] = "idle"
  /\ c = hold[t] /\ c # None
  /\ LockFree
  /\ hold' = [hold EXCEPT ![t] = None]
  /\ acquired' = [acquired EXCEPT ![c] = "none"]
  /\ UNCHANGED <<poolVars, connectionLeaked, primary, garbage, waitVars, pc,
                 ticket, cancelVars>>

\* A closed pool closes what comes back.
ReleaseClosed(t) ==
  \E c \in Conn :
    /\ GiveBack(t, c)
    /\ ~isOpen
    /\ live' = live \ {c}
    /\ UNCHANGED <<configOf, availVars, wake>>

\* recycleConnectionLocked of c: recycled is its answer.
\* (Bug: the answer is always yes.)
RecycleConnection_Yes(c, recycled) ==
  /\ recycled
  /\ \/ acquired[c] = "normal" /\ UNCHANGED <<live, configOf>>
     \/ acquired[c] = "reconfigure" /\ UNCHANGED live
        /\ configOf' = [configOf EXCEPT ![c] = configuration]
     \/ /\ \/ acquired[c] = "discard"
           \/ acquired[c] = "reconfigure" /\ "reconfigure" \in Faults
        /\ live' = live \ {c}
        /\ UNCHANGED configOf
RecycleConnection(c, recycled) ==
  \/ /\ acquired[c] = "normal" /\ recycled
     /\ UNCHANGED <<live, configOf>>
  \/ /\ acquired[c] = "reconfigure" /\ recycled
     /\ configOf' = [configOf EXCEPT ![c] = configuration]
     /\ UNCHANGED live
  \/ /\ \/ acquired[c] = "discard"
        \/ acquired[c] = "reconfigure" /\ "reconfigure" \in Faults
     /\ ~recycled
     /\ live' = live \ {c}
     /\ UNCHANGED configOf

ReleasePrimary(t) ==
  \E c \in Conn, recycled \in BOOLEAN :
    /\ GiveBack(t, c)
    /\ isOpen /\ c \in primary
    /\ RecycleConnection(c, recycled)
    /\ availablePrimary' = IF recycled THEN c ELSE availablePrimary
    /\ StartWake(waiterQueue)
    /\ UNCHANGED availableNonPrimary

\* The pool is full: the connection is closed and nobody is woken.
ReleaseExcess(t) ==
  \E c \in Conn :
    /\ GiveBack(t, c)
    /\ isOpen /\ c \notin primary
    /\ Cardinality(availableNonPrimary) >= maxPoolSize - 1
    /\ live' = live \ {c}
    /\ UNCHANGED <<configOf, availVars, wake>>

ReleaseNonPrimary(t) ==
  \E c \in Conn, recycled \in BOOLEAN :
    /\ GiveBack(t, c)
    /\ isOpen /\ c \notin primary
    /\ Cardinality(availableNonPrimary) < maxPoolSize - 1
    /\ RecycleConnection(c, recycled)
    /\ availableNonPrimary' = IF recycled THEN availableNonPrimary \cup {c}
                                          ELSE availableNonPrimary
    /\ StartWake(waiterQueue)
    /\ UNCHANGED availablePrimary

Release(t) ==
  ReleaseClosed(t) \/ ReleasePrimary(t) \/ ReleaseExcess(t) \/ ReleaseNonPrimary(t)

-----------------------------------------------------------------------------
(* close and reconfigure.                                                  *)

Close ==
  /\ LockFree
  /\ NotClosed
  /\ isOpen' = FALSE
  /\ live' = live \ AvailableConns
  /\ availablePrimary' = None
  /\ availableNonPrimary' = {}
  /\ StartWake(waiterQueue)
  /\ UNCHANGED <<configuration, maxPoolSize, acquired, connectionLeaked, primary,
                 configOf, garbage, waitVars, threadVars, cancelVars>>

\* The modes that cannot change while a connection is acquired.
NeedsIdlePool(k) ==
  k.wal # configuration.wal \/ k.foreignKeys # configuration.foreignKeys

SameOpenFlags(k) == k.wal = configuration.wal /\ k.openFlags = configuration.openFlags

\* Common to all that reconfigure does when it does not throw at once.
MayReconfigure(k) ==
  /\ LockFree
  /\ NotClosed
  /\ NeedsIdlePool(k) => AcquiredConns = {}
  /\ UNCHANGED <<isOpen, connectionLeaked, garbage, waitVars, threadVars, cancelVars>>

\* markAcquiredConnectionsLocked(status): what is to be discarded stays so.
\* (Bug: every mark is overwritten.)
MarkAcquired_Overwrite(status) ==
  acquired' = [c \in Conn |-> IF acquired[c] = "none" THEN "none" ELSE status]
MarkAcquired(status) ==
  acquired' = [c \in Conn |-> IF acquired[c] \in {"none", "discard"}
                              THEN acquired[c] ELSE status]

\* The connections to keep of the available non-primary ones when n may stay.
KeepsAtMost(kept, n) ==
  /\ kept \subseteq availableNonPrimary
  /\ Cardinality(kept) = IF Cardinality(availableNonPrimary) > n
                         THEN n ELSE Cardinality(availableNonPrimary)

\* Open flags are the same: every available connection is reconfigured in
\* place, or closed if that throws.
ReconfigureInPlace(k) ==
  /\ MayReconfigure(k)
  /\ SameOpenFlags(k)
  /\ configuration' = k
  /\ maxPoolSize' = MaxPoolSizeFor(k)
  /\ \E kept \in SUBSET availableNonPrimary, failed \in SUBSET AvailableConns :
       /\ KeepsAtMost(kept, MaxPoolSizeFor(k) - 1)
       /\ "reconfigure" \notin Faults => failed = {}
       /\ availableNonPrimary' = kept \ failed
       /\ availablePrimary' = IF availablePrimary \in failed THEN None
                                                             ELSE availablePrimary
       /\ live' = live \ ((availableNonPrimary \ kept) \cup failed)
  /\ configOf' = [c \in Conn |-> IF c \in AvailableConns THEN k ELSE configOf[c]]
  /\ MarkAcquired("reconfigure")
  /\ StartWake(waiterQueue)
  /\ UNCHANGED primary

\* Open flags change: a new primary connection replaces all there are.
ReconfigureReopening(k) ==
  /\ MayReconfigure(k)
  /\ ~SameOpenFlags(k)
  /\ configuration' = k
  /\ maxPoolSize' = MaxPoolSizeFor(k)
  /\ \E c \in Conn \ live :
       /\ live' = (live \ AvailableConns) \cup {c}
       /\ primary' = primary \cup {c}
       /\ configOf' = [configOf EXCEPT ![c] = k]
       /\ availablePrimary' = c
  /\ availableNonPrimary' = {}
  /\ MarkAcquired("discard")
  /\ StartWake(waiterQueue)

\* The new primary connection cannot be opened.  After a change of WAL mode
\* everything has been closed before, and reconfigure throws without waking.
ReconfigureFails(k) ==
  /\ MayReconfigure(k)
  /\ "open" \in Faults
  /\ k.wal # configuration.wal
  /\ live' = live \ AvailableConns
  /\ availablePrimary' = None
  /\ availableNonPrimary' = {}
  /\ UNCHANGED <<configuration, maxPoolSize, acquired, primary, configOf, wake>>

-----------------------------------------------------------------------------
(* Leaks.                                                                  *)

\* A session is abandoned with the connection it holds.
Leak(t) ==
  /\ "leak" \in Faults
  /\ pc[t] = "idle" /\ hold[t] # None
  /\ garbage' = garbage \cup {hold[t]}
  /\ hold' = [hold EXCEPT ![t] = None]
  /\ UNCHANGED <<poolVars, availVars, acquired, connectionLeaked, connVars,
                 waitVars, wake, pc, ticket, cancelVars>>

\* The garbage collector clears the entry of the weak map.
ClearWeakEntry(c) ==
  /\ c \in garbage
  /\ acquired[c] # "none"
  /\ acquired' = [acquired EXCEPT ![c] = "none"]
  /\ UNCHANGED <<poolVars, availVars, connectionLeaked, connVars, garbage,
                 waitVars, wake, threadVars, cancelVars>>

\* SQLiteConnection.finalize: raise the flag, then close the connection.
Finalize(c) ==
  /\ c \in garbage
  /\ acquired[c] = "none"
  /\ connectionLeaked' = TRUE
  /\ live' = live \ {c}
  /\ garbage' = garbage \ {c}
  /\ UNCHANGED <<poolVars, availVars, acquired, primary, configOf, waitVars,
                 wake, threadVars, cancelVars>>

-----------------------------------------------------------------------------

\* open(): the pool with its primary connection available.
Init ==
  /\ configuration \in Configs
  /\ maxPoolSize = MaxPoolSizeFor(configuration)
  /\ \E c \in Conn :
       /\ availablePrimary = c
       /\ live = {c}
       /\ primary = {c}
  /\ isOpen = TRUE
  /\ availableNonPrimary = {}
  /\ acquired = [c \in Conn |-> "none"]
  /\ configOf = [c \in Conn |-> configuration]
  /\ connectionLeaked = FALSE
  /\ garbage = {}
  /\ waiter = [w \in Waiter |-> [thread |-> None, priority |-> 0,
                 wantPrimary |-> FALSE, assigned |-> None, exception |-> "none",
                 nonce |-> 0]]
  /\ waiterQueue = <<>>
  /\ wake = NotWaking
  /\ permits = {}
  /\ pc = [t \in Thread |-> "idle"]
  /\ hold = [t \in Thread |-> None]
  /\ ticket = [t \in Thread |-> NoTicket]
  /\ signal = [t \in Thread |-> "none"]
  /\ listener = [t \in Thread |-> "unset"]

Check(t) == CheckClosed(t) \/ CheckDone(t) \/ CheckAgain(t)

\* What a thread does by itself once it waits: one of these at a time.
Proceed(t) ==
  \/ SetListener(t) \/ SelfCancel(t) \/ PollLeakFlag(t) \/ RecoverFromLeak(t)
  \/ Unpark(t) \/ Check(t) \/ ClearListener(t)

ThreadStep(t) ==
  \/ \E r \in Requests : AcquireNow(t, r) \/ AcquireWaits(t, r)
  \/ Proceed(t) \/ Release(t) \/ Leak(t)

Reconfigure(k) ==
  ReconfigureInPlace(k) \/ ReconfigureReopening(k) \/ ReconfigureFails(k)

Next ==
  \/ WakeStep
  \/ \E t \in Thread : ThreadStep(t) \/ Cancel(t) \/ OnCancel(t)
  \/ Close
  \/ \E k \in Configs : <<configuration, k>> \in Switches /\ Reconfigure(k)
  \/ \E c \in Conn : ClearWeakEntry(c) \/ Finalize(c)

Spec == Init /\ [][Next]_vars

\* Threads run, parks time out, and the monitor mLock starves nobody (strong
\* fairness, because steps under the lock are disabled again and again).
Fairness == WF_vars(WakeStep) /\ \A t \in Thread : SF_vars(Proceed(t))

\* Cancellations are delivered and the garbage collector gets round to every
\* connection sessions abandon; sessions promise nothing.
FairSpec ==
  /\ Spec /\ Fairness
  /\ \A t \in Thread : SF_vars(OnCancel(t))
  /\ \A c \in Conn : WF_vars(ClearWeakEntry(c) \/ Finalize(c))

-----------------------------------------------------------------------------
(* Properties.                                                             *)

WaitingPcs == {"listen", "selfCancel", "top", "recover", "parked", "awake"}

\* The fields of a waiter object that matter.
ConnectionWaiter ==
  [thread : Thread \cup {None}, priority : 0..1, wantPrimary : BOOLEAN,
   assigned : Conn \cup {None}, exception : {"none", "failed", "canceled"},
   nonce : 0..MaxNonce]

\* Every variable has its type.
TypeOK ==
  /\ isOpen \in BOOLEAN
  /\ configuration \in Configs
  /\ maxPoolSize = MaxPoolSizeFor(configuration)
  /\ availablePrimary \in Conn \cup {None}
  /\ availableNonPrimary \in SUBSET Conn
  /\ acquired \in [Conn -> {"none", "normal", "reconfigure", "discard"}]
  /\ connectionLeaked \in BOOLEAN
  /\ live \in SUBSET Conn
  /\ primary \in SUBSET Conn
  /\ configOf \in [Conn -> Configs]
  /\ garbage \in SUBSET Conn
  /\ waiter \in [Waiter -> ConnectionWaiter]
  /\ waiterQueue \in Seq(Waiter)
  /\ wake \in [at : Nat, noPrimary : BOOLEAN, noNonPrimary : BOOLEAN]
  /\ permits \in SUBSET Thread
  /\ pc \in [Thread -> WaitingPcs \cup {"idle", "leave"}]
  /\ hold \in [Thread -> Conn \cup {None}]
  /\ ticket \in [Thread -> [waiter : Waiter \cup {None}, nonce : 0..MaxNonce]]
  /\ signal \in [Thread -> {"none", "live", "canceled"}]
  /\ listener \in [Thread -> {"unset", "set", "running"}]

\* What the pool has put down for a thread that has not picked it up yet.
AssignedTo(t) ==
  IF pc[t] \in WaitingPcs THEN waiter[ticket[t].waiter].assigned ELSE None

\* What a thread has, or only needs to pick up.
Possession(t) == {hold[t], AssignedTo(t)} \ {None}

\* Every open connection has exactly one owner: the pool, or one session that
\* holds it or is about to pick it up, or nobody but the garbage collector; and
\* the map of acquired connections lists what sessions own (SQLiteConnectionPool
\* class comment: "opened connections are always owned").
ExclusiveOwnership ==
  /\ \A t, u \in Thread : t # u => Possession(t) \cap Possession(u) = {}
  /\ \A t \in Thread :
       /\ hold[t] = None \/ AssignedTo(t) = None
       /\ Possession(t) \subseteq AcquiredConns
       /\ Possession(t) \cap garbage = {}
  /\ AvailableConns \cap (AcquiredConns \cup garbage) = {}
  /\ availablePrimary \notin availableNonPrimary
  /\ \A c \in Conn :
       LET owned == \E t \in Thread : c \in Possession(t)
       IN  /\ c \in live <=> c \in AvailableConns \/ c \in garbage \/ owned
           /\ c \in AcquiredConns => c \in garbage \/ owned

\* At most one primary connection is in use or ready for use, those being
\* phased out by a change of open flags aside; what the pool keeps in its
\* primary slot is one and what it keeps in its list is not.
SinglePrimary ==
  /\ \A c, d \in primary \cap (AvailableConns \cup AcquiredConns) :
       acquired[c] # "discard" /\ acquired[d] # "discard" => c = d
  /\ {availablePrimary} \ {None} \subseteq primary
  /\ availableNonPrimary \cap primary = {}

\* A finalized leak that no wake loop has run for yet.
LeakPending ==
  \/ connectionLeaked
  \/ \E c \in garbage : acquired[c] = "none"
  \/ \E t \in Thread : pc[t] = "recover"

\* While the lock is free nobody waits in the queue of an open pool for a
\* connection it could have, not even where releaseConnection closes a
\* connection without waking anyone.
NoLostWakeup ==
  LockFree /\ isOpen /\ ~LeakPending =>
    \A w \in Range(waiterQueue) : NothingToAcquire(~waiter[w].wantPrimary, TRUE)

\* A thread that sleeps, or is going to, is still queued or will be woken by a
\* permit: no assignment, exception or closure waits for the 30 second timeout.
DequeuedIsUnparked ==
  \A t \in Thread : pc[t] \in WaitingPcs \ {"awake"} =>
    ticket[t].waiter \in Range(waiterQueue) \/ t \in permits

\* The queue holds each waiter once, by descending priority, and no waiter that
\* has been answered, and each belongs to the thread that waits with it.
QueueInOrder ==
  /\ \A i, j \in DOMAIN waiterQueue : i < j =>
       /\ waiterQueue[i] # waiterQueue[j]
       /\ waiter[waiterQueue[i]].priority >= waiter[waiterQueue[j]].priority
  /\ \A w \in Range(waiterQueue) :
       /\ waiter[w].assigned = None /\ waiter[w].exception = "none"
       /\ \E t \in Thread : /\ pc[t] \in WaitingPcs
                            /\ ticket[t] = [waiter |-> w, nonce |-> waiter[w].nonce]
                            /\ waiter[w].thread = t

\* What the other invariants rest on: the wake loop stays inside the queue, a
\* waiting thread has a waiter object of its own and holds nothing, a listener
\* refers to a waiter object, and an object nobody uses is blank.
WaitersInUse ==
  /\ wake = NotWaking \/ wake.at \in 1 .. Len(waiterQueue)
  /\ \A t \in Thread :
       /\ pc[t] \in WaitingPcs => /\ ticket[t].waiter \in Waiter
                                  /\ waiter[ticket[t].waiter].thread = t
                                  /\ hold[t] = None
       /\ listener[t] # "unset" => signal[t] # "none" /\ ticket[t].waiter \in Waiter
       /\ pc[t] = "idle" => signal[t] = "none"
       /\ pc[t] = "listen" => signal[t] # "none"
  /\ \A w \in Waiter : waiter[w].thread = None =>
       waiter[w].assigned = None /\ waiter[w].exception = "none"

\* A closed pool's queue is emptied from the front, before the lock is free.
ClosedDrains ==
  ~isOpen => IF LockFree THEN waiterQueue = <<>> ELSE wake.at = 1

\* The inductive invariant of the pool.
PoolInvariant ==
  /\ TypeOK /\ WaitersInUse /\ ClosedDrains
  /\ QueueInOrder /\ ExclusiveOwnership /\ SinglePrimary

PositionIn(q, w) == CHOOSE i \in DOMAIN q : q[i] = w

\* Requests of one priority are queued first come, first served, and nobody in
\* the queue is ever overtaken by a request of the same or a lower priority.
NoOvertaking ==
  [][\A v \in Range(waiterQueue) \cap Range(waiterQueue') : \A w \in Range(waiterQueue') \ {v} :
       \/ /\ w \in Range(waiterQueue)
          /\ PositionIn(waiterQueue, v) < PositionIn(waiterQueue, w)
       \/ /\ w \notin Range(waiterQueue)
          /\ waiter[v].priority >= waiter'[w].priority
       => PositionIn(waiterQueue', v) < PositionIn(waiterQueue', w)]_waiterQueue

\* v would have taken connection c.
WouldTake(v, c) == ~waiter[v].wantPrimary \/ c \in primary'

\* A waiter gets a connection only if nobody ahead of it would have taken it,
\* and a newcomer only if nobody in the queue would have (unless a leak that was
\* not noticed yet has just freed it).
GrantInOrder ==
  [][\/ LeakPending
     \/ /\ \A i \in DOMAIN waiterQueue :
             LET c == waiter'[waiterQueue[i]].assigned
             IN  c # None => \A j \in 1 .. i - 1 : ~WouldTake(waiterQueue[j], c)
        /\ \A t \in Thread : pc[t] = "idle" /\ hold'[t] \notin {None, hold[t]} =>
             \A v \in Range(waiterQueue) : ~WouldTake(v, hold'[t])
    ]_<<waiter, hold>>

\* The request a cancellation ends is the one it was issued for, although
\* waiter objects are reused and listeners run late.
CancelHitsOwnRequest ==
  \A t \in Thread :
    pc[t] \in WaitingPcs /\ waiter[ticket[t].waiter].exception = "canceled" =>
      signal[t] = "canceled"

\* cancelConnectionWaiterLocked's "assert current != null": a waiter to be
\* canceled is found in the queue.  Not so once close has emptied it.
CancelFindsWaiter ==
  \A t \in Thread : listener[t] = "running" \/ pc[t] = "selfCancel" => ~CancelCrashes(t)

\* The same while the pool is open.
OpenCancelFindsWaiter == isOpen => CancelFindsWaiter

\* Once closed, a pool keeps nothing, opens nothing and hands nothing out.
ClosedRefuses ==
  [][~isOpen => /\ AvailableConns' = {}
                /\ live' \subseteq live
                /\ \A t \in Thread : hold'[t] \in {hold[t], None}]_vars

\* What the pool has ready, and what it will take back as it is, is configured
\* as the pool is now; what it will reconfigure in place has its open flags.
ConfigurationPropagates ==
  isOpen =>
    /\ \A c \in AvailableConns : configOf[c] = configuration
    /\ \A c \in AcquiredConns \ garbage :
         /\ acquired[c] = "normal" => configOf[c] = configuration
         /\ acquired[c] = "reconfigure" => SameOpenFlags(configOf[c])

PooledConnections == Cardinality(AcquiredConns \cup AvailableConns)

\* setMaxConnectionPoolSizeLocked's bound on open connections.
PoolSizeBound == isOpen => PooledConnections <= maxPoolSize

\* Not so, though the class comment says that "a connection is either owned by the
\* pool, or it has been acquired by a SQLiteSession": one assigned to a waiter just
\* before the pool closes stays open with nobody.
OwnedByPoolOrSession ==
  live \subseteq AvailableConns \cup UNION {Possession(t) : t \in Thread}

\* Not so, though CONNECTION_FLAG_PRIMARY_CONNECTION_AFFINITY speaks of "exclusive
\* access to the primary connection": reopened for writing, the pool makes a second
\* one while a session still has the first.
PrimaryIsExclusive ==
  \A t, u \in Thread : hold[t] \in primary /\ hold[u] \in primary => t = u

\* Every request is answered in the end if the connections come back, leaked
\* ones included (requests of one priority for the primary connection).
EveryRequestAnswered ==
  (\A t \in Thread : SF_vars(Release(t))) =>
     \A t \in Thread : pc[t] \in WaitingPcs ~> pc[t] = "idle"

\* A canceled request ends, whatever the sessions with the connections do.
CanceledRequestEnds ==
  \A t \in Thread : signal[t] = "canceled" ~> pc[t] = "idle"

\* Nobody waits for a closed pool.
ClosedPoolLetsGo == ~isOpen ~> \A t \in Thread : pc[t] = "idle"

-----------------------------------------------------------------------------
(* The pool implements the lease contract.                                 *)

LeaseOf(t) == IF hold[t] # None THEN hold[t] ELSE AssignedTo(t)

LeasePhase(t) ==
  CASE hold[t] # None -> "holding"
    [] hold[t] = None /\ pc[t] \notin WaitingPcs -> "idle"
    [] hold[t] = None /\ pc[t] \in WaitingPcs ->
         IF AssignedTo(t) # None THEN "granted" ELSE "waiting"

WaitsForPrimary(t) ==
  LeasePhase(t) = "waiting" /\ waiter[ticket[t].waiter].wantPrimary

Phases == [t \in Thread |-> LeasePhase(t)]
Leases == [t \in Thread |-> LeaseOf(t)]
PrimaryAwaited == {t \in Thread : WaitsForPrimary(t)}
PrimaryLeased == primary \cap {LeaseOf(t) : t \in Thread}

Contract ==
  INSTANCE ConnectionLease WITH
    phase <- Phases, lease <- Leases, wantsPrimary <- PrimaryAwaited,
    primaryLeases <- PrimaryLeased

\* Every step of the pool is a step of the lease contract or none at all.
ImplementsContract == Contract!Spec
=============================================================================
