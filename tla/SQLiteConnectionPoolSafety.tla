---------------------- MODULE SQLiteConnectionPoolSafety ----------------------
(***************************************************************************)
(* What the invariant of the pool gives: proofs, for any number of threads *)
(* and connections, that no waiter is forgotten, that a cancellation hits  *)
(* the request it is for, that connections are handed out in order and as  *)
(* they are configured now, that a closed pool gives nothing away, and     *)
(* that the pool stays within its bound.                                   *)
(***************************************************************************)
EXTENDS SQLiteConnectionPoolProofs, FiniteSetTheorems

-----------------------------------------------------------------------------
(* A closed pool.                                                          *)

ClosedKeepsNothing == ~isOpen => AvailableConns = {}

\* A step hands nothing out and takes nothing in.
GivesNothing ==
  /\ isOpen' = isOpen /\ availablePrimary' = availablePrimary
  /\ availableNonPrimary' = availableNonPrimary
  /\ live' \subseteq live
  /\ \A t \in Thread : hold'[t] \in {hold[t], None}

\* Once closed, no step of the pool opens or hands out anything.
LEMMA ClosedStep ==
  ASSUME PoolInvariant, ~isOpen, Next
  PROVE  GivesNothing
  <1> USE DEF poolVars, availVars, connVars, threadVars
  <1>0. hold \in [Thread -> Conn \cup {None}]
    BY DEF PoolInvariant, TypeOK
  <1>1. CASE WakeStep
    BY <1>1 DEF WakeStep, WakeClosed, WakeAssign, WakeThrow, WakeSkip, GivesNothing
  <1>2. ASSUME NEW t \in Thread, (\E r \in Requests : AcquireNow(t, r) \/ AcquireWaits(t, r)) \/ Leak(t)
        PROVE  GivesNothing
    BY <1>0, <1>2 DEF AcquireNow, AcquireWaits, NotClosed, Leak, GivesNothing
  <1>3. ASSUME NEW t \in Thread, Proceed(t) PROVE GivesNothing
    BY <1>3 DEF Proceed, SetListener, SelfCancel, PollLeakFlag, RecoverFromLeak, Unpark, Check,
         CheckClosed, CheckDone, CheckAgain, ClearListener, NotClosed, GivesNothing
  <1>4. ASSUME NEW t \in Thread, Release(t) PROVE GivesNothing
    BY <1>0, <1>4 DEF Release, ReleaseClosed, ReleasePrimary, ReleaseExcess, ReleaseNonPrimary,
         GiveBack, GivesNothing
  <1>5. ASSUME NEW t \in Thread, Cancel(t) \/ OnCancel(t) PROVE GivesNothing
    BY <1>5 DEF Cancel, OnCancel, GivesNothing
  <1>6. ~Close
    BY DEF Close, NotClosed
  <1>7. \A k \in Configs : ~Reconfigure(k)
    BY DEF Reconfigure, ReconfigureInPlace, ReconfigureReopening, ReconfigureFails,
         MayReconfigure, NotClosed
  <1>8. ASSUME NEW c \in Conn, ClearWeakEntry(c) \/ Finalize(c) PROVE GivesNothing
    BY <1>8 DEF ClearWeakEntry, Finalize, GivesNothing
  <1> QED  BY <1>1, <1>2, <1>3, <1>4, <1>5, <1>6, <1>7, <1>8 DEF Next, ThreadStep

\* Nor does the step that closes it leave anything available.
LEMMA OpenStep ==
  ASSUME Next, isOpen
  PROVE  isOpen' \/ Close
  <1> USE DEF poolVars
  <1>1. CASE WakeStep
    BY <1>1 DEF WakeStep, WakeClosed, WakeAssign, WakeThrow, WakeSkip
  <1>2. ASSUME NEW t \in Thread, (\E r \in Requests : AcquireNow(t, r) \/ AcquireWaits(t, r)) \/ Leak(t)
        PROVE  isOpen'
    BY <1>2 DEF AcquireNow, AcquireWaits, Leak
  <1>3. ASSUME NEW t \in Thread, Proceed(t) PROVE isOpen'
    BY <1>3 DEF Proceed, SetListener, SelfCancel, PollLeakFlag, RecoverFromLeak, Unpark, Check,
         CheckClosed, CheckDone, CheckAgain, ClearListener
  <1>4. ASSUME NEW t \in Thread, Release(t) \/ Cancel(t) \/ OnCancel(t) PROVE isOpen'
    BY <1>4 DEF Release, ReleaseClosed, ReleasePrimary, ReleaseExcess, ReleaseNonPrimary,
         GiveBack, Cancel, OnCancel
  <1>5. ASSUME NEW k \in Configs, Reconfigure(k) PROVE isOpen'
    BY <1>5 DEF Reconfigure, ReconfigureInPlace, ReconfigureReopening, ReconfigureFails, MayReconfigure
  <1>6. ASSUME NEW c \in Conn, ClearWeakEntry(c) \/ Finalize(c) PROVE isOpen'
    BY <1>6 DEF ClearWeakEntry, Finalize
  <1> QED  BY <1>1, <1>2, <1>3, <1>4, <1>5, <1>6 DEF Next, ThreadStep

\* A closed pool keeps nothing.
LEMMA ClosedKeepsNothingStep ==
  PoolInvariant /\ ClosedKeepsNothing /\ [Next]_vars => ClosedKeepsNothing'
  <1> SUFFICES ASSUME PoolInvariant, ClosedKeepsNothing, [Next]_vars, ~isOpen'
               PROVE  AvailableConns' = {}
    BY DEF ClosedKeepsNothing
  <1>1. CASE UNCHANGED vars
    BY <1>1 DEF ClosedKeepsNothing, vars, poolVars, availVars, AvailableConns
  <1>2. CASE Next /\ isOpen
    BY <1>2, OpenStep DEF Close, AvailableConns
  <1>3. CASE Next /\ ~isOpen
    BY <1>3, ClosedStep DEF ClosedKeepsNothing, GivesNothing, AvailableConns
  <1> QED  BY <1>1, <1>2, <1>3

\* Once closed, a pool keeps nothing, opens nothing and hands nothing out: a connection
\* that comes back is closed, and no request that was waiting gets one.
THEOREM ClosedPoolRefuses == Spec => ClosedRefuses
  <1> DEFINE Refuses ==
        ~isOpen => /\ AvailableConns' = {}
                   /\ live' \subseteq live
                   /\ \A t \in Thread : hold'[t] \in {hold[t], None}
  <1>1. Init => ClosedKeepsNothing
    BY DEF Init, ClosedKeepsNothing
  <1>2. PoolInvariant /\ ClosedKeepsNothing /\ [Next]_vars => [Refuses]_vars
    BY ClosedStep DEF ClosedKeepsNothing, GivesNothing, AvailableConns
  <1> QED
    BY <1>1, <1>2, PoolInvariantHolds, ClosedKeepsNothingStep, PTL DEF Spec, ClosedRefuses

-----------------------------------------------------------------------------
(* Configurations.                                                         *)

\* What is configured as before, or taken over, stays as it should be.
LEMMA ConfigurationFrame ==
  ASSUME ConfigurationPropagates, isOpen' => isOpen, UNCHANGED <<configuration, configOf>>,
         AvailableConns' \subseteq AvailableConns,
         garbage \subseteq garbage',
         \A c \in Conn : acquired'[c] \in {acquired[c], "none"}
  PROVE  ConfigurationPropagates'
  BY DEF ConfigurationPropagates, AcquiredConns, SameOpenFlags

\* What is opened or taken has the configuration the pool has.
LEMMA AcquireKeepsConfiguration ==
  ASSUME PoolInvariant, ConfigurationPropagates, NEW c \in Conn, isOpen,
         TryAcquireNonPrimary(c) \/ TryAcquirePrimary(c),
         UNCHANGED <<configuration, garbage, isOpen>>
  PROVE  ConfigurationPropagates'
  <1>1. /\ acquired' = [acquired EXCEPT ![c] = "normal"]
        /\ AcquiredConns' = AcquiredConns \cup {c}
        /\ AvailableConns' = AvailableConns \ {c}
    BY TryAcquireFacts
  <1>2. configOf'[c] = configuration /\ \A d \in Conn \ {c} : configOf'[d] = configOf[d]
    <2>1. configOf \in [Conn -> Configs]
      BY DEF PoolInvariant, TypeOK
    <2>2. CASE c \in AvailableConns /\ UNCHANGED configOf
      BY <2>2 DEF ConfigurationPropagates
    <2>3. CASE configOf' = [configOf EXCEPT ![c] = configuration]
      BY <2>1, <2>3
    <2>4. c \in availableNonPrimary \/ c = availablePrimary => c \in AvailableConns
      BY PoolAssumption DEF AvailableConns
    <2> QED
      BY <2>2, <2>3, <2>4 DEF TryAcquireNonPrimary, TryAcquirePrimary, OpenConnection, connVars
  <1>3. \A d \in Conn : acquired'[d] = IF d = c THEN "normal" ELSE acquired[d]
    BY <1>1 DEF PoolInvariant, TypeOK
  <1>4. AvailableConns \subseteq Conn
    BY DEF PoolInvariant, TypeOK, AvailableConns
  <1>5. \A d \in AvailableConns' : configOf'[d] = configuration'
    BY <1>1, <1>2, <1>4 DEF ConfigurationPropagates
  <1>6. \A d \in AcquiredConns' \ garbage' :
          /\ acquired'[d] = "normal" => configOf'[d] = configuration'
          /\ acquired'[d] = "reconfigure" => SameOpenFlags(configOf[d])'
    <2>1. \A d \in Conn \ {c} : configOf'[d] = configOf[d] /\ acquired'[d] = acquired[d]
      BY <1>2, <1>3
    <2>2. \A d \in Conn \ {c} : SameOpenFlags(configOf[d])' <=> SameOpenFlags(configOf[d])
      BY <2>1 DEF SameOpenFlags
    <2>3. AcquiredConns' \subseteq Conn
      BY DEF AcquiredConns
    <2>4. acquired'[c] = "normal" /\ configOf'[c] = configuration'
      BY <1>2, <1>3
    <2> QED
      BY <1>1, <2>1, <2>2, <2>3, <2>4 DEF ConfigurationPropagates
  <1> QED
    BY <1>5, <1>6 DEF ConfigurationPropagates

\* The wake loop changes the configuration of nothing it does not hand out.
LEMMA WakeKeepsConfiguration ==
  ASSUME PoolInvariant, ConfigurationPropagates, WakeStep
  PROVE  ConfigurationPropagates'
  <1> USE DEF poolVars, availVars, connVars
  <1>1. CASE WakeClosed
    BY <1>1 DEF WakeClosed, ConfigurationPropagates
  <1>2. CASE WakeAssign
    <2>1. /\ isOpen
          /\ UNCHANGED <<configuration, garbage, isOpen>>
          /\ \E c \in Conn : TryAcquire(WakeTriesNonPrimary, WakeTriesPrimary, c)
      BY <1>2 DEF WakeAssign
    <2>2. PICK c \in Conn : TryAcquireNonPrimary(c) \/ TryAcquirePrimary(c)
      BY <2>1 DEF TryAcquire
    <2> QED
      BY <2>1, <2>2, AcquireKeepsConfiguration
  <1>3. CASE WakeThrow \/ WakeSkip
    <2>1. UNCHANGED <<isOpen, configuration, configOf, availablePrimary, availableNonPrimary, garbage, acquired>>
      BY <1>3 DEF WakeThrow, WakeSkip
    <2> QED
      BY <2>1, ConfigurationFrame DEF AvailableConns
  <1> QED
    BY <1>1, <1>2, <1>3 DEF WakeStep

\* Nor does anything a waiting thread or a canceling one does.
LEMMA ProceedKeepsConfiguration ==
  ASSUME PoolInvariant, ConfigurationPropagates, NEW t \in Thread,
         Proceed(t) \/ Cancel(t) \/ OnCancel(t) \/ \E r \in Requests : AcquireWaits(t, r)
  PROVE  ConfigurationPropagates'
  <1>1. /\ UNCHANGED <<isOpen, configuration, configOf, availablePrimary, availableNonPrimary, acquired>>
        /\ garbage \subseteq garbage'
    BY DEF Proceed, SetListener, SelfCancel, PollLeakFlag, RecoverFromLeak, Unpark, Check,
       CheckClosed, CheckDone, CheckAgain, ClearListener, Cancel, OnCancel, AcquireWaits,
       poolVars, availVars, connVars
  <1> QED
    BY <1>1, ConfigurationFrame DEF AvailableConns

\* A connection that comes back is configured as the pool is, or closed.
LEMMA ReleaseKeepsConfiguration ==
  ASSUME PoolInvariant, ConfigurationPropagates, NEW t \in Thread, Release(t)
  PROVE  ConfigurationPropagates'
  <1>1. PICK c \in Conn :
          /\ GiveBack(t, c)
          /\ \/ UNCHANGED <<configOf, availVars>>
             \/ \E recycled \in BOOLEAN :
                  /\ isOpen
                  /\ RecycleConnection(c, recycled)
                  /\ AvailableConns' \subseteq AvailableConns \cup (IF recycled THEN {c} ELSE {})
    BY DEF Release, ReleaseClosed, ReleasePrimary, ReleaseExcess, ReleaseNonPrimary, AvailableConns
  <1>2. /\ UNCHANGED <<isOpen, configuration, garbage>>
        /\ acquired'[c] = "none"
        /\ \A d \in Conn \ {c} : acquired'[d] = acquired[d]
        /\ c \in AcquiredConns /\ c \notin garbage /\ c \notin AvailableConns
    BY <1>1, GiveBackFacts DEF GiveBack, poolVars
  <1>3. CASE UNCHANGED <<configOf, availVars>>
    BY <1>2, <1>3, ConfigurationFrame DEF availVars, AvailableConns
  <1>4. ASSUME NEW recycled \in BOOLEAN, isOpen,
               RecycleConnection(c, recycled),
               AvailableConns' \subseteq AvailableConns \cup (IF recycled THEN {c} ELSE {})
        PROVE  ConfigurationPropagates'
    <2>1. /\ \A d \in Conn \ {c} : configOf'[d] = configOf[d]
          /\ recycled => configOf'[c] = configuration
      BY <1>2, <1>4 DEF RecycleConnection, ConfigurationPropagates, PoolInvariant, TypeOK
    <2>2. \A d \in Conn \ {c} : SameOpenFlags(configOf[d])' <=> SameOpenFlags(configOf[d])
      BY <1>2, <2>1 DEF SameOpenFlags
    <2>3. AcquiredConns' = AcquiredConns \ {c} /\ AvailableConns \subseteq Conn
          /\ AcquiredConns \subseteq Conn
      BY <1>1, GiveBackFacts DEF PoolInvariant, TypeOK, AvailableConns, AcquiredConns
    <2> QED
      BY <1>2, <1>4, <2>1, <2>2, <2>3 DEF ConfigurationPropagates
  <1> QED
    BY <1>1, <1>3, <1>4

\* A reconfiguration changes what is available at once and marks the rest for it.
LEMMA ReconfigureKeepsConfiguration ==
  ASSUME PoolInvariant, ConfigurationPropagates, NEW k \in Configs, Reconfigure(k)
  PROVE  ConfigurationPropagates'
  <1>0. /\ isOpen /\ isOpen' /\ garbage' = garbage
        /\ AvailableConns \cap AcquiredConns = {}
        /\ AvailableConns \subseteq Conn /\ AcquiredConns \subseteq Conn
        /\ configOf \in [Conn -> Configs]
        /\ acquired \in [Conn -> {"none", "normal", "reconfigure", "discard"}]
    BY DEF Reconfigure, ReconfigureInPlace, ReconfigureReopening, ReconfigureFails,
       MayReconfigure, NotClosed, PoolInvariant, TypeOK, AvailableConns, AcquiredConns,
       ExclusiveOwnership
  <1>1. CASE ReconfigureInPlace(k)
    <2>1. /\ MarkAcquired("reconfigure") /\ SameOpenFlags(k)
          /\ configuration' = k
          /\ configOf' = [c \in Conn |-> IF c \in AvailableConns THEN k ELSE configOf[c]]
          /\ AvailableConns' \subseteq AvailableConns
      BY <1>1 DEF ReconfigureInPlace, AvailableConns
    <2>2. \A d \in Conn : acquired'[d] \in {"none", "discard", "reconfigure"}
                          /\ (acquired'[d] = "reconfigure" => acquired[d] \in {"normal", "reconfigure"})
      BY <1>0, <2>1 DEF MarkAcquired
    <2>3. AcquiredConns' = AcquiredConns
      BY <2>1, MarkAcquiredFacts
    <2>4. \A d \in AcquiredConns' \ garbage' :
            /\ acquired'[d] # "normal"
            /\ acquired'[d] = "reconfigure" => SameOpenFlags(configOf[d])'
      <3> SUFFICES ASSUME NEW d \in AcquiredConns \ garbage, acquired'[d] = "reconfigure"
                   PROVE  SameOpenFlags(configOf[d])'
        BY <1>0, <2>2, <2>3
      <3>1. d \in Conn /\ configOf'[d] = configOf[d]
        BY <1>0, <2>1
      <3>2. configOf[d] = configuration \/ SameOpenFlags(configOf[d])
        BY <1>0, <2>2, <3>1 DEF ConfigurationPropagates
      <3> QED
        BY <2>1, <3>1, <3>2 DEF SameOpenFlags
    <2> QED
      BY <1>0, <2>1, <2>4 DEF ConfigurationPropagates
  <1>2. CASE ReconfigureReopening(k)
    <2>1. PICK c \in Conn : /\ configOf' = [configOf EXCEPT ![c] = k]
                            /\ configuration' = k
                            /\ AvailableConns' = {c}
                            /\ MarkAcquired("discard")
      BY <1>2, PoolAssumption DEF ReconfigureReopening, AvailableConns
    <2>2. AcquiredConns' = AcquiredConns /\ \A d \in AcquiredConns : acquired'[d] = "discard"
      BY <2>1, MarkAcquiredFacts
    <2> QED
      BY <1>0, <2>1, <2>2 DEF ConfigurationPropagates
  <1>3. CASE ReconfigureFails(k)
    <2>1. /\ UNCHANGED <<configuration, configOf, acquired>>
          /\ AvailableConns' = {}
      BY <1>3 DEF ReconfigureFails, AvailableConns
    <2> QED
      BY <1>0, <2>1, ConfigurationFrame
  <1> QED
    BY <1>1, <1>2, <1>3 DEF Reconfigure

\* Every step keeps what is available configured as the pool is.
LEMMA ConfigurationStep ==
  PoolInvariant /\ ConfigurationPropagates /\ [Next]_vars => ConfigurationPropagates'
  <1> SUFFICES ASSUME PoolInvariant, ConfigurationPropagates, [Next]_vars
               PROVE  ConfigurationPropagates'
    OBVIOUS
  <1> USE DEF poolVars, availVars, connVars
  <1>1. ASSUME NEW t \in Thread, NEW r \in Requests, AcquireNow(t, r)
        PROVE  ConfigurationPropagates'
    <2>1. PICK c \in Conn : TryAcquire(~r.wantPrimary, TRUE, c)
      BY <1>1 DEF AcquireNow
    <2> QED
      BY <1>1, <2>1, AcquireKeepsConfiguration DEF AcquireNow, TryAcquire, NotClosed
  <1>2. ASSUME NEW t \in Thread, Leak(t) PROVE ConfigurationPropagates'
    <2>1. UNCHANGED <<isOpen, configuration, configOf, acquired>> /\ garbage \subseteq garbage'
          /\ AvailableConns' = AvailableConns
      BY <1>2 DEF Leak, AvailableConns
    <2> QED
      BY <2>1, ConfigurationFrame
  <1>3. CASE Close
    BY <1>3 DEF Close, ConfigurationPropagates
  <1>4. ASSUME NEW c \in Conn, ClearWeakEntry(c) \/ Finalize(c)
        PROVE  ConfigurationPropagates'
    <2>1. /\ UNCHANGED <<isOpen, configuration, configOf>>
          /\ AvailableConns' = AvailableConns
          /\ c \in garbage
          /\ garbage' \in {garbage, garbage \ {c}}
          /\ \A d \in Conn : acquired'[d] = IF d = c THEN "none" ELSE acquired[d]
      BY <1>4 DEF ClearWeakEntry, Finalize, AvailableConns, PoolInvariant, TypeOK
    <2>2. AcquiredConns' \ garbage' \subseteq AcquiredConns \ garbage
      BY <2>1 DEF AcquiredConns
    <2>3. \A d \in Conn : SameOpenFlags(configOf[d])' <=> SameOpenFlags(configOf[d])
      BY <2>1 DEF SameOpenFlags
    <2> QED
      BY <2>1, <2>2, <2>3 DEF ConfigurationPropagates, AcquiredConns
  <1>5. CASE UNCHANGED vars
    <2>1. UNCHANGED <<isOpen, configuration, configOf, acquired, garbage>>
          /\ AvailableConns' = AvailableConns
      BY <1>5 DEF vars, AvailableConns
    <2> QED
      BY <2>1, ConfigurationFrame
  <1> QED
    BY <1>1, <1>2, <1>3, <1>4, <1>5, WakeKeepsConfiguration, ProceedKeepsConfiguration,
       ReleaseKeepsConfiguration, ReconfigureKeepsConfiguration
       DEF Next, ThreadStep

\* What the pool hands out next, and what it takes back as it is, is configured as the
\* pool is now, however reconfigure interleaved with the sessions.
THEOREM ConfigurationReachesAll == Spec => []ConfigurationPropagates
  <1>1. Init => ConfigurationPropagates
    BY PoolAssumption DEF Init, ConfigurationPropagates, AvailableConns, AcquiredConns
  <1> QED
    BY <1>1, PoolInvariantHolds, ConfigurationStep, PTL DEF Spec

-----------------------------------------------------------------------------
(* Waiting threads and cancellations.                                      *)

\* Thread t's wait is as it should be: its ticket is current, it is queued or
\* has been answered and unparked, and nothing is canceled unasked.
Settled(t) ==
  LET w == ticket[t].waiter IN
  /\ pc[t] \in WaitingPcs =>
       /\ ticket[t].nonce = waiter[w].nonce
       /\ signal[t] # "none" => ticket[t].nonce < MaxNonce
       /\ isOpen /\ waiter[w].assigned = None /\ waiter[w].exception = "none" =>
            w \in Range(waiterQueue)
       /\ waiter[w].exception = "canceled" => signal[t] = "canceled"
       /\ pc[t] # "awake" => w \in Range(waiterQueue) \/ t \in permits
  /\ pc[t] = "leave" => w \in Waiter /\ (isOpen => ticket[t].nonce < waiter[w].nonce)
  /\ listener[t] = "running" \/ pc[t] = "selfCancel" => signal[t] = "canceled"

AllSettled == \A t \in Thread : Settled(t)

\* So it is said of all threads by the properties.
LEMMA SettledMeans == AllSettled => CancelHitsOwnRequest /\ DequeuedIsUnparked
  BY DEF AllSettled, Settled, CancelHitsOwnRequest, DequeuedIsUnparked

\* What another thread's step may do to t's waiter object.
LeftWaiting(t) ==
  LET w == ticket[t].waiter IN
  /\ pc[t] \in WaitingPcs =>
       \/ /\ waiter'[w] = waiter[w]
          /\ w \in Range(waiterQueue) => w \in Range(waiterQueue')
          /\ t \in permits => t \in permits'
       \/ /\ t \in permits'
          /\ waiter'[w].nonce = waiter[w].nonce
          /\ isOpen' => waiter'[w].assigned # None \/ waiter'[w].exception # "none"
          /\ waiter'[w].exception = "canceled" => signal[t] = "canceled"
  /\ pc[t] = "leave" => waiter'[w].nonce \in Nat /\ waiter'[w].nonce >= waiter[w].nonce

\* A thread that does nothing stays settled if its waiter object is treated so.
LEMMA SettledFrame ==
  ASSUME PoolInvariant, NEW t \in Thread, Settled(t), LeftWaiting(t), isOpen' => isOpen,
         pc'[t] = pc[t], ticket'[t] = ticket[t], signal'[t] = signal[t],
         listener'[t] = listener[t]
  PROVE  Settled(t)'
  <1>1. pc[t] = "leave" => ticket[t].nonce \in Nat /\ waiter[ticket[t].waiter].nonce \in Nat
    BY DEF PoolInvariant, TypeOK, Settled, ConnectionWaiter
  <1>2. (pc[t] \in WaitingPcs)' = (pc[t] \in WaitingPcs)
    BY DEF WaitingPcs
  <1> QED
    BY <1>1, <1>2 DEF Settled, LeftWaiting, WaitingPcs

\* Steps that leave waiters and threads alone leave everybody settled.
LEMMA AllSettledFrame ==
  ASSUME PoolInvariant, AllSettled, isOpen' => isOpen,
         UNCHANGED <<waitVars, pc, ticket, cancelVars>>
  PROVE  AllSettled'
  <1> USE DEF waitVars, cancelVars
  <1>1. \A t \in Thread : LeftWaiting(t)
    BY DEF LeftWaiting, AllSettled, Settled, PoolInvariant, TypeOK, ConnectionWaiter
  <1> QED
    BY <1>1, SettledFrame DEF AllSettled

\* A waiter of the queue that is taken out and unparked leaves everybody else's
\* wait alone; its own thread has its answer, or finds the pool closed.
LEMMA DequeueSettled ==
  ASSUME PoolInvariant, AllSettled, NEW i \in 1 .. Len(waiterQueue), Dequeue(i),
         NEW v, v = waiterQueue[i], isOpen' => isOpen,
         \A w \in Waiter \ {v} : waiter'[w] = waiter[w],
         waiter'[v].nonce = waiter[v].nonce,
         isOpen' => waiter'[v].assigned # None \/ waiter'[v].exception # "none",
         waiter'[v].exception = "canceled" => signal[waiter[v].thread] = "canceled",
         NEW t \in Thread
  PROVE  LeftWaiting(t)
  <1> DEFINE w == ticket[t].waiter
  <1>0. /\ waiterQueue \in Seq(Waiter)
        /\ \A j, k \in DOMAIN waiterQueue : j < k => waiterQueue[j] # waiterQueue[k]
        /\ waiter \in [Waiter -> ConnectionWaiter]
    BY DEF PoolInvariant, TypeOK, QueueInOrder
  <1>1. /\ Range(waiterQueue') = Range(waiterQueue) \ {v}
        /\ permits' = permits \cup {waiter[v].thread}
    BY <1>0, DequeueFacts DEF Dequeue
  <1>2. pc[t] \in WaitingPcs => w \in Waiter /\ waiter[w].thread = t
    BY DEF PoolInvariant, WaitersInUse
  <1>3. pc[t] = "leave" => w \in Waiter
    BY DEF AllSettled, Settled
  <1>4. \A u \in Waiter : waiter'[u].nonce = waiter[u].nonce /\ waiter[u].nonce \in Nat
    BY <1>0 DEF ConnectionWaiter
  <1> HIDE DEF w
  <1>5. pc[t] = "leave" => waiter'[w].nonce \in Nat /\ waiter'[w].nonce >= waiter[w].nonce
    BY <1>3, <1>4
  <1>6. CASE w = v
    BY <1>1, <1>2, <1>5, <1>6 DEF LeftWaiting, w
  <1>7. CASE w # v
    BY <1>1, <1>2, <1>5, <1>7 DEF LeftWaiting, w
  <1> QED
    BY <1>6, <1>7

\* The wake loop leaves everybody settled.
LEMMA WakeSettled ==
  ASSUME PoolInvariant, AllSettled, WakeStep
  PROVE  AllSettled'
  <1> USE DEF poolVars, waitVars, threadVars, cancelVars
  <1>1. CASE WakeSkip
    BY <1>1, AllSettledFrame DEF WakeSkip
  <1>2. CASE WakeClosed \/ WakeAssign \/ WakeThrow
    <2> DEFINE v == CurrentWaiter
    <2>0. ~LockFree
      BY <1>2 DEF WakeClosed, WakeAssign, WakeThrow
    <2>1. /\ wake.at \in 1 .. Len(waiterQueue) /\ v \in Waiter /\ v \in Range(waiterQueue)
          /\ v = waiterQueue[wake.at]
          /\ waiter \in [Waiter -> ConnectionWaiter]
      BY <2>0, CurrentWaiterFacts DEF CurrentWaiter, PoolInvariant, TypeOK
    <2>2. /\ waiter[v] \in ConnectionWaiter
          /\ waiter[v].assigned = None /\ waiter[v].exception = "none"
      BY <2>1, QueuedWaiter
    <2> HIDE DEF v
    <2>3. /\ Dequeue(wake.at) /\ isOpen' = isOpen
          /\ UNCHANGED <<pc, ticket, signal, listener>>
      BY <1>2 DEF WakeClosed, WakeAssign, WakeThrow
    <2>4. /\ \A w \in Waiter \ {v} : waiter'[w] = waiter[w]
          /\ waiter'[v].nonce = waiter[v].nonce
          /\ isOpen' => waiter'[v].assigned # None \/ waiter'[v].exception # "none"
          /\ waiter'[v].exception # "canceled"
      <3>1. CASE WakeClosed
        BY <3>1, <2>2 DEF WakeClosed
      <3>2. CASE WakeAssign
        <4>1. PICK c \in Conn : waiter' = [waiter EXCEPT ![v].assigned = c]
          BY <3>2 DEF WakeAssign, v
        <4> DEFINE s == [waiter[v] EXCEPT !.assigned = c]
        <4>2. s.assigned = c /\ s.nonce = waiter[v].nonce /\ s.exception = "none"
          BY <2>2, AssignedField
        <4>3. waiter' = [waiter EXCEPT ![v] = s]
          BY <4>1
        <4> HIDE DEF s
        <4> QED
          BY <2>1, <4>2, <4>3, PoolAssumption
      <3>3. CASE WakeThrow
        <4>1. waiter' = [waiter EXCEPT ![v].exception = "failed"]
          BY <3>3 DEF WakeThrow, v
        <4> DEFINE s == [waiter[v] EXCEPT !.exception = "failed"]
        <4>2. s.exception = "failed" /\ s.nonce = waiter[v].nonce
          BY <2>2, ExceptionField
        <4>3. waiter' = [waiter EXCEPT ![v] = s]
          BY <4>1
        <4> HIDE DEF s
        <4> QED
          BY <2>1, <4>2, <4>3
      <3> QED
        BY <1>2, <3>1, <3>2, <3>3
    <2>5. \A t \in Thread : LeftWaiting(t)
      BY <2>1, <2>3, <2>4, DequeueSettled
    <2> QED
      BY <2>3, <2>5, SettledFrame DEF AllSettled
  <1> QED
    BY <1>1, <1>2 DEF WakeStep

\* A thread that joins the queue has a current ticket.
LEMMA AcquireWaitsSettled ==
  ASSUME PoolInvariant, AllSettled, NEW t \in Thread, NEW r \in Requests, AcquireWaits(t, r)
  PROVE  AllSettled'
  <1> USE PoolAssumption
  <1>1. PICK w \in ObtainableWaiters :
          /\ r.cancellable => waiter[w].nonce < MaxNonce
          /\ waiter' = [waiter EXCEPT ![w] = Obtained(w, t, r)]
          /\ waiterQueue' = InsertAt(waiterQueue, QueuePosition(r.priority), w)
          /\ ticket' = [ticket EXCEPT ![t] = [waiter |-> w, nonce |-> waiter[w].nonce]]
    BY DEF AcquireWaits
  <1>2. /\ pc' = [pc EXCEPT ![t] = IF r.cancellable THEN "listen" ELSE "top"]
        /\ signal' = [signal EXCEPT ![t] = IF r.cancellable THEN "live" ELSE "none"]
        /\ UNCHANGED <<isOpen, permits, listener>>
        /\ pc[t] = "idle"
        /\ r.cancellable \in BOOLEAN /\ r.priority \in 0 .. 1
    BY DEF AcquireWaits, poolVars
  <1>3. /\ w \in Waiter /\ waiter[w].thread = None
        /\ waiter \in [Waiter -> ConnectionWaiter]
        /\ waiterQueue \in Seq(Waiter)
        /\ waiter[w].assigned = None /\ waiter[w].exception = "none"
        /\ waiter[w].nonce \in 0 .. MaxNonce
        /\ pc \in [Thread -> WaitingPcs \cup {"idle", "leave"}]
        /\ ticket \in [Thread -> [waiter : Waiter \cup {None}, nonce : 0..MaxNonce]]
        /\ signal \in [Thread -> {"none", "live", "canceled"}]
        /\ listener[t] = "unset"
    BY <1>2 DEF ObtainableWaiters, RecycledWaiters, NewWaiters, PoolInvariant, TypeOK,
               WaitersInUse, ConnectionWaiter
  <1>4. Range(waiterQueue') = Range(waiterQueue) \cup {w}
    BY <1>1, <1>2, <1>3, EnqueueFacts, QueuePositionFacts
  <1>5. /\ waiter'[w].assigned = None /\ waiter'[w].exception = "none"
        /\ waiter'[w].nonce = waiter[w].nonce
    <2>1. waiter'[w] = Obtained(w, t, r)
      BY <1>1, <1>3
    <2> QED
      BY <1>3, <2>1, ObtainedFields
  <1>6. \A v \in Waiter \ {w} : waiter'[v] = waiter[v]
    BY <1>1, <1>3
  <1>7. Settled(t)'
    <2>1. /\ ticket'[t].waiter = w /\ ticket'[t].nonce = waiter[w].nonce
          /\ pc'[t] \in {"listen", "top"}
          /\ signal'[t] # "none" => waiter[w].nonce < MaxNonce
          /\ listener'[t] = "unset"
          /\ w \in Range(waiterQueue')
      BY <1>1, <1>2, <1>3, <1>4
    <2> QED
      BY <1>5, <2>1 DEF Settled
  <1>8. ASSUME NEW u \in Thread \ {t} PROVE Settled(u)'
    <2>1. pc[u] \in WaitingPcs => ticket[u].waiter \in Waiter \ {w}
      BY <1>3 DEF PoolInvariant, WaitersInUse
    <2>2. pc[u] = "leave" => /\ ticket[u].waiter \in Waiter
                             /\ waiter[ticket[u].waiter].nonce \in Nat
      BY <1>3 DEF AllSettled, Settled, ConnectionWaiter
    <2>3. LeftWaiting(u)
      BY <1>2, <1>4, <1>5, <1>6, <2>1, <2>2 DEF LeftWaiting
    <2> QED
      BY <1>1, <1>2, <1>3, <2>3, SettledFrame DEF AllSettled
  <1> QED
    BY <1>7, <1>8 DEF AllSettled

\* A cancellation that finds its waiter in the queue finds the request it was
\* issued for: the waiter object has not been reused since.
LEMMA CancelFindsOwn ==
  ASSUME PoolInvariant, AllSettled, NEW t \in Thread, LockFree,
         listener[t] = "running" \/ pc[t] = "selfCancel",
         CancelIsDue(t), ticket[t].waiter \in Range(waiterQueue)
  PROVE  waiter[ticket[t].waiter].thread = t /\ signal[t] = "canceled"
  <1> DEFINE w == ticket[t].waiter
  <1>1. signal[t] = "canceled"
    BY DEF AllSettled, Settled
  <1>2. isOpen
    BY DEF PoolInvariant, ClosedDrains, Range
  <1>3. pc[t] \in WaitingPcs \cup {"idle", "leave"} /\ pc[t] # "idle"
    BY <1>1 DEF PoolInvariant, TypeOK, WaitersInUse
  <1>4. pc[t] # "leave"
    <2> SUFFICES ASSUME pc[t] = "leave" PROVE FALSE
      OBVIOUS
    <2>1. ticket[t].nonce < waiter[w].nonce /\ waiter[w].nonce = ticket[t].nonce
      BY <1>2 DEF AllSettled, Settled, CancelIsDue
    <2>2. waiter[w].nonce \in Nat
      BY QueuedWaiter DEF ConnectionWaiter
    <2> QED
      BY <2>1, <2>2
  <1>5. waiter[w].thread = t
    BY <1>3, <1>4 DEF PoolInvariant, WaitersInUse
  <1> QED
    BY <1>1, <1>5

\* The body of onCancel leaves everybody's wait alone but the canceled one's.
LEMMA OnCancelLockedSettled ==
  ASSUME PoolInvariant, AllSettled, NEW t \in Thread, LockFree,
         listener[t] = "running" \/ pc[t] = "selfCancel",
         OnCancelLocked(t), isOpen' = isOpen, NEW u \in Thread
  PROVE  LeftWaiting(u)
  <1>1. CASE CancelIsDue(t) /\ ~CancelCrashes(t)
    <2> DEFINE w == ticket[t].waiter
    <2>1. PICK i \in 1 .. Len(waiterQueue) : waiterQueue[i] = w /\ Dequeue(i)
      BY <1>1 DEF OnCancelLocked
    <2>2. waiter' = [waiter EXCEPT ![w].exception = "canceled"]
      BY <1>1 DEF OnCancelLocked
    <2>3. w \in Range(waiterQueue)
      BY <1>1 DEF CancelCrashes
    <2>4. waiter[w].thread = t /\ signal[t] = "canceled"
      BY <1>1, <2>3, CancelFindsOwn
    <2>5. w \in Waiter /\ waiter[w] \in ConnectionWaiter
          /\ waiter \in [Waiter -> ConnectionWaiter]
      BY <2>3, QueuedWaiter DEF PoolInvariant, TypeOK
    <2> HIDE DEF w
    <2> DEFINE s == [waiter[w] EXCEPT !.exception = "canceled"]
    <2>6. s.exception = "canceled" /\ s.nonce = waiter[w].nonce
      BY <2>5, ExceptionField
    <2>7. waiter' = [waiter EXCEPT ![w] = s]
      BY <2>2
    <2> HIDE DEF s
    <2>8. /\ \A v \in Waiter \ {w} : waiter'[v] = waiter[v]
          /\ waiter'[w].nonce = waiter[w].nonce
          /\ waiter'[w].exception = "canceled"
      BY <2>5, <2>6, <2>7
    <2> QED
      BY <2>1, <2>4, <2>8, DequeueSettled
  <1>2. CASE ~(CancelIsDue(t) /\ ~CancelCrashes(t))
    <2>1. UNCHANGED <<waiter, waiterQueue, permits>>
      BY <1>2 DEF OnCancelLocked, waitVars
    <2> QED
      BY <2>1 DEF LeftWaiting, AllSettled, Settled, PoolInvariant, TypeOK, ConnectionWaiter
  <1> QED
    BY <1>1, <1>2

\* Canceling and delivering a cancellation leave everybody settled.
LEMMA CancelSettled ==
  ASSUME PoolInvariant, AllSettled, NEW t \in Thread,
         Cancel(t) \/ OnCancel(t) \/ SelfCancel(t)
  PROVE  AllSettled'
  <1> USE DEF poolVars, waitVars, threadVars, cancelVars
  <1>0. /\ signal \in [Thread -> {"none", "live", "canceled"}]
        /\ listener \in [Thread -> {"unset", "set", "running"}]
        /\ pc \in [Thread -> WaitingPcs \cup {"idle", "leave"}]
        /\ ticket \in [Thread -> [waiter : Waiter \cup {None}, nonce : 0..MaxNonce]]
    BY DEF PoolInvariant, TypeOK
  <1>1. CASE Cancel(t)
    <2>1. ASSUME NEW u \in Thread, u # t PROVE Settled(u)'
      <3>1. LeftWaiting(u)
        BY <1>1 DEF Cancel, LeftWaiting, AllSettled, Settled, PoolInvariant, TypeOK, ConnectionWaiter
      <3> QED
        BY <1>0, <1>1, <2>1, <3>1, SettledFrame DEF Cancel, AllSettled
    <2>2. Settled(t)'
      <3>1. /\ UNCHANGED <<pc, ticket, waiter, waiterQueue, permits, isOpen>>
            /\ signal[t] = "live" /\ signal'[t] = "canceled"
        BY <1>0, <1>1 DEF Cancel
      <3> QED
        BY <3>1 DEF AllSettled, Settled
    <2> QED
      BY <2>1, <2>2 DEF AllSettled
  <1>2. CASE OnCancel(t)
    <2>1. \A u \in Thread : LeftWaiting(u)
      BY <1>2, OnCancelLockedSettled DEF OnCancel
    <2>2. ASSUME NEW u \in Thread, u # t PROVE Settled(u)'
      BY <1>0, <1>2, <2>1, <2>2, SettledFrame DEF OnCancel, AllSettled
    <2>3. Settled(t)'
      <3>1. /\ UNCHANGED <<pc, ticket, signal, isOpen>>
            /\ signal[t] = "canceled"
        BY <1>2 DEF OnCancel, AllSettled, Settled
      <3>2. pc[t] = "leave" => ticket[t].nonce \in Nat /\ waiter[ticket[t].waiter].nonce \in Nat
        BY DEF PoolInvariant, TypeOK, AllSettled, Settled, ConnectionWaiter
      <3> QED
        BY <2>1, <3>1, <3>2 DEF AllSettled, Settled, LeftWaiting, WaitingPcs
    <2> QED
      BY <2>2, <2>3 DEF AllSettled
  <1>3. CASE SelfCancel(t)
    <2>1. \A u \in Thread : LeftWaiting(u)
      BY <1>3, OnCancelLockedSettled DEF SelfCancel
    <2>2. ASSUME NEW u \in Thread, u # t PROVE Settled(u)'
      BY <1>0, <1>3, <2>1, <2>2, SettledFrame DEF SelfCancel, AllSettled
    <2>3. CASE CancelCrashes(t)
      <3>1. pc'[t] = "idle" /\ listener'[t] = "unset"
        BY <1>0, <1>3, <2>3 DEF SelfCancel
      <3>2. Settled(t)'
        BY <3>1 DEF Settled, WaitingPcs
      <3> QED
        BY <2>2, <3>2 DEF AllSettled
    <2>4. CASE ~CancelCrashes(t)
      <3>1. /\ UNCHANGED <<ticket, signal, listener, isOpen>>
            /\ signal[t] = "canceled" /\ pc[t] = "selfCancel" /\ pc'[t] = "top"
        BY <1>0, <1>3, <2>4 DEF SelfCancel, AllSettled, Settled
      <3>2. Settled(t)'
        BY <2>1, <3>1 DEF AllSettled, Settled, LeftWaiting, WaitingPcs
      <3> QED
        BY <2>2, <3>2 DEF AllSettled
    <2> QED
      BY <2>3, <2>4
  <1> QED
    BY <1>1, <1>2, <1>3

\* Whatever else a waiting thread does leaves everybody settled.
LEMMA ProceedSettled ==
  ASSUME PoolInvariant, AllSettled, NEW t \in Thread, Proceed(t), ~SelfCancel(t)
  PROVE  AllSettled'
  <1> USE DEF poolVars, waitVars, threadVars, cancelVars
  <1>0. /\ signal \in [Thread -> {"none", "live", "canceled"}]
        /\ listener \in [Thread -> {"unset", "set", "running"}]
        /\ pc \in [Thread -> WaitingPcs \cup {"idle", "leave"}]
        /\ ticket \in [Thread -> [waiter : Waiter \cup {None}, nonce : 0..MaxNonce]]
        /\ waiter \in [Waiter -> ConnectionWaiter]
        /\ \A w \in Waiter : waiter[w].nonce \in 0 .. MaxNonce
        /\ \A u \in Thread : pc[u] = "leave" => ticket[u].waiter \in Waiter
        /\ \A u \in Thread : pc[u] \in WaitingPcs =>
             ticket[u].waiter \in Waiter /\ waiter[ticket[u].waiter].thread = u
        /\ \A u \in Thread : listener[u] # "unset" => signal[u] # "none"
    BY DEF PoolInvariant, TypeOK, ConnectionWaiter, AllSettled, Settled, WaitersInUse
  <1>1. CASE SetListener(t) \/ PollLeakFlag(t) \/ RecoverFromLeak(t) \/ CheckAgain(t)
    <2>1. /\ UNCHANGED <<isOpen, waiter, waiterQueue, permits, ticket, signal>>
          /\ \A u \in Thread \ {t} : pc'[u] = pc[u] /\ listener'[u] = listener[u]
          /\ pc[t] \in WaitingPcs /\ pc'[t] \in WaitingPcs \ {"awake"}
          /\ pc'[t] = "selfCancel" => signal[t] = "canceled"
          /\ listener'[t] = "running" => listener[t] = "running"
          /\ pc[t] = "awake" => /\ isOpen /\ waiter[ticket[t].waiter].assigned = None
                                /\ waiter[ticket[t].waiter].exception = "none"
      BY <1>0, <1>1 DEF SetListener, PollLeakFlag, RecoverFromLeak, CheckAgain, WaitingPcs, NotClosed
    <2>2. ASSUME NEW u \in Thread, u # t PROVE Settled(u)'
      <3>1. LeftWaiting(u)
        BY <1>0, <2>1 DEF LeftWaiting
      <3> QED
        BY <2>1, <2>2, <3>1, SettledFrame DEF AllSettled
    <2>3. Settled(t)'
      BY <2>1 DEF AllSettled, Settled, WaitingPcs
    <2> QED
      BY <2>2, <2>3 DEF AllSettled
  <1>2. CASE Unpark(t)
    <2>1. /\ UNCHANGED <<isOpen, waiter, waiterQueue, ticket, signal, listener>>
          /\ permits' = permits \ {t}
          /\ \A u \in Thread \ {t} : pc'[u] = pc[u]
          /\ pc[t] = "parked" /\ pc'[t] = "awake"
      BY <1>0, <1>2 DEF Unpark, WaitingPcs
    <2>2. ASSUME NEW u \in Thread, u # t PROVE Settled(u)'
      <3>1. LeftWaiting(u)
        BY <1>0, <2>1, <2>2 DEF LeftWaiting
      <3> QED
        BY <2>1, <2>2, <3>1, SettledFrame DEF AllSettled
    <2>3. Settled(t)'
      BY <2>1 DEF AllSettled, Settled, WaitingPcs
    <2> QED
      BY <2>2, <2>3 DEF AllSettled
  <1>3. CASE CheckClosed(t)
    <2>1. /\ UNCHANGED <<isOpen, waiter, waiterQueue, permits, signal, listener>>
          /\ ~isOpen /\ pc[t] = "awake" /\ LeaveLoop(t)
      BY <1>3 DEF CheckClosed, NotClosed
    <2>2. ASSUME NEW u \in Thread, u # t PROVE Settled(u)'
      <3>1. LeftWaiting(u)
        BY <1>0, <2>1 DEF LeftWaiting
      <3> QED
        BY <2>1, <2>2, <3>1, LeaveLoopFacts, SettledFrame DEF AllSettled
    <2>3. Settled(t)'
      <3>1. \/ pc'[t] = "idle" /\ signal[t] = "none"
            \/ pc'[t] = "leave" /\ ticket'[t] = ticket[t]
        BY <1>0, <2>1 DEF LeaveLoop
      <3> QED
        BY <1>0, <2>1, <3>1 DEF AllSettled, Settled, WaitingPcs
    <2> QED
      BY <2>2, <2>3 DEF AllSettled
  <1>4. CASE CheckDone(t)
    <2> DEFINE w == ticket[t].waiter
    <2>1. /\ UNCHANGED <<isOpen, waiterQueue, permits, signal, listener>>
          /\ isOpen /\ pc[t] = "awake" /\ LeaveLoop(t)
          /\ waiter' = [waiter EXCEPT ![w] = Recycled(w)]
          /\ w \in Waiter /\ waiter[w].thread = t
      BY <1>0, <1>4 DEF CheckDone, NotClosed, WaitingPcs
    <2>2. waiter'[w].nonce = IF waiter[w].nonce < MaxNonce THEN waiter[w].nonce + 1
                                                           ELSE waiter[w].nonce
      <3>1. waiter[w] \in ConnectionWaiter /\ waiter'[w] = Recycled(w)
        BY <1>0, <2>1
      <3> QED
        BY <3>1 DEF Recycled, ConnectionWaiter
    <2>3. \A v \in Waiter \ {w} : waiter'[v] = waiter[v]
      BY <1>0, <2>1
    <2>4. ticket[t].nonce = waiter[w].nonce /\ (signal[t] # "none" => waiter[w].nonce < MaxNonce)
          /\ waiter[w].nonce \in 0 .. MaxNonce /\ MaxNonce \in Nat
      BY <1>0, <2>1, PoolAssumption DEF AllSettled, Settled, WaitingPcs
    <2>5. ASSUME NEW u \in Thread, u # t PROVE Settled(u)'
      <3>1. LeftWaiting(u)
        BY <1>0, <2>1, <2>2, <2>3, <2>4, <2>5 DEF LeftWaiting
      <3> QED
        BY <2>1, <2>5, <3>1, LeaveLoopFacts, SettledFrame DEF AllSettled
    <2>6. Settled(t)'
      <3>1. \/ pc'[t] = "idle" /\ signal[t] = "none"
            \/ pc'[t] = "leave" /\ ticket'[t] = ticket[t] /\ signal[t] # "none"
        BY <1>0, <2>1 DEF LeaveLoop
      <3>2. signal[t] # "none" => ticket[t].nonce < waiter'[w].nonce
        BY <2>2, <2>4
      <3> QED
        BY <1>0, <2>1, <3>1, <3>2 DEF AllSettled, Settled, WaitingPcs
    <2> QED
      BY <2>5, <2>6 DEF AllSettled
  <1>5. CASE ClearListener(t)
    <2>1. /\ UNCHANGED <<isOpen, waiter, waiterQueue, permits>>
          /\ \A u \in Thread \ {t} : /\ pc'[u] = pc[u] /\ listener'[u] = listener[u]
                                     /\ signal'[u] = signal[u] /\ ticket'[u] = ticket[u]
          /\ pc'[t] = "idle" /\ listener'[t] = "unset"
      BY <1>0, <1>5 DEF ClearListener
    <2>2. ASSUME NEW u \in Thread, u # t PROVE Settled(u)'
      <3>1. LeftWaiting(u)
        BY <1>0, <2>1 DEF LeftWaiting
      <3> QED
        BY <2>1, <2>2, <3>1, SettledFrame DEF AllSettled
    <2>3. Settled(t)'
      BY <2>1 DEF Settled, WaitingPcs
    <2> QED
      BY <2>2, <2>3 DEF AllSettled
  <1> QED
    BY <1>1, <1>2, <1>3, <1>4, <1>5 DEF Proceed, Check

\* Every step leaves everybody settled.
LEMMA SettledStep == PoolInvariant /\ AllSettled /\ [Next]_vars => AllSettled'
  <1> SUFFICES ASSUME PoolInvariant, AllSettled, [Next]_vars PROVE AllSettled'
    OBVIOUS
  <1> USE DEF poolVars, waitVars, threadVars, cancelVars
  <1>1. CASE WakeStep
    BY <1>1, WakeSettled
  <1>2. ASSUME NEW t \in Thread, \E r \in Requests : AcquireWaits(t, r) PROVE AllSettled'
    BY <1>2, AcquireWaitsSettled
  <1>3. ASSUME NEW t \in Thread, Proceed(t) \/ Cancel(t) \/ OnCancel(t) PROVE AllSettled'
    BY <1>3, ProceedSettled, CancelSettled
  <1>4. ASSUME NEW t \in Thread,
               (\E r \in Requests : AcquireNow(t, r)) \/ Release(t) \/ Leak(t)
        PROVE  AllSettled'
    <2>1. UNCHANGED <<isOpen, waitVars, pc, ticket, cancelVars>>
      BY <1>4 DEF AcquireNow, Release, ReleaseClosed, ReleasePrimary, ReleaseExcess,
         ReleaseNonPrimary, GiveBack, Leak
    <2> QED
      BY <2>1, AllSettledFrame
  <1>5. ASSUME Close \/ (\E k \in Configs : Reconfigure(k)) PROVE AllSettled'
    <2>1. UNCHANGED <<waitVars, pc, ticket, cancelVars>> /\ isOpen
      BY <1>5 DEF Close, Reconfigure, ReconfigureInPlace, ReconfigureReopening, ReconfigureFails,
         MayReconfigure, NotClosed
    <2> QED
      BY <2>1, AllSettledFrame
  <1>6. ASSUME NEW c \in Conn, ClearWeakEntry(c) \/ Finalize(c) PROVE AllSettled'
    <2>1. UNCHANGED <<isOpen, waitVars, pc, ticket, cancelVars>>
      BY <1>6 DEF ClearWeakEntry, Finalize
    <2> QED
      BY <2>1, AllSettledFrame
  <1>7. CASE UNCHANGED vars
    <2>1. UNCHANGED <<isOpen, waitVars, pc, ticket, cancelVars>>
      BY <1>7 DEF vars
    <2> QED
      BY <2>1, AllSettledFrame
  <1> QED
    BY <1>1, <1>2, <1>3, <1>4, <1>5, <1>6, <1>7 DEF Next, ThreadStep

\* Everybody is always settled.
LEMMA AlwaysSettled == Spec => []AllSettled
  <1>1. Init => AllSettled
    BY DEF Init, AllSettled, Settled, WaitingPcs
  <1> QED
    BY <1>1, PoolInvariantHolds, SettledStep, PTL DEF Spec

\* A waiter object is reused and a listener may run late, but a cancellation ends
\* only the request whose signal was canceled: the nonce sees to it.
THEOREM CancellationHitsItsRequest == Spec => []CancelHitsOwnRequest
  BY SettledMeans, AlwaysSettled, PTL

\* No thread sleeps on after it was taken out of the queue: assigned a connection,
\* given an exception or sent away by close, it has a permit.
THEOREM DequeuedWakesUp == Spec => []DequeuedIsUnparked
  BY SettledMeans, AlwaysSettled, PTL

\* While the pool is open, cancelConnectionWaiterLocked finds the waiter it cancels
\* in the queue, so its assertion holds.
THEOREM CancellationFindsWaiter == Spec => []OpenCancelFindsWaiter
  <1>1. PoolInvariant /\ AllSettled => OpenCancelFindsWaiter
    <2> SUFFICES ASSUME PoolInvariant, AllSettled, isOpen, NEW t \in Thread,
                        listener[t] = "running" \/ pc[t] = "selfCancel", CancelIsDue(t)
                 PROVE  ticket[t].waiter \in Range(waiterQueue)
      BY DEF OpenCancelFindsWaiter, CancelFindsWaiter, CancelCrashes
    <2>1. signal[t] = "canceled"
      BY DEF AllSettled, Settled
    <2>2. pc[t] \in WaitingPcs \cup {"idle", "leave"} /\ pc[t] # "idle"
      BY <2>1 DEF PoolInvariant, TypeOK, WaitersInUse
    <2>3. pc[t] # "leave"
      <3> SUFFICES ASSUME pc[t] = "leave" PROVE FALSE
        OBVIOUS
      <3>1. /\ ticket[t].nonce < waiter[ticket[t].waiter].nonce
            /\ waiter[ticket[t].waiter].nonce = ticket[t].nonce
            /\ ticket[t].waiter \in Waiter
        BY DEF AllSettled, Settled, CancelIsDue
      <3>2. waiter[ticket[t].waiter].nonce \in Nat
        BY <3>1 DEF PoolInvariant, TypeOK, ConnectionWaiter
      <3> QED
        BY <3>1, <3>2
    <2> QED
      BY <2>2, <2>3 DEF AllSettled, Settled, CancelIsDue
  <1> QED
    BY <1>1, PoolInvariantHolds, AlwaysSettled, PTL

-----------------------------------------------------------------------------
(* Counting connections.                                                   *)

\* The pool never has infinitely many connections, however many there could be.
FiniteConns == IsFiniteSet(AcquiredConns) /\ IsFiniteSet(availableNonPrimary)

\* One connection more is acquired when one is taken.
LEMMA AcquiredGrows ==
  ASSUME PoolInvariant, FiniteConns, NEW c \in Conn,
         TryAcquireNonPrimary(c) \/ TryAcquirePrimary(c)
  PROVE  /\ FiniteConns'
         /\ Cardinality(AcquiredConns) \in Nat
         /\ Cardinality(AcquiredConns') = Cardinality(AcquiredConns) + 1
         /\ availableNonPrimary' \subseteq availableNonPrimary
  <1>1. AcquiredConns' = AcquiredConns \cup {c} /\ c \notin AcquiredConns
    BY TryAcquireFacts
  <1>2. /\ IsFiniteSet(AcquiredConns') /\ Cardinality(AcquiredConns) \in Nat
        /\ Cardinality(AcquiredConns') = Cardinality(AcquiredConns) + 1
    BY <1>1, FS_AddElement, FS_CardinalityType DEF FiniteConns
  <1>3. availableNonPrimary' \subseteq availableNonPrimary
    BY DEF TryAcquireNonPrimary, TryAcquirePrimary
  <1>4. IsFiniteSet(availableNonPrimary')
    BY <1>3, FS_Subset DEF FiniteConns
  <1> QED
    BY <1>2, <1>3, <1>4 DEF FiniteConns

\* One connection less is acquired when one comes back.
LEMMA AcquiredShrinks ==
  ASSUME PoolInvariant, FiniteConns, NEW t \in Thread, NEW c \in Conn, GiveBack(t, c)
  PROVE  /\ IsFiniteSet(AcquiredConns')
         /\ Cardinality(AcquiredConns) \in Nat
         /\ Cardinality(AcquiredConns') = Cardinality(AcquiredConns) - 1
  <1>1. AcquiredConns' = AcquiredConns \ {c} /\ c \in AcquiredConns
    BY GiveBackFacts
  <1> QED
    BY <1>1, FS_RemoveElement, FS_CardinalityType DEF FiniteConns

\* Taking a connection never makes it possible to take another.
LEMMA AcquireOnlyTakes ==
  ASSUME PoolInvariant, FiniteConns, NEW c \in Conn, maxPoolSize' = maxPoolSize,
         TryAcquireNonPrimary(c) \/ TryAcquirePrimary(c)
  PROVE  /\ CanTakePrimary' => CanTakePrimary
         /\ CanTakeNonPrimary' => CanTakeNonPrimary
  <1> USE PoolAssumption
  <1>1. /\ AcquiredConns' = AcquiredConns \cup {c} /\ c \notin AcquiredConns
        /\ Cardinality(AcquiredConns) \in Nat
        /\ Cardinality(AcquiredConns') = Cardinality(AcquiredConns) + 1
        /\ availableNonPrimary' \subseteq availableNonPrimary
        /\ maxPoolSize \in Nat
    BY TryAcquireFacts, AcquiredGrows DEF PoolInvariant, TypeOK, MaxPoolSizeFor
  <1>2. availablePrimary' \in {availablePrimary, None}
        /\ \A d \in Conn \ {c} : d \in primary => d \in primary'
    BY DEF TryAcquireNonPrimary, TryAcquirePrimary, OpenConnection, connVars
  <1>3. PrimaryIsAcquired => PrimaryIsAcquired'
    BY <1>1, <1>2 DEF PrimaryIsAcquired, AcquiredConns
  <1>4. CanTakePrimary' => CanTakePrimary
    BY <1>2, <1>3 DEF CanTakePrimary
  <1>5. OpenConnections' >= OpenConnections /\ OpenConnections \in Nat /\ OpenConnections' \in Nat
    BY <1>1, <1>2 DEF OpenConnections
  <1>6. CanTakeNonPrimary' => CanTakeNonPrimary
    BY <1>1, <1>5 DEF CanTakeNonPrimary
  <1> QED
    BY <1>4, <1>6

\* The pool has finitely many connections after every step.
LEMMA FiniteStep == PoolInvariant /\ FiniteConns /\ [Next]_vars => FiniteConns'
  <1> SUFFICES ASSUME PoolInvariant, FiniteConns, [Next]_vars PROVE FiniteConns'
    OBVIOUS
  <1> USE DEF poolVars, availVars, connVars
  <1>1. ASSUME UNCHANGED <<acquired, availableNonPrimary>> PROVE FiniteConns'
    BY <1>1 DEF FiniteConns, AcquiredConns
  <1>2. ASSUME NEW c \in Conn, TryAcquireNonPrimary(c) \/ TryAcquirePrimary(c) PROVE FiniteConns'
    BY <1>2, AcquiredGrows
  <1>3. CASE WakeStep
    BY <1>1, <1>2, <1>3 DEF WakeStep, WakeClosed, WakeAssign, WakeThrow, WakeSkip, TryAcquire
  <1>4. ASSUME NEW t \in Thread, NEW r \in Requests, AcquireNow(t, r) \/ AcquireWaits(t, r)
        PROVE  FiniteConns'
    BY <1>1, <1>2, <1>4 DEF AcquireNow, AcquireWaits, TryAcquire
  <1>5. ASSUME NEW t \in Thread, Proceed(t) \/ Cancel(t) \/ OnCancel(t) \/ Leak(t)
        PROVE  FiniteConns'
    BY <1>1, <1>5 DEF Proceed, SetListener, SelfCancel, PollLeakFlag, RecoverFromLeak, Unpark,
       Check, CheckClosed, CheckDone, CheckAgain, ClearListener, Cancel, OnCancel, Leak
  <1>6. ASSUME NEW t \in Thread, Release(t) PROVE FiniteConns'
    <2>1. PICK c \in Conn : /\ GiveBack(t, c)
                            /\ \/ availableNonPrimary' = availableNonPrimary
                               \/ availableNonPrimary' = availableNonPrimary \cup {c}
      BY <1>6 DEF Release, ReleaseClosed, ReleasePrimary, ReleaseExcess, ReleaseNonPrimary
    <2> QED
      BY <2>1, AcquiredShrinks, FS_AddElement DEF FiniteConns
  <1>7. ASSUME Close \/ \E k \in Configs : Reconfigure(k) PROVE FiniteConns'
    <2>1. availableNonPrimary' \subseteq availableNonPrimary
      BY <1>7 DEF Close, Reconfigure, ReconfigureInPlace, ReconfigureReopening, ReconfigureFails
    <2>2. AcquiredConns' = AcquiredConns
      BY <1>7, MarkAcquiredFacts DEF Close, Reconfigure, ReconfigureInPlace, ReconfigureReopening,
         ReconfigureFails, AcquiredConns
    <2> QED
      BY <2>1, <2>2, FS_Subset DEF FiniteConns
  <1>8. ASSUME NEW c \in Conn, ClearWeakEntry(c) \/ Finalize(c) PROVE FiniteConns'
    <2>1. availableNonPrimary' = availableNonPrimary /\ AcquiredConns' \subseteq AcquiredConns
      BY <1>8 DEF ClearWeakEntry, Finalize, AcquiredConns, PoolInvariant, TypeOK
    <2> QED
      BY <2>1, FS_Subset DEF FiniteConns
  <1>9. CASE UNCHANGED vars
    BY <1>1, <1>9 DEF vars
  <1> QED
    BY <1>3, <1>4, <1>5, <1>6, <1>7, <1>8, <1>9 DEF Next, ThreadStep

\* The pool always has finitely many connections.
LEMMA AlwaysFinite == Spec => []FiniteConns
  <1>1. Init => FiniteConns
    <2>1. Init => AcquiredConns = {} /\ availableNonPrimary = {}
      BY DEF Init, AcquiredConns
    <2> QED
      BY <2>1, FS_EmptySet DEF FiniteConns
  <1> QED
    BY <1>1, PoolInvariantHolds, FiniteStep, PTL DEF Spec

-----------------------------------------------------------------------------
(* Nobody is forgotten in the queue.                                       *)

\* Waiters the wake loop has passed, all of them when it is not running, cannot be
\* served, and what its flags say there is none of there is none of.
WakeScanned ==
  isOpen /\ ~LeakPending =>
    /\ wake.noPrimary => ~CanTakePrimary
    /\ wake.noNonPrimary => ~CanTakeNonPrimary
    /\ \A i \in DOMAIN waiterQueue : LockFree \/ i < wake.at =>
         NothingToAcquire(~waiter[waiterQueue[i]].wantPrimary, TRUE)

\* A leak is pending until a thread has started the wake loop for it.
LEMMA LeakFrame ==
  ASSUME LeakPending, UNCHANGED <<connectionLeaked, garbage>>,
         \A c \in garbage : acquired[c] = "none" => acquired'[c] = "none",
         \A t \in Thread : pc[t] = "recover" => pc'[t] = "recover"
  PROVE  LeakPending'
  BY DEF LeakPending

\* What is scanned stays so when nothing becomes available.
LEMMA ScanFrame ==
  ASSUME PoolInvariant, WakeScanned, isOpen' => isOpen, LeakPending => LeakPending',
         UNCHANGED <<wake, waiterQueue>>,
         \A i \in DOMAIN waiterQueue :
           waiter'[waiterQueue[i]].wantPrimary = waiter[waiterQueue[i]].wantPrimary,
         CanTakePrimary' => CanTakePrimary, CanTakeNonPrimary' => CanTakeNonPrimary
  PROVE  WakeScanned'
  BY DEF WakeScanned, NothingToAcquire, LockFree

\* A wake loop that starts has nothing behind it.
LEMMA ScanStart ==
  ASSUME waiterQueue' \in Seq(Waiter), StartWake(waiterQueue')
  PROVE  WakeScanned'
  <1>1. \/ wake' = NotWaking /\ waiterQueue' = <<>>
        \/ wake' = [NotWaking EXCEPT !.at = 1]
    BY DEF StartWake
  <1>2. CASE wake' = NotWaking /\ waiterQueue' = <<>>
    BY <1>2 DEF WakeScanned, NotWaking
  <1>3. CASE wake' = [NotWaking EXCEPT !.at = 1]
    <2>1. wake'.at = 1 /\ ~wake'.noPrimary /\ ~wake'.noNonPrimary /\ wake' # NotWaking
      BY <1>3 DEF NotWaking
    <2>2. \A i \in DOMAIN waiterQueue' : ~(i < wake'.at)
      BY <2>1
    <2> QED
      BY <2>1, <2>2 DEF WakeScanned, LockFree
  <1> QED
    BY <1>1, <1>2, <1>3

\* Steps that change neither connections nor queue leave scanned what is.
LEMMA ScanUnchanged ==
  ASSUME PoolInvariant, WakeScanned, isOpen' => isOpen, LeakPending => LeakPending',
         UNCHANGED <<wake, waiterQueue, acquired, primary, availVars, maxPoolSize>>,
         \A i \in DOMAIN waiterQueue :
           waiter'[waiterQueue[i]].wantPrimary = waiter[waiterQueue[i]].wantPrimary
  PROVE  WakeScanned'
  <1>1. UNCHANGED <<CanTakePrimary, CanTakeNonPrimary>>
    BY DEF CanTakePrimary, CanTakeNonPrimary, PrimaryIsAcquired, OpenConnections, AcquiredConns,
       availVars
  <1> QED
    BY <1>1, ScanFrame

\* What the loop finds for the current waiter: nothing primary if it tries in vain,
\* and nothing at all if the waiter takes either.
LEMMA CurrentInVain ==
  ASSUME PoolInvariant, WakeScanned, ~LockFree, isOpen, ~LeakPending,
         NothingToAcquire(WakeTriesNonPrimary, WakeTriesPrimary)
  PROVE  /\ ~CanTakePrimary
         /\ ~waiter[CurrentWaiter].wantPrimary => ~CanTakeNonPrimary
         /\ NoNonPrimaryLeft => ~CanTakeNonPrimary
  BY DEF WakeScanned, NothingToAcquire, WakeTriesNonPrimary, WakeTriesPrimary, NoNonPrimaryLeft

\* The loop leaves behind it only waiters it can do nothing for.
LEMMA WakeScans ==
  ASSUME PoolInvariant, FiniteConns, WakeScanned, WakeStep
  PROVE  WakeScanned'
  <1> USE DEF poolVars, connVars, threadVars
  <1>0. /\ wake.at \in 1 .. Len(waiterQueue) /\ wake.at \in Nat \ {0}
        /\ waiterQueue \in Seq(Waiter) /\ Len(waiterQueue) \in Nat
        /\ DOMAIN waiterQueue = 1 .. Len(waiterQueue)
        /\ wake.noPrimary \in BOOLEAN
        /\ CurrentWaiter = waiterQueue[wake.at] /\ ~LockFree
    BY CurrentWaiterFacts, LenProperties
       DEF CurrentWaiter, PoolInvariant, TypeOK, WakeStep, WakeClosed, WakeAssign, WakeThrow, WakeSkip
  <1>1. CASE WakeClosed
    BY <1>1 DEF WakeClosed, WakeScanned
  <1>2. CASE WakeAssign \/ WakeThrow
    <2>1. /\ Dequeue(wake.at) /\ isOpen
          /\ WakeOn(wake.at, waiterQueue', wake.noPrimary, NoNonPrimaryLeft)
          /\ UNCHANGED <<isOpen, maxPoolSize, connectionLeaked, garbage, pc>>
      BY <1>2 DEF WakeAssign, WakeThrow
    <2>2. (CanTakePrimary' => CanTakePrimary) /\ (CanTakeNonPrimary' => CanTakeNonPrimary)
      <3>1. CASE WakeAssign
        BY <2>1, <3>1, AcquireOnlyTakes DEF WakeAssign, TryAcquire
      <3>2. CASE WakeThrow
        BY <3>2 DEF WakeThrow, CanTakePrimary, CanTakeNonPrimary, PrimaryIsAcquired,
           OpenConnections, AcquiredConns, availVars
      <3> QED
        BY <1>2, <3>1, <3>2
    <2>3. LeakPending => LeakPending'
      <3>1. \A c \in garbage : acquired[c] = "none" => acquired'[c] = "none"
        <4>1. CASE WakeAssign
          <5>1. PICK c \in Conn : TryAcquireNonPrimary(c) \/ TryAcquirePrimary(c)
            BY <4>1 DEF WakeAssign, TryAcquire
          <5>2. acquired' = [acquired EXCEPT ![c] = "normal"] /\ c \notin garbage
            BY <5>1, TryAcquireFacts
          <5> QED
            BY <5>2 DEF PoolInvariant, TypeOK
        <4>2. CASE WakeThrow
          BY <4>2 DEF WakeThrow
        <4> QED
          BY <1>2, <4>1, <4>2
      <3> QED
        BY <2>1, <3>1, LeakFrame
    <2>4. /\ waiterQueue' \in Seq(Waiter) /\ Len(waiterQueue') = Len(waiterQueue) - 1
          /\ DOMAIN waiterQueue' = 1 .. Len(waiterQueue')
          /\ \A j \in 1 .. Len(waiterQueue) - 1 : j < wake.at => waiterQueue'[j] = waiterQueue[j]
      <3>1. waiterQueue' = RemoveAt(waiterQueue, wake.at)
        BY <2>1 DEF Dequeue
      <3> QED
        BY <1>0, <3>1, RemoveAtFacts, LenProperties
    <2>5. \A j \in 1 .. Len(waiterQueue) - 1 : j < wake.at =>
            waiter'[waiterQueue'[j]].wantPrimary = waiter[waiterQueue[j]].wantPrimary
      <3>1. \A v \in Waiter \ {CurrentWaiter} : waiter'[v] = waiter[v]
        BY <1>2 DEF WakeAssign, WakeThrow, PoolInvariant, TypeOK
      <3>2. ASSUME NEW j \in 1 .. Len(waiterQueue) - 1, j < wake.at
            PROVE  waiterQueue[j] \in Waiter \ {CurrentWaiter}
        <4>1. j \in DOMAIN waiterQueue /\ wake.at \in DOMAIN waiterQueue
          BY <1>0
        <4> QED
          BY <1>0, <3>2, <4>1, ElementOfSeq DEF PoolInvariant, QueueInOrder
      <3> QED
        BY <2>4, <3>1, <3>2
    <2>6. /\ wake'.noPrimary => wake.noPrimary
          /\ wake'.noNonPrimary => NoNonPrimaryLeft
          /\ \A j \in DOMAIN waiterQueue' : LockFree' \/ j < wake'.at => j < wake.at
      <3>1. CASE wake.at > Len(waiterQueue')
        BY <1>0, <2>1, <2>4, <3>1 DEF WakeOn, NotWaking
      <3>2. CASE ~(wake.at > Len(waiterQueue'))
        <4>1. wake' = [at |-> wake.at, noPrimary |-> wake.noPrimary, noNonPrimary |-> NoNonPrimaryLeft]
          BY <2>1, <3>2 DEF WakeOn
        <4>2. wake'.at = wake.at /\ wake' # NotWaking
          BY <1>0, <4>1 DEF NotWaking
        <4> QED
          BY <4>1, <4>2 DEF LockFree
      <3> QED
        BY <3>1, <3>2
    <2>7. ASSUME ~LeakPending
          PROVE  /\ wake.noPrimary => ~CanTakePrimary
                 /\ NoNonPrimaryLeft => ~CanTakeNonPrimary
                 /\ \A j \in DOMAIN waiterQueue : j < wake.at =>
                      NothingToAcquire(~waiter[waiterQueue[j]].wantPrimary, TRUE)
      BY <2>1, <2>7 DEF WakeScanned, NoNonPrimaryLeft
    <2>8. ASSUME ~LeakPending, NEW j \in DOMAIN waiterQueue', j < wake.at
          PROVE  (NothingToAcquire(~waiter[waiterQueue[j]].wantPrimary, TRUE))'
      <3>1. j \in DOMAIN waiterQueue /\ j \in 1 .. Len(waiterQueue) - 1
        BY <1>0, <2>4
      <3> QED
        BY <2>2, <2>5, <2>7, <2>8, <3>1 DEF NothingToAcquire
    <2> QED
      BY <2>2, <2>3, <2>6, <2>7, <2>8 DEF WakeScanned
  <1>3. CASE WakeSkip
    <2>1. /\ isOpen /\ NothingToAcquire(WakeTriesNonPrimary, WakeTriesPrimary)
          /\ UNCHANGED <<isOpen, maxPoolSize, availVars, acquired, primary, connectionLeaked,
                         garbage, waiter, waiterQueue, pc>>
      BY <1>3 DEF WakeSkip, waitVars
    <2>2. UNCHANGED <<CanTakePrimary, CanTakeNonPrimary, LeakPending>>
      BY <2>1 DEF CanTakePrimary, CanTakeNonPrimary, PrimaryIsAcquired, OpenConnections,
         AcquiredConns, availVars, LeakPending
    <2> SUFFICES ASSUME ~LeakPending PROVE WakeScanned'
      BY <2>2 DEF WakeScanned
    <2>3. /\ ~CanTakePrimary
          /\ ~waiter[CurrentWaiter].wantPrimary => ~CanTakeNonPrimary
          /\ NoNonPrimaryLeft => ~CanTakeNonPrimary
      BY <1>0, <2>1, CurrentInVain
    <2>4. \A j \in DOMAIN waiterQueue : j <= wake.at =>
            NothingToAcquire(~waiter[waiterQueue[j]].wantPrimary, TRUE)
      <3>1. \A j \in DOMAIN waiterQueue : j <= wake.at => j < wake.at \/ j = wake.at
        BY <1>0
      <3> QED
        BY <1>0, <2>1, <2>3, <3>1 DEF WakeScanned, NothingToAcquire
    <2>5. CASE NoNonPrimaryLeft
      BY <1>3, <2>1, <2>2, <2>3, <2>5 DEF WakeSkip, WakeScanned, NothingToAcquire, NotWaking
    <2>6. CASE ~NoNonPrimaryLeft
      <3>1. WakeOn(wake.at + 1, waiterQueue, TRUE, FALSE)
        BY <1>3, <2>6 DEF WakeSkip
      <3>2. /\ ~wake'.noNonPrimary
            /\ \A j \in DOMAIN waiterQueue : LockFree' \/ j < wake'.at => j <= wake.at
        <4>1. CASE wake.at + 1 > Len(waiterQueue)
          BY <1>0, <3>1, <4>1 DEF WakeOn, NotWaking
        <4>2. CASE ~(wake.at + 1 > Len(waiterQueue))
          <5>1. wake' = [at |-> wake.at + 1, noPrimary |-> TRUE, noNonPrimary |-> FALSE]
            BY <3>1, <4>2 DEF WakeOn
          <5>2. wake'.at = wake.at + 1 /\ wake' # NotWaking
            BY <1>0, <5>1 DEF NotWaking
          <5> QED
            BY <1>0, <5>1, <5>2 DEF LockFree
        <4> QED
          BY <4>1, <4>2
      <3> QED
        BY <2>1, <2>2, <2>3, <2>4, <3>2 DEF WakeScanned, NothingToAcquire
    <2> QED
      BY <2>5, <2>6
  <1> QED
    BY <1>1, <1>2, <1>3 DEF WakeStep

\* A newcomer takes nothing that others wait for, and queues for what there is not.
LEMMA AcquireScans ==
  ASSUME PoolInvariant, FiniteConns, WakeScanned, NEW t \in Thread, NEW r \in Requests,
         AcquireNow(t, r) \/ AcquireWaits(t, r)
  PROVE  WakeScanned'
  <1> USE PoolAssumption DEF poolVars
  <1>1. CASE AcquireNow(t, r)
    <2>1. PICK c \in Conn : TryAcquireNonPrimary(c) \/ TryAcquirePrimary(c)
      BY <1>1 DEF AcquireNow, TryAcquire
    <2>2. UNCHANGED <<isOpen, maxPoolSize, connectionLeaked, garbage, waiter, waiterQueue, wake, pc>>
      BY <1>1 DEF AcquireNow, waitVars
    <2>3. LeakPending => LeakPending'
      <3>1. acquired' = [acquired EXCEPT ![c] = "normal"] /\ c \notin garbage
        BY <2>1, TryAcquireFacts
      <3> QED
        BY <2>2, <3>1, LeakFrame DEF PoolInvariant, TypeOK
    <2> QED
      BY <2>1, <2>2, <2>3, AcquireOnlyTakes, ScanFrame
  <1>2. CASE AcquireWaits(t, r)
    <2>1. PICK w \in ObtainableWaiters :
            /\ waiter' = [waiter EXCEPT ![w] = Obtained(w, t, r)]
            /\ waiterQueue' = InsertAt(waiterQueue, QueuePosition(r.priority), w)
      BY <1>2 DEF AcquireWaits
    <2>2. /\ pc[t] = "idle" /\ LockFree
          /\ NothingToAcquire(~r.wantPrimary, TRUE)
          /\ pc' = [pc EXCEPT ![t] = IF r.cancellable THEN "listen" ELSE "top"]
          /\ UNCHANGED <<isOpen, maxPoolSize, availVars, acquired, primary, connectionLeaked,
                         garbage, wake>>
          /\ r.priority \in 0 .. 1 /\ r.wantPrimary \in BOOLEAN
      BY <1>2 DEF AcquireWaits, connVars
    <2>3. /\ w \in Waiter /\ waiter[w].thread = None
          /\ waiter[w] \in ConnectionWaiter
          /\ waiter \in [Waiter -> ConnectionWaiter]
          /\ waiterQueue \in Seq(Waiter)
          /\ pc \in [Thread -> WaitingPcs \cup {"idle", "leave"}]
      BY <2>1 DEF ObtainableWaiters, RecycledWaiters, NewWaiters, PoolInvariant, TypeOK
    <2>4. /\ waiter'[w].wantPrimary = r.wantPrimary
          /\ \A v \in Waiter \ {w} : waiter'[v] = waiter[v]
      BY <2>1, <2>3 DEF Obtained, ConnectionWaiter
    <2>5. /\ waiterQueue' \in Seq(Waiter)
          /\ Range(waiterQueue') = Range(waiterQueue) \cup {w}
      BY <2>1, <2>2, <2>3, EnqueueFacts, QueuePositionFacts
    <2>6. UNCHANGED <<CanTakePrimary, CanTakeNonPrimary>>
      BY <2>2 DEF CanTakePrimary, CanTakeNonPrimary, PrimaryIsAcquired, OpenConnections,
         AcquiredConns, availVars
    <2>7. LeakPending => LeakPending'
      BY <2>2, <2>3, LeakFrame
    <2> SUFFICES ASSUME isOpen, ~LeakPending PROVE WakeScanned'
      BY <2>2, <2>7 DEF WakeScanned
    <2>8. \A v \in Range(waiterQueue) : NothingToAcquire(~waiter[v].wantPrimary, TRUE)
      BY <2>2 DEF WakeScanned, Range
    <2>9. w \notin Range(waiterQueue)
      BY <2>3, QueuedWaiter
    <2>10. \A v \in Range(waiterQueue) : v \in Waiter \ {w}
      BY <2>9, QueuedWaiter
    <2>11. \A v \in Range(waiterQueue') :
             /\ waiter'[v].wantPrimary => ~CanTakePrimary
             /\ ~waiter'[v].wantPrimary => ~CanTakePrimary /\ ~CanTakeNonPrimary
      BY <2>2, <2>4, <2>5, <2>8, <2>10 DEF NothingToAcquire
    <2>12. \A j \in DOMAIN waiterQueue' : waiterQueue'[j] \in Range(waiterQueue')
      BY DEF Range
    <2> QED
      BY <2>2, <2>6, <2>11, <2>12 DEF WakeScanned, NothingToAcquire, LockFree, NotWaking
  <1> QED
    BY <1>1, <1>2

\* A thread that waits, and one that cancels, make nothing available, and the walk
\* starts anew when they change the queue or a leak is recovered.
LEMMA ProceedScans ==
  ASSUME PoolInvariant, WakeScanned, NEW t \in Thread, Proceed(t) \/ Cancel(t) \/ OnCancel(t)
  PROVE  WakeScanned'
  <1> USE DEF poolVars, waitVars, threadVars, connVars
  <1>0. /\ pc \in [Thread -> WaitingPcs \cup {"idle", "leave"}]
        /\ waiterQueue \in Seq(Waiter)
        /\ waiter \in [Waiter -> ConnectionWaiter]
    BY DEF PoolInvariant, TypeOK
  <1>1. CASE SetListener(t) \/ PollLeakFlag(t) \/ Unpark(t) \/ CheckAgain(t) \/ ClearListener(t)
             \/ Cancel(t)
    <2>1. UNCHANGED <<isOpen, wake, waiter, waiterQueue, acquired, primary, availVars,
                      maxPoolSize, garbage>>
      BY <1>1 DEF SetListener, PollLeakFlag, Unpark, CheckAgain, ClearListener, Cancel
    <2>2. LeakPending => LeakPending'
      <3>1. CASE PollLeakFlag(t)
        BY <1>0, <2>1, <3>1 DEF PollLeakFlag, LeakPending
      <3>2. CASE ~PollLeakFlag(t)
        BY <1>0, <1>1, <2>1, <3>2, LeakFrame
           DEF SetListener, Unpark, CheckAgain, ClearListener, Cancel
      <3> QED
        BY <3>1, <3>2
    <2> QED
      BY <2>1, <2>2, ScanUnchanged
  <1>2. CASE RecoverFromLeak(t)
    BY <1>0, <1>2, ScanStart DEF RecoverFromLeak
  <1>3. CASE CheckClosed(t)
    BY <1>3 DEF CheckClosed, NotClosed, WakeScanned
  <1>4. CASE CheckDone(t)
    <2> DEFINE w == ticket[t].waiter
    <2>1. /\ UNCHANGED <<isOpen, wake, waiterQueue, acquired, primary, availVars, maxPoolSize,
                         garbage, connectionLeaked>>
          /\ pc[t] = "awake" /\ LeaveLoop(t)
          /\ waiter[w].assigned # None \/ waiter[w].exception # "none"
          /\ waiter' = [waiter EXCEPT ![w] = Recycled(w)]
      BY <1>4 DEF CheckDone
    <2>2. LeakPending => LeakPending'
      BY <1>0, <2>1, LeakFrame DEF LeaveLoop
    <2>3. \A v \in Range(waiterQueue) : v # w
      BY <2>1, QueuedWaiter
    <2>4. \A i \in DOMAIN waiterQueue : waiter'[waiterQueue[i]] = waiter[waiterQueue[i]]
      BY <1>0, <2>1, <2>3, QueuedWaiter DEF Range
    <2> QED
      BY <2>1, <2>2, <2>4, ScanUnchanged
  <1>5. CASE OnCancel(t) \/ SelfCancel(t)
    <2>1. /\ OnCancelLocked(t) /\ LockFree
          /\ UNCHANGED <<isOpen, acquired, primary, availVars, maxPoolSize, garbage, connectionLeaked>>
          /\ \A u \in Thread : pc[u] = "recover" => pc'[u] = "recover"
      BY <1>0, <1>5 DEF OnCancel, SelfCancel
    <2>2. CASE CancelIsDue(t) /\ ~CancelCrashes(t)
      <3>1. PICK i \in 1 .. Len(waiterQueue) : waiterQueue' = RemoveAt(waiterQueue, i)
        BY <2>1, <2>2 DEF OnCancelLocked, Dequeue
      <3>2. waiterQueue' \in Seq(Waiter)
        BY <1>0, <3>1, RemoveAtFacts
      <3>3. StartWake(waiterQueue')
        BY <2>1, <2>2 DEF OnCancelLocked
      <3> QED
        BY <3>2, <3>3, ScanStart
    <2>3. CASE ~(CancelIsDue(t) /\ ~CancelCrashes(t))
      <3>1. UNCHANGED <<waiter, waiterQueue, wake>>
        BY <2>1, <2>3 DEF OnCancelLocked
      <3> QED
        BY <2>1, <3>1, LeakFrame, ScanUnchanged
    <2> QED
      BY <2>2, <2>3
  <1> QED
    BY <1>1, <1>2, <1>3, <1>4, <1>5 DEF Proceed, Check

\* Where releaseConnection wakes nobody, nobody could be served: with more than one
\* connection in the pool's list a waiter has none to wait for, and with none, the
\* only one the pool may have is the primary one that a session holds.
LEMMA ReleaseScans ==
  ASSUME PoolInvariant, FiniteConns, WakeScanned, NEW t \in Thread, Release(t)
  PROVE  WakeScanned'
  <1> USE PoolAssumption DEF poolVars, waitVars
  <1>1. CASE ReleaseClosed(t)
    BY <1>1 DEF ReleaseClosed, GiveBack, WakeScanned
  <1>2. CASE ReleasePrimary(t) \/ ReleaseNonPrimary(t)
    <2>1. StartWake(waiterQueue) /\ waiterQueue' = waiterQueue
      BY <1>2 DEF ReleasePrimary, ReleaseNonPrimary, GiveBack
    <2>2. waiterQueue \in Seq(Waiter)
      BY DEF PoolInvariant, TypeOK
    <2> QED
      BY <2>1, <2>2, ScanStart
  <1>3. CASE ReleaseExcess(t)
    <2>1. PICK c \in Conn :
            /\ GiveBack(t, c) /\ isOpen /\ c \notin primary
            /\ Cardinality(availableNonPrimary) >= maxPoolSize - 1
            /\ UNCHANGED <<availVars, wake>>
      BY <1>3 DEF ReleaseExcess
    <2>2. /\ UNCHANGED <<isOpen, maxPoolSize, connectionLeaked, primary, garbage, waiter,
                         waiterQueue, pc>>
          /\ acquired' = [acquired EXCEPT ![c] = "none"]
      BY <2>1 DEF GiveBack
    <2>3. /\ AcquiredConns' = AcquiredConns \ {c} /\ LockFree
          /\ IsFiniteSet(AcquiredConns') /\ Cardinality(AcquiredConns') \in Nat
          /\ maxPoolSize \in Nat \ {0}
      BY <2>1, GiveBackFacts, AcquiredShrinks, FS_CardinalityType
         DEF PoolInvariant, TypeOK, MaxPoolSizeFor
    <2>4. LeakPending => LeakPending'
      BY <2>2, LeakFrame DEF PoolInvariant, TypeOK
    <2>5. CanTakePrimary' <=> CanTakePrimary
      BY <2>1, <2>2, <2>3 DEF CanTakePrimary, PrimaryIsAcquired, availVars
    <2> SUFFICES ASSUME ~LeakPending, NEW i \in DOMAIN waiterQueue
                 PROVE  (NothingToAcquire(~waiter[waiterQueue[i]].wantPrimary, TRUE))'
      BY <2>1, <2>2, <2>3, <2>4 DEF WakeScanned, LockFree, NotWaking
    <2>6. NothingToAcquire(~waiter[waiterQueue[i]].wantPrimary, TRUE)
      BY <2>1, <2>3 DEF WakeScanned
    <2>7. ~CanTakePrimary
      BY <2>6 DEF NothingToAcquire
    <2>8. CASE waiter[waiterQueue[i]].wantPrimary
      BY <2>2, <2>5, <2>7, <2>8 DEF NothingToAcquire
    <2>9. CASE ~waiter[waiterQueue[i]].wantPrimary
      <3>1. availableNonPrimary = {}
        BY <2>6, <2>9 DEF NothingToAcquire, CanTakeNonPrimary
      <3>2. maxPoolSize = 1
        BY <2>1, <2>3, <3>1, FS_EmptySet
      <3>3. AcquiredConns' # {}
        BY <2>1, <2>3, <2>7 DEF CanTakePrimary, PrimaryIsAcquired
      <3>4. Cardinality(AcquiredConns') # 0
        BY <2>3, <3>3, FS_EmptySet
      <3>5. OpenConnections' >= 1 /\ OpenConnections' \in Nat
        BY <2>3, <3>4 DEF OpenConnections
      <3>6. ~CanTakeNonPrimary'
        BY <2>1, <2>2, <3>1, <3>2, <3>5 DEF CanTakeNonPrimary, availVars
      <3> QED
        BY <2>5, <2>7, <3>6 DEF NothingToAcquire
    <2> QED
      BY <2>8, <2>9
  <1> QED
    BY <1>1, <1>2, <1>3 DEF Release

\* Nor is anybody forgotten where reconfigure throws without waking: it needed the
\* pool to be idle, and then nobody waits.
LEMMA ChangeScans ==
  ASSUME PoolInvariant, WakeScanned, Close \/ \E k \in Configs : Reconfigure(k)
  PROVE  WakeScanned'
  <1> USE DEF poolVars, waitVars, threadVars
  <1>0. waiterQueue \in Seq(Waiter)
    BY DEF PoolInvariant, TypeOK
  <1>1. CASE Close
    BY <1>1 DEF Close, WakeScanned
  <1>2. ASSUME NEW k \in Configs, ReconfigureInPlace(k) \/ ReconfigureReopening(k)
        PROVE  WakeScanned'
    <2>1. StartWake(waiterQueue) /\ waiterQueue' = waiterQueue
      BY <1>2 DEF ReconfigureInPlace, ReconfigureReopening, MayReconfigure
    <2> QED
      BY <1>0, <2>1, ScanStart
  <1>3. ASSUME NEW k \in Configs, ReconfigureFails(k)
        PROVE  WakeScanned'
    <2>1. /\ AcquiredConns = {} /\ LockFree /\ isOpen
          /\ UNCHANGED <<isOpen, wake, waiterQueue, connectionLeaked, garbage, acquired, pc>>
      BY <1>3 DEF ReconfigureFails, MayReconfigure, NeedsIdlePool, NotClosed
    <2>2. LeakPending => LeakPending'
      BY <2>1, LeakFrame
    <2>3. ~LeakPending => DOMAIN waiterQueue = {}
      BY <2>1 DEF WakeScanned, NothingToAcquire, CanTakePrimary, PrimaryIsAcquired
    <2> QED
      BY <2>1, <2>2, <2>3 DEF WakeScanned, LockFree, NotWaking
  <1> QED
    BY <1>1, <1>2, <1>3 DEF Reconfigure

\* What a leak frees is pending until the walk starts for it.
LEMMA LeakScans ==
  ASSUME PoolInvariant, WakeScanned,
         \/ \E t \in Thread : Leak(t)
         \/ \E c \in Conn : ClearWeakEntry(c) \/ Finalize(c)
  PROVE  WakeScanned'
  <1> USE DEF poolVars, waitVars, threadVars, connVars
  <1>1. ASSUME NEW t \in Thread, Leak(t) PROVE WakeScanned'
    <2>1. UNCHANGED <<isOpen, wake, waiter, waiterQueue, acquired, primary, availVars,
                      maxPoolSize, connectionLeaked, pc>> /\ garbage \subseteq garbage'
      BY <1>1 DEF Leak
    <2>2. LeakPending => LeakPending'
      BY <2>1 DEF LeakPending
    <2> QED
      BY <2>1, <2>2, ScanUnchanged
  <1>2. ASSUME NEW c \in Conn, ClearWeakEntry(c) \/ Finalize(c) PROVE LeakPending'
    BY <1>2 DEF ClearWeakEntry, Finalize, LeakPending, PoolInvariant, TypeOK
  <1> QED
    BY <1>1, <1>2 DEF WakeScanned

\* Every step leaves scanned what the wake loop has passed.
LEMMA ScanStep == PoolInvariant /\ FiniteConns /\ WakeScanned /\ [Next]_vars => WakeScanned'
  <1> SUFFICES ASSUME PoolInvariant, FiniteConns, WakeScanned, [Next]_vars PROVE WakeScanned'
    OBVIOUS
  <1>1. CASE UNCHANGED vars
    <2>1. /\ UNCHANGED <<isOpen, wake, waiter, waiterQueue, acquired, primary, availVars,
                         maxPoolSize>>
          /\ LeakPending => LeakPending'
      BY <1>1 DEF vars, poolVars, waitVars, connVars, threadVars, LeakPending
    <2> QED
      BY <2>1, ScanUnchanged
  <1> QED
    BY <1>1, WakeScans, AcquireScans, ProceedScans, ReleaseScans, ChangeScans, LeakScans
       DEF Next, ThreadStep

\* Behind the wake loop nobody could ever be served.
LEMMA AlwaysScanned == Spec => []WakeScanned
  <1>1. Init => WakeScanned
    BY DEF Init, WakeScanned, NotWaking
  <1> QED
    BY <1>1, PoolInvariantHolds, AlwaysFinite, ScanStep, PTL DEF Spec

\* No wake-up is lost: whenever the lock is free, nobody waits in an open pool's queue
\* for a connection it could have, unless a leak has only just freed it. That holds
\* although releaseConnection closes an excess connection, and reconfigure throws,
\* without waking anybody.
THEOREM NoWakeupIsLost == Spec => []NoLostWakeup
  <1>1. WakeScanned => NoLostWakeup
    BY DEF WakeScanned, NoLostWakeup, Range
  <1> QED
    BY <1>1, AlwaysScanned, PTL

-----------------------------------------------------------------------------
(* Order.                                                                  *)

\* A waiter for whom there was nothing would not have taken what is taken now.
LEMMA NotTakenFrom ==
  ASSUME PoolInvariant, NEW c \in Conn, TryAcquireNonPrimary(c) \/ TryAcquirePrimary(c),
         NEW v \in Range(waiterQueue),
         NothingToAcquire(~waiter[v].wantPrimary, TRUE)
  PROVE  ~WouldTake(v, c)
  <1>1. ~TryAcquirePrimary(c)
    BY PoolAssumption DEF NothingToAcquire, TryAcquirePrimary, CanTakePrimary
  <1>2. CanTakeNonPrimary
    BY <1>1 DEF TryAcquireNonPrimary, CanTakeNonPrimary
  <1>3. waiter[v].wantPrimary
    BY <1>2 DEF NothingToAcquire
  <1>4. c \notin primary'
    BY <1>1 DEF TryAcquireNonPrimary, OpenConnection, connVars, PoolInvariant, SinglePrimary
  <1> QED
    BY <1>3, <1>4 DEF WouldTake

\* The two halves of GrantInOrder: for those in the queue, and for newcomers.
GrantsInOrder ==
  \A i \in DOMAIN waiterQueue :
    LET c == waiter'[waiterQueue[i]].assigned
    IN  c # None => \A j \in 1 .. i - 1 : ~WouldTake(waiterQueue[j], c)

NewcomersInOrder ==
  \A t \in Thread : pc[t] = "idle" /\ hold'[t] \notin {None, hold[t]} =>
    \A v \in Range(waiterQueue) : ~WouldTake(v, hold'[t])

\* Only the wake loop assigns connections to waiters in the queue.
LEMMA OnlyWakeAssigns ==
  ASSUME PoolInvariant, Next, ~WakeAssign
  PROVE  GrantsInOrder
  <1> SUFFICES ASSUME NEW v \in Range(waiterQueue)
               PROVE  waiter'[v].assigned = None
    BY DEF GrantsInOrder, Range
  <1> USE DEF waitVars
  <1>0. /\ v \in Waiter /\ waiter[v] \in ConnectionWaiter
        /\ waiter[v].assigned = None /\ waiter[v].exception = "none"
        /\ waiter[v].thread # None
        /\ waiter \in [Waiter -> ConnectionWaiter]
    BY QueuedWaiter, PoolAssumption DEF PoolInvariant, TypeOK
  <1>1. CASE WakeStep
    <2>1. CASE WakeThrow
      BY <1>0, <2>1, CurrentWaiterFacts, ExceptionAnswer DEF WakeThrow
    <2>2. CASE WakeClosed \/ WakeSkip
      BY <1>0, <2>2 DEF WakeClosed, WakeSkip
    <2> QED
      BY <1>1, <2>1, <2>2 DEF WakeStep
  <1>2. ASSUME NEW t \in Thread, NEW r \in Requests, AcquireNow(t, r) \/ AcquireWaits(t, r)
        PROVE  waiter'[v].assigned = None
    <2>1. CASE AcquireNow(t, r)
      BY <1>0, <2>1 DEF AcquireNow
    <2>2. CASE AcquireWaits(t, r)
      <3>1. PICK w \in ObtainableWaiters : waiter' = [waiter EXCEPT ![w] = Obtained(w, t, r)]
        BY <2>2 DEF AcquireWaits
      <3>2. w # v
        BY <1>0 DEF ObtainableWaiters, RecycledWaiters, NewWaiters
      <3> QED
        BY <1>0, <3>1, <3>2
    <2> QED
      BY <1>2, <2>1, <2>2
  <1>3. ASSUME NEW t \in Thread, Proceed(t) \/ Cancel(t) \/ OnCancel(t)
        PROVE  waiter'[v].assigned = None
    <2>1. CASE OnCancel(t) \/ SelfCancel(t)
      <3>1. OnCancelLocked(t)
        BY <2>1 DEF OnCancel, SelfCancel
      <3>2. CASE CancelIsDue(t) /\ ~CancelCrashes(t)
        <4>1. /\ ticket[t].waiter \in Range(waiterQueue)
              /\ waiter' = [waiter EXCEPT ![ticket[t].waiter].exception = "canceled"]
          BY <3>1, <3>2 DEF OnCancelLocked, CancelCrashes
        <4> QED
          BY <1>0, <4>1, ExceptionAnswer
      <3>3. CASE ~(CancelIsDue(t) /\ ~CancelCrashes(t))
        BY <1>0, <3>1, <3>3 DEF OnCancelLocked
      <3> QED
        BY <3>2, <3>3
    <2>2. CASE CheckDone(t)
      <3> DEFINE w == ticket[t].waiter
      <3>1. /\ waiter' = [waiter EXCEPT ![w] = Recycled(w)]
            /\ waiter[w].assigned # None \/ waiter[w].exception # "none"
        BY <2>2 DEF CheckDone
      <3>2. w # v
        BY <1>0, <3>1
      <3> QED
        BY <1>0, <3>1, <3>2
    <2>3. CASE ~OnCancel(t) /\ ~SelfCancel(t) /\ ~CheckDone(t)
      BY <1>0, <1>3, <2>3 DEF Proceed, SetListener, PollLeakFlag, RecoverFromLeak, Unpark, Check,
         CheckClosed, CheckAgain, ClearListener, Cancel
    <2> QED
      BY <2>1, <2>2, <2>3
  <1>4. CASE waiter' = waiter
    BY <1>0, <1>4
  <1>5. ASSUME NEW t \in Thread, Release(t) \/ Leak(t) PROVE waiter' = waiter
    BY <1>5 DEF Release, ReleaseClosed, ReleasePrimary, ReleaseExcess, ReleaseNonPrimary,
       GiveBack, Leak
  <1>6. ASSUME Close \/ \E k \in Configs : Reconfigure(k) PROVE waiter' = waiter
    BY <1>6 DEF Close, Reconfigure, ReconfigureInPlace, ReconfigureReopening, ReconfigureFails,
       MayReconfigure
  <1>7. ASSUME NEW c \in Conn, ClearWeakEntry(c) \/ Finalize(c) PROVE waiter' = waiter
    BY <1>7 DEF ClearWeakEntry, Finalize
  <1> QED
    BY <1>1, <1>2, <1>3, <1>4, <1>5, <1>6, <1>7 DEF Next, ThreadStep

\* Only an immediate acquisition gives a thread that does not wait a connection.
LEMMA OnlyAcquireNowGives ==
  ASSUME PoolInvariant, Next, \A t \in Thread, r \in Requests : ~AcquireNow(t, r)
  PROVE  NewcomersInOrder
  <1> SUFFICES \A t \in Thread : pc[t] = "idle" => hold'[t] \in {None, hold[t]}
    BY DEF NewcomersInOrder
  <1> USE DEF threadVars
  <1>0. hold \in [Thread -> Conn \cup {None}]
    BY DEF PoolInvariant, TypeOK
  <1>1. CASE WakeStep \/ Close \/ (\E k \in Configs : Reconfigure(k))
             \/ \E c \in Conn : ClearWeakEntry(c) \/ Finalize(c)
    BY <1>1 DEF WakeStep, WakeClosed, WakeAssign, WakeThrow, WakeSkip, Close, Reconfigure,
       ReconfigureInPlace, ReconfigureReopening, ReconfigureFails, MayReconfigure,
       ClearWeakEntry, Finalize
  <1>2. ASSUME NEW t \in Thread, \/ \E r \in Requests : AcquireWaits(t, r)
                                 \/ Release(t) \/ Leak(t) \/ Cancel(t) \/ OnCancel(t)
        PROVE  \A u \in Thread : hold'[u] \in {None, hold[u]}
    BY <1>0, <1>2 DEF AcquireWaits, Release, ReleaseClosed, ReleasePrimary, ReleaseExcess,
       ReleaseNonPrimary, GiveBack, Leak, Cancel, OnCancel
  <1>3. ASSUME NEW t \in Thread, Proceed(t)
        PROVE  \A u \in Thread : pc[u] = "idle" => hold'[u] \in {None, hold[u]}
    BY <1>0, <1>3 DEF Proceed, SetListener, SelfCancel, PollLeakFlag, RecoverFromLeak, Unpark,
       Check, CheckClosed, CheckDone, CheckAgain, ClearListener
  <1> QED
    BY <1>1, <1>2, <1>3 DEF Next, ThreadStep

\* A step that gives a connection away gives it in order.
LEMMA GrantStep ==
  ASSUME PoolInvariant, WakeScanned, Next, ~LeakPending
  PROVE  GrantsInOrder /\ NewcomersInOrder
  <1>1. CASE WakeAssign
    <2>1. NewcomersInOrder
      BY <1>1 DEF WakeAssign, threadVars, NewcomersInOrder
    <2>2. PICK c \in Conn : /\ TryAcquireNonPrimary(c) \/ TryAcquirePrimary(c)
                            /\ waiter' = [waiter EXCEPT ![CurrentWaiter].assigned = c]
      BY <1>1 DEF WakeAssign, TryAcquire
    <2>3. ~LockFree /\ isOpen
      BY <1>1 DEF WakeAssign
    <2>4. /\ wake.at \in 1 .. Len(waiterQueue) /\ Len(waiterQueue) \in Nat
          /\ DOMAIN waiterQueue = 1 .. Len(waiterQueue)
          /\ CurrentWaiter = waiterQueue[wake.at]
          /\ waiter \in [Waiter -> ConnectionWaiter]
      BY <2>3, CurrentWaiterFacts, LenProperties DEF CurrentWaiter, PoolInvariant, TypeOK
    <2>5. ASSUME NEW i \in DOMAIN waiterQueue, waiter'[waiterQueue[i]].assigned # None,
                 NEW j \in 1 .. i - 1
          PROVE  ~WouldTake(waiterQueue[j], waiter'[waiterQueue[i]].assigned)
      <3>1. waiterQueue[i] = CurrentWaiter
        <4> SUFFICES ASSUME waiterQueue[i] # CurrentWaiter PROVE FALSE
          OBVIOUS
        <4>1. waiterQueue[i] \in Range(waiterQueue)
          BY DEF Range
        <4>2. waiterQueue[i] \in Waiter /\ waiter[waiterQueue[i]].assigned = None
          BY <4>1, QueuedWaiter
        <4>3. waiter'[waiterQueue[i]] = waiter[waiterQueue[i]]
          BY <2>2, <2>4, <4>2
        <4> QED
          BY <2>5, <4>2, <4>3
      <3>2. waiter'[waiterQueue[i]].assigned = c
        <4>1. CurrentWaiter \in Waiter
          BY <2>3, CurrentWaiterFacts
        <4>2. waiter[CurrentWaiter] \in ConnectionWaiter
          BY <2>4, <4>1
        <4> DEFINE s == [waiter[CurrentWaiter] EXCEPT !.assigned = c]
        <4>3. s.assigned = c
          BY <4>2, AssignedField
        <4>4. waiter'[CurrentWaiter] = s
          BY <2>2, <2>4, <4>1
        <4> HIDE DEF s
        <4> QED
          BY <3>1, <4>3, <4>4
      <3>3. i = wake.at
        <4>1. ~(i < wake.at) /\ ~(wake.at < i)
          BY <2>4, <3>1 DEF PoolInvariant, QueueInOrder
        <4> QED
          BY <2>4, <4>1
      <3>4. j \in DOMAIN waiterQueue /\ j < wake.at /\ waiterQueue[j] \in Range(waiterQueue)
        BY <2>4, <3>3 DEF Range
      <3>5. NothingToAcquire(~waiter[waiterQueue[j]].wantPrimary, TRUE)
        BY <2>3, <3>4 DEF WakeScanned
      <3> QED
        BY <2>2, <3>2, <3>4, <3>5, NotTakenFrom
    <2> QED
      BY <2>1, <2>5 DEF GrantsInOrder
  <1>2. ASSUME NEW t \in Thread, NEW r \in Requests, AcquireNow(t, r)
        PROVE  GrantsInOrder /\ NewcomersInOrder
    <2>1. PICK c \in Conn : /\ TryAcquireNonPrimary(c) \/ TryAcquirePrimary(c)
                            /\ hold' = [hold EXCEPT ![t] = c]
      BY <1>2 DEF AcquireNow, TryAcquire
    <2>2. LockFree /\ isOpen /\ waiter' = waiter /\ hold \in [Thread -> Conn \cup {None}]
      BY <1>2 DEF AcquireNow, NotClosed, waitVars, PoolInvariant, TypeOK
    <2>3. \A v \in Range(waiterQueue) : NothingToAcquire(~waiter[v].wantPrimary, TRUE)
      BY <2>2 DEF WakeScanned, Range
    <2>4. \A v \in Range(waiterQueue) : ~WouldTake(v, c)
      BY <2>1, <2>3, NotTakenFrom
    <2>5. NewcomersInOrder
      BY <2>1, <2>2, <2>4 DEF NewcomersInOrder
    <2>6. GrantsInOrder
      <3>1. \A v \in Range(waiterQueue) : waiter'[v].assigned = None
        BY <2>2, QueuedWaiter
      <3> QED
        BY <3>1 DEF GrantsInOrder, Range
    <2> QED
      BY <2>5, <2>6
  <1>3. CASE ~WakeAssign /\ \A t \in Thread, r \in Requests : ~AcquireNow(t, r)
    BY <1>3, OnlyWakeAssigns, OnlyAcquireNowGives
  <1>4. CASE ~WakeAssign /\ \E t \in Thread, r \in Requests : AcquireNow(t, r)
    BY <1>2, <1>4
  <1> QED
    BY <1>1, <1>3, <1>4

\* A connection goes to a waiter only if nobody ahead of it in the queue would have
\* taken it, and to a newcomer only if nobody in the queue would have.
THEOREM GrantsAreInOrder == Spec => GrantInOrder
  <1> DEFINE InOrder ==
        \/ LeakPending
        \/ /\ \A i \in DOMAIN waiterQueue :
                LET c == waiter'[waiterQueue[i]].assigned
                IN  c # None => \A j \in 1 .. i - 1 : ~WouldTake(waiterQueue[j], c)
           /\ \A t \in Thread : pc[t] = "idle" /\ hold'[t] \notin {None, hold[t]} =>
                \A v \in Range(waiterQueue) : ~WouldTake(v, hold'[t])
  <1>1. PoolInvariant /\ WakeScanned /\ [Next]_vars => [InOrder]_<<waiter, hold>>
    <2>1. PoolInvariant /\ WakeScanned /\ Next => InOrder
      BY GrantStep DEF GrantsInOrder, NewcomersInOrder
    <2> QED
      BY <2>1 DEF vars, waitVars, threadVars
  <1> QED
    BY <1>1, PoolInvariantHolds, AlwaysScanned, PTL DEF Spec, GrantInOrder

\* The position of an element is where it is.
LEMMA PositionFacts ==
  ASSUME NEW q, NEW v \in Range(q)
  PROVE  PositionIn(q, v) \in DOMAIN q /\ q[PositionIn(q, v)] = v
  <1>1. \E i \in DOMAIN q : q[i] = v
    BY DEF Range
  <1> QED
    BY <1>1 DEF PositionIn

\* In a queue of distinct waiters it is the only place.
LEMMA PositionUnique ==
  ASSUME NEW q \in Seq(Waiter), NEW i \in DOMAIN q, NEW v, q[i] = v,
         \A j, k \in DOMAIN q : j < k => q[j] # q[k]
  PROVE  PositionIn(q, v) = i
  <1>1. v \in Range(q)
    BY DEF Range
  <1>2. DOMAIN q = 1 .. Len(q) /\ Len(q) \in Nat
    BY LenProperties
  <1>3. PositionIn(q, v) \in DOMAIN q /\ q[PositionIn(q, v)] = v
    BY <1>1, PositionFacts
  <1>4. ~(PositionIn(q, v) < i) /\ ~(i < PositionIn(q, v))
    BY <1>3
  <1> QED
    BY <1>2, <1>3, <1>4

\* v, if it was ahead of w or w is new and no more urgent, is ahead of w.
KeepsItsPlace(v, w) ==
  \/ /\ w \in Range(waiterQueue)
     /\ PositionIn(waiterQueue, v) < PositionIn(waiterQueue, w)
  \/ /\ w \notin Range(waiterQueue)
     /\ waiter[v].priority >= waiter'[w].priority
  => PositionIn(waiterQueue', v) < PositionIn(waiterQueue', w)

\* DequeueFacts, of a queue that is known as what is left of another.
LEMMA DequeuedOrder ==
  ASSUME NEW q \in Seq(Waiter), NEW i \in 1 .. Len(q), NEW r, r = RemoveAt(q, i),
         \A j, k \in DOMAIN q : j < k => q[j] # q[k]
  PROVE  /\ Range(r) = Range(q) \ {q[i]}
         /\ \A j, k \in DOMAIN r : j < k =>
              \E a, b \in DOMAIN q : a < b /\ r[j] = q[a] /\ r[k] = q[b]
  BY DequeueFacts

\* Taking a waiter out keeps the others in order.
LEMMA DequeueOvertakesNobody ==
  ASSUME PoolInvariant, PoolInvariant', NEW i \in 1 .. Len(waiterQueue),
         waiterQueue' = RemoveAt(waiterQueue, i),
         NEW v \in Range(waiterQueue) \cap Range(waiterQueue'),
         NEW w \in Range(waiterQueue') \ {v}
  PROVE  KeepsItsPlace(v, w)
  <1> DEFINE q == waiterQueue
             r == waiterQueue'
  <1>1. /\ q \in Seq(Waiter) /\ \A j, k \in DOMAIN q : j < k => q[j] # q[k]
        /\ r \in Seq(Waiter) /\ \A j, k \in DOMAIN r : j < k => r[j] # r[k]
    BY DEF PoolInvariant, TypeOK, QueueInOrder
  <1>0. i \in 1 .. Len(q) /\ r = RemoveAt(q, i)
    OBVIOUS
  <1> HIDE DEF q, r
  <1>2. /\ Range(r) = Range(q) \ {q[i]}
        /\ \A j, k \in DOMAIN r : j < k =>
             \E a, b \in DOMAIN q : a < b /\ r[j] = q[a] /\ r[k] = q[b]
    BY <1>0, <1>1, DequeuedOrder
  <1>3. /\ DOMAIN q = 1 .. Len(q) /\ Len(q) \in Nat
        /\ DOMAIN r = 1 .. Len(r) /\ Len(r) \in Nat
    BY <1>1, LenProperties
  <1>4. /\ PositionIn(r, v) \in DOMAIN r /\ r[PositionIn(r, v)] = v
        /\ PositionIn(r, w) \in DOMAIN r /\ r[PositionIn(r, w)] = w
    BY PositionFacts DEF r
  <1>5. w \in Range(q)
    BY <1>2 DEF r
  <1> SUFFICES ASSUME PositionIn(q, v) < PositionIn(q, w)
               PROVE  PositionIn(r, v) < PositionIn(r, w)
    BY <1>5 DEF KeepsItsPlace, q, r
  <1>6. ASSUME PositionIn(r, w) < PositionIn(r, v) PROVE FALSE
    <2>1. PICK a, b \in DOMAIN q : a < b /\ w = q[a] /\ v = q[b]
      BY <1>2, <1>4, <1>6
    <2>2. PositionIn(q, w) = a /\ PositionIn(q, v) = b
      BY <1>1, <2>1, PositionUnique
    <2> QED
      BY <1>3, <2>1, <2>2
  <1>7. PositionIn(r, w) # PositionIn(r, v)
    BY <1>4
  <1> QED
    BY <1>3, <1>4, <1>6, <1>7

\* A newcomer goes behind all of its own and of higher priority.
LEMMA EnqueueOvertakesNobody ==
  ASSUME PoolInvariant, PoolInvariant', NEW t \in Thread, NEW p \in Requests, AcquireWaits(t, p),
         NEW v \in Range(waiterQueue) \cap Range(waiterQueue'),
         NEW w \in Range(waiterQueue') \ {v}
  PROVE  KeepsItsPlace(v, w)
  <1> DEFINE q == waiterQueue
             r == waiterQueue'
             i == QueuePosition(p.priority)
  <1>1. /\ q \in Seq(Waiter) /\ \A j, k \in DOMAIN q : j < k => q[j] # q[k]
        /\ r \in Seq(Waiter) /\ \A j, k \in DOMAIN r : j < k => r[j] # r[k]
        /\ waiter \in [Waiter -> ConnectionWaiter]
        /\ p.priority \in 0 .. 1
    BY PoolAssumption DEF PoolInvariant, TypeOK, QueueInOrder
  <1>2. PICK n \in ObtainableWaiters :
          /\ waiter' = [waiter EXCEPT ![n] = Obtained(n, t, p)]
          /\ r = InsertAt(q, i, n)
    BY DEF AcquireWaits
  <1>3. n \in Waiter /\ waiter[n].thread = None /\ waiter[n] \in ConnectionWaiter
    BY <1>1 DEF ObtainableWaiters, RecycledWaiters, NewWaiters
  <1>4. /\ i \in 1 .. Len(q) + 1
        /\ \A j \in i .. Len(q) : waiter[q[j]].priority < p.priority
    BY <1>1, QueuePositionFacts
  <1>5. Range(r) = Range(q) \cup {n} /\ Placed(r, q, i, n)
    BY <1>1, <1>2, <1>3, <1>4, EnqueueFacts
  <1>6. n \notin Range(q)
    BY <1>3, QueuedWaiter, PoolAssumption
  <1>7. waiter'[n].priority = p.priority
    BY <1>1, <1>2, <1>3, ObtainedFields
  <1>8. /\ DOMAIN q = 1 .. Len(q) /\ Len(q) \in Nat
        /\ DOMAIN r = 1 .. Len(r) /\ Len(r) \in Nat
    BY <1>1, LenProperties
  <1>9. v \in Waiter /\ waiter[v].priority \in 0 .. 1 /\ v # n
    BY <1>6, QueuedWaiter DEF ConnectionWaiter
  <1> HIDE DEF q, r, i
  <1>10. /\ PositionIn(r, v) \in DOMAIN r /\ r[PositionIn(r, v)] = v
         /\ PositionIn(r, w) \in DOMAIN r /\ r[PositionIn(r, w)] = w
    BY PositionFacts DEF r
  <1> SUFFICES ASSUME \/ w \in Range(q) /\ PositionIn(q, v) < PositionIn(q, w)
                      \/ w \notin Range(q) /\ waiter[v].priority >= waiter'[w].priority
               PROVE  PositionIn(r, v) < PositionIn(r, w)
    BY DEF KeepsItsPlace, q, r
  <1>11. ASSUME PositionIn(r, w) < PositionIn(r, v) PROVE FALSE
    <2>1. \/ \E a, b \in DOMAIN q : a < b /\ w = q[a] /\ v = q[b]
          \/ w = n /\ \E b \in i .. Len(q) : v = q[b]
      BY <1>5, <1>9, <1>10, <1>11 DEF Placed
    <2>2. CASE \E a, b \in DOMAIN q : a < b /\ w = q[a] /\ v = q[b]
      <3>1. PICK a, b \in DOMAIN q : a < b /\ w = q[a] /\ v = q[b]
        BY <2>2
      <3>2. PositionIn(q, w) = a /\ PositionIn(q, v) = b /\ w \in Range(q)
        BY <1>1, <3>1, PositionUnique DEF Range
      <3> QED
        BY <1>8, <3>1, <3>2
    <2>3. CASE w = n /\ \E b \in i .. Len(q) : v = q[b]
      <3>1. waiter[v].priority < waiter'[w].priority
        BY <1>4, <1>7, <2>3
      <3> QED
        BY <1>1, <1>6, <1>7, <1>9, <2>3, <3>1
    <2> QED
      BY <2>1, <2>2, <2>3
  <1>12. PositionIn(r, w) # PositionIn(r, v)
    BY <1>10
  <1> QED
    BY <1>8, <1>10, <1>11, <1>12

\* The queue changes in these two ways only.
LEMMA QueueChanges ==
  ASSUME PoolInvariant, Next, waiterQueue' # waiterQueue
  PROVE  \/ \E t \in Thread, r \in Requests : AcquireWaits(t, r)
         \/ \E i \in 1 .. Len(waiterQueue) : waiterQueue' = RemoveAt(waiterQueue, i)
  <1> USE DEF waitVars
  <1>1. CASE WakeStep
    BY <1>1, CurrentWaiterFacts
       DEF WakeStep, WakeClosed, WakeAssign, WakeThrow, WakeSkip, Dequeue
  <1>2. ASSUME NEW t \in Thread, Proceed(t) \/ Cancel(t) \/ OnCancel(t)
        PROVE  \E i \in 1 .. Len(waiterQueue) : waiterQueue' = RemoveAt(waiterQueue, i)
    BY <1>2 DEF Proceed, SetListener, SelfCancel, OnCancel, OnCancelLocked, Dequeue, PollLeakFlag,
       RecoverFromLeak, Unpark, Check, CheckClosed, CheckDone, CheckAgain, ClearListener, Cancel
  <1>3. ASSUME NEW t \in Thread,
               (\E r \in Requests : AcquireNow(t, r)) \/ Release(t) \/ Leak(t)
        PROVE  FALSE
    BY <1>3 DEF AcquireNow, Release, ReleaseClosed, ReleasePrimary, ReleaseExcess,
       ReleaseNonPrimary, GiveBack, Leak
  <1>4. ASSUME Close \/ \E k \in Configs : Reconfigure(k) PROVE FALSE
    BY <1>4 DEF Close, Reconfigure, ReconfigureInPlace, ReconfigureReopening, ReconfigureFails,
       MayReconfigure
  <1>5. ASSUME NEW c \in Conn, ClearWeakEntry(c) \/ Finalize(c) PROVE FALSE
    BY <1>5 DEF ClearWeakEntry, Finalize
  <1> QED
    BY <1>1, <1>2, <1>3, <1>4, <1>5 DEF Next, ThreadStep

\* Requests of one priority are served first come, first served, and nobody in the
\* queue is overtaken by a request of the same or a lower priority.
THEOREM NobodyIsOvertaken == Spec => NoOvertaking
  <1> DEFINE InPlace ==
        \A v \in Range(waiterQueue) \cap Range(waiterQueue') : \A w \in Range(waiterQueue') \ {v} :
          \/ /\ w \in Range(waiterQueue)
             /\ PositionIn(waiterQueue, v) < PositionIn(waiterQueue, w)
          \/ /\ w \notin Range(waiterQueue)
             /\ waiter[v].priority >= waiter'[w].priority
          => PositionIn(waiterQueue', v) < PositionIn(waiterQueue', w)
  <1>1. PoolInvariant /\ [Next]_vars => [InPlace]_waiterQueue
    <2> SUFFICES ASSUME PoolInvariant, Next, waiterQueue' # waiterQueue PROVE InPlace
      BY DEF vars, waitVars
    <2>1. PoolInvariant'
      BY NextInvariant
    <2>2. \A v \in Range(waiterQueue) \cap Range(waiterQueue') :
            \A w \in Range(waiterQueue') \ {v} : KeepsItsPlace(v, w)
      BY <2>1, QueueChanges, DequeueOvertakesNobody, EnqueueOvertakesNobody
    <2> QED
      BY <2>2 DEF KeepsItsPlace
  <1> QED
    BY <1>1, PoolInvariantHolds, PTL DEF Spec, NoOvertaking

-----------------------------------------------------------------------------
(* The bound on open connections.                                          *)

\* Nothing that makes the pool lose its primary connection or make a second one:
\* a leak, a connection that fails to be reconfigured, or a change of open flags
\* other than of WAL mode.
PrimaryStays ==
  /\ Faults \cap {"leak", "reconfigure"} = {}
  /\ \A s \in Switches : /\ s[1].wal = s[2].wal => s[1].openFlags = s[2].openFlags
                         /\ "open" \in Faults => s[1].wal = s[2].wal

\* What counts against the bound: the acquired connections, and what the pool has.
Counted == OpenConnections + Cardinality(availableNonPrimary)

\* The counts are numbers, and together they are the connections of the pool.
LEMMA CountFacts ==
  ASSUME PoolInvariant, FiniteConns
  PROVE  /\ Cardinality(AcquiredConns) \in Nat /\ Cardinality(availableNonPrimary) \in Nat
         /\ OpenConnections \in Nat /\ Counted \in Nat
         /\ maxPoolSize \in Nat \ {0}
         /\ PooledConnections <= Counted
  <1>1. /\ Cardinality(AcquiredConns) \in Nat /\ Cardinality(availableNonPrimary) \in Nat
        /\ maxPoolSize \in Nat \ {0}
    BY FS_CardinalityType, PoolAssumption DEF FiniteConns, PoolInvariant, TypeOK, MaxPoolSizeFor
  <1>2. OpenConnections \in Nat /\ Counted \in Nat
    BY <1>1 DEF OpenConnections, Counted
  <1> DEFINE lent == AcquiredConns \cup availableNonPrimary
  <1>3. IsFiniteSet(lent) /\ Cardinality(lent) \in Nat
        /\ Cardinality(lent) <= Cardinality(AcquiredConns) + Cardinality(availableNonPrimary)
    <2>1. IsFiniteSet(lent)
      BY FS_Union DEF FiniteConns
    <2>2. Cardinality(lent) = Cardinality(AcquiredConns) + Cardinality(availableNonPrimary)
                              - Cardinality(AcquiredConns \cap availableNonPrimary)
      BY FS_Union DEF FiniteConns
    <2>3. Cardinality(AcquiredConns \cap availableNonPrimary) \in Nat
      BY FS_Intersection, FS_CardinalityType DEF FiniteConns
    <2>4. Cardinality(lent) \in Nat
      BY <2>1, FS_CardinalityType
    <2> HIDE DEF lent
    <2> QED
      BY <1>1, <2>1, <2>2, <2>3, <2>4
  <1>4. CASE availablePrimary = None
    <2>1. PooledConnections = Cardinality(lent)
      <3>1. AcquiredConns \cup AvailableConns = lent
        BY <1>4 DEF AvailableConns
      <3> QED
        BY <3>1 DEF PooledConnections
    <2>2. Counted = Cardinality(AcquiredConns) + Cardinality(availableNonPrimary)
      BY <1>1, <1>4 DEF Counted, OpenConnections
    <2> HIDE DEF lent
    <2> QED
      BY <1>1, <1>2, <1>3, <2>1, <2>2
  <1>5. CASE availablePrimary # None
    <2>1. PooledConnections = Cardinality(lent \cup {availablePrimary})
      <3>1. AcquiredConns \cup AvailableConns = lent \cup {availablePrimary}
        BY <1>5 DEF AvailableConns
      <3> QED
        BY <3>1 DEF PooledConnections
    <2>2. Counted = Cardinality(AcquiredConns) + 1 + Cardinality(availableNonPrimary)
      BY <1>1, <1>5 DEF Counted, OpenConnections
    <2> HIDE DEF lent
    <2>3. Cardinality(lent \cup {availablePrimary})
            = IF availablePrimary \in lent THEN Cardinality(lent) ELSE Cardinality(lent) + 1
      BY <1>3, FS_AddElement
    <2>4. PooledConnections <= Cardinality(lent) + 1 /\ PooledConnections \in Nat
      BY <1>3, <2>1, <2>3
    <2> QED
      BY <1>1, <1>2, <1>3, <2>2, <2>4
  <1> QED
    BY <1>1, <1>2, <1>4, <1>5

\* One of the connections of an open pool is primary then, none is about to be thrown
\* away, and they are within the bound.
Holding ==
  /\ availablePrimary # None \/ PrimaryIsAcquired
  /\ AcquiredConns \cap garbage = {}
  /\ \A c \in Conn : acquired[c] # "discard"
  /\ Counted <= maxPoolSize

\* Opening a connection keeps within the bound, because the primary one never has to
\* be opened.
LEMMA AcquireCounts ==
  ASSUME PoolInvariant, FiniteConns, Holding, NEW c \in Conn,
         TryAcquireNonPrimary(c) \/ TryAcquirePrimary(c),
         UNCHANGED <<maxPoolSize, garbage>>
  PROVE  Holding'
  <1> USE PoolAssumption
  <1>1. /\ acquired' = [acquired EXCEPT ![c] = "normal"]
        /\ AcquiredConns' = AcquiredConns \cup {c}
        /\ c \notin garbage /\ c \notin AcquiredConns
        /\ Cardinality(AcquiredConns') = Cardinality(AcquiredConns) + 1
    BY TryAcquireFacts, AcquiredGrows
  <1>2. /\ Cardinality(AcquiredConns) \in Nat /\ Cardinality(availableNonPrimary) \in Nat
        /\ maxPoolSize \in Nat \ {0}
    BY CountFacts
  <1>3. AcquiredConns' \cap garbage' = {} /\ \A d \in Conn : acquired'[d] # "discard"
    BY <1>1 DEF Holding, PoolInvariant, TypeOK
  <1>4. CASE /\ c \in availableNonPrimary
             /\ availableNonPrimary' = availableNonPrimary \ {c}
             /\ UNCHANGED connVars /\ UNCHANGED availablePrimary
    <2>1. Cardinality(availableNonPrimary') = Cardinality(availableNonPrimary) - 1
      BY <1>4, FS_RemoveElement DEF FiniteConns
    <2>2. Counted' = Counted
      BY <1>1, <1>2, <1>4, <2>1 DEF Counted, OpenConnections
    <2>3. availablePrimary' # None \/ PrimaryIsAcquired'
      BY <1>1, <1>4 DEF Holding, PrimaryIsAcquired, connVars
    <2> QED
      BY <1>3, <2>2, <2>3 DEF Holding
  <1>5. CASE /\ availableNonPrimary = {} /\ OpenConnections < maxPoolSize
             /\ OpenConnection(c, FALSE, configuration)
             /\ UNCHANGED <<availableNonPrimary, availablePrimary>>
    <2>1. Cardinality(availableNonPrimary') = 0
      BY <1>5, FS_EmptySet
    <2>2. Counted' <= maxPoolSize'
      BY <1>1, <1>2, <1>5, <2>1 DEF Counted, OpenConnections
    <2>3. availablePrimary' # None \/ PrimaryIsAcquired'
      BY <1>1, <1>5 DEF Holding, PrimaryIsAcquired, OpenConnection
    <2> QED
      BY <1>3, <2>2, <2>3 DEF Holding
  <1>6. CASE TryAcquirePrimary(c)
    <2>1. /\ c = availablePrimary /\ availablePrimary' = None
          /\ UNCHANGED <<connVars, availableNonPrimary>>
      BY <1>6 DEF TryAcquirePrimary, Holding
    <2>2. Counted' = Counted
      BY <1>1, <1>2, <2>1 DEF Counted, OpenConnections
    <2>3. PrimaryIsAcquired'
      BY <1>1, <2>1 DEF PrimaryIsAcquired, connVars, PoolInvariant, SinglePrimary
    <2> QED
      BY <1>3, <2>2, <2>3 DEF Holding
  <1> QED
    BY <1>4, <1>5, <1>6 DEF TryAcquireNonPrimary

\* A connection that comes back takes the place it left.
LEMMA ReleaseCounts ==
  ASSUME PrimaryStays, PoolInvariant, FiniteConns, Holding, isOpen, NEW t \in Thread, Release(t)
  PROVE  Holding'
  <1> USE PoolAssumption DEF poolVars, availVars
  <1>1. PICK c \in Conn :
          /\ GiveBack(t, c)
          /\ \/ /\ c \in primary /\ availablePrimary' = c
                /\ availableNonPrimary' = availableNonPrimary
             \/ /\ c \notin primary
                /\ UNCHANGED <<availablePrimary, availableNonPrimary>>
             \/ /\ c \notin primary
                /\ availableNonPrimary' = availableNonPrimary \cup {c}
                /\ availablePrimary' = availablePrimary
    <2>1. CASE ReleaseClosed(t)
      BY <2>1 DEF ReleaseClosed
    <2>2. CASE ReleaseExcess(t)
      BY <2>2 DEF ReleaseExcess
    <2>3. CASE ReleasePrimary(t) \/ ReleaseNonPrimary(t)
      <3>1. \A c \in Conn, recycled \in BOOLEAN : RecycleConnection(c, recycled) => recycled
        BY DEF RecycleConnection, Holding, PrimaryStays
      <3> QED
        BY <2>3, <3>1 DEF ReleasePrimary, ReleaseNonPrimary
    <2> QED
      BY <2>1, <2>2, <2>3 DEF Release
  <1>2. /\ c \in AcquiredConns /\ c \notin AvailableConns
        /\ AcquiredConns' = AcquiredConns \ {c}
        /\ acquired'[c] = "none" /\ \A d \in Conn \ {c} : acquired'[d] = acquired[d]
        /\ Cardinality(AcquiredConns') = Cardinality(AcquiredConns) - 1
        /\ UNCHANGED <<maxPoolSize, garbage, primary>>
    BY <1>1, GiveBackFacts, AcquiredShrinks DEF GiveBack
  <1>3. /\ Cardinality(AcquiredConns) \in Nat /\ Cardinality(availableNonPrimary) \in Nat
        /\ maxPoolSize \in Nat \ {0}
    BY CountFacts
  <1>4. AcquiredConns' \cap garbage' = {} /\ \A d \in Conn : acquired'[d] # "discard"
    BY <1>2 DEF Holding
  <1>5. CASE c \in primary /\ availablePrimary' = c /\ availableNonPrimary' = availableNonPrimary
    <2>1. availablePrimary = None
      <3> SUFFICES ASSUME availablePrimary # None PROVE FALSE
        OBVIOUS
      <3>1. availablePrimary \in primary \cap AvailableConns /\ availablePrimary \in Conn
        BY DEF AvailableConns, PoolInvariant, SinglePrimary, TypeOK
      <3>2. availablePrimary = c
        BY <1>2, <1>5, <3>1 DEF Holding, PoolInvariant, SinglePrimary
      <3> QED
        BY <1>2, <3>1, <3>2
    <2>2. Counted' = Counted
      BY <1>2, <1>3, <1>5, <2>1 DEF Counted, OpenConnections
    <2> QED
      BY <1>2, <1>4, <1>5, <2>2 DEF Holding
  <1>6. CASE c \notin primary /\ UNCHANGED <<availablePrimary, availableNonPrimary>>
    <2>1. Counted' <= Counted /\ Counted \in Nat /\ Counted' \in Int
      BY <1>2, <1>3, <1>6 DEF Counted, OpenConnections
    <2>2. PrimaryIsAcquired' <=> PrimaryIsAcquired
      BY <1>2, <1>6 DEF PrimaryIsAcquired
    <2> QED
      BY <1>2, <1>3, <1>4, <1>6, <2>1, <2>2 DEF Holding
  <1>7. CASE /\ c \notin primary /\ availablePrimary' = availablePrimary
             /\ availableNonPrimary' = availableNonPrimary \cup {c}
    <2>1. c \notin availableNonPrimary
      BY <1>2 DEF AvailableConns
    <2>2. Cardinality(availableNonPrimary') = Cardinality(availableNonPrimary) + 1
      BY <1>7, <2>1, FS_AddElement DEF FiniteConns
    <2>3. Counted' = Counted
      BY <1>2, <1>3, <1>7, <2>2 DEF Counted, OpenConnections
    <2>4. PrimaryIsAcquired' <=> PrimaryIsAcquired
      BY <1>2, <1>7 DEF PrimaryIsAcquired
    <2> QED
      BY <1>2, <1>4, <1>7, <2>3, <2>4 DEF Holding
  <1> QED
    BY <1>1, <1>5, <1>6, <1>7

\* A reconfiguration keeps the primary connection, or needs an idle pool to replace it.
LEMMA ReconfigureCounts ==
  ASSUME PrimaryStays, PoolInvariant, FiniteConns, Holding, NEW k \in Configs,
         <<configuration, k>> \in Switches, Reconfigure(k)
  PROVE  Holding'
  <1> USE PoolAssumption
  <1>0. /\ Cardinality(AcquiredConns) \in Nat /\ Cardinality(availableNonPrimary) \in Nat
        /\ maxPoolSize \in Nat \ {0}
        /\ maxPoolSize = MaxPoolSizeFor(configuration)
        /\ acquired \in [Conn -> {"none", "normal", "reconfigure", "discard"}]
    BY CountFacts DEF PoolInvariant, TypeOK
  <1>1. /\ k.wal = configuration.wal => k.openFlags = configuration.openFlags
        /\ "open" \in Faults => k.wal = configuration.wal
        /\ "reconfigure" \notin Faults
    BY DEF PrimaryStays
  <1>2. CASE ReconfigureInPlace(k)
    <2>1. /\ MarkAcquired("reconfigure") /\ SameOpenFlags(k)
          /\ UNCHANGED <<garbage, primary, availablePrimary>>
          /\ maxPoolSize' = MaxPoolSizeFor(k)
          /\ availableNonPrimary' \subseteq availableNonPrimary
      BY <1>1, <1>2 DEF ReconfigureInPlace, MayReconfigure
    <2>2. AcquiredConns' = AcquiredConns /\ \A d \in Conn : acquired'[d] # "discard"
      BY <1>0, <2>1, MarkAcquiredFacts DEF MarkAcquired, Holding
    <2>3. /\ Cardinality(availableNonPrimary') <= Cardinality(availableNonPrimary)
          /\ Cardinality(availableNonPrimary') \in Nat
      BY <2>1, FS_Subset, FS_CardinalityType DEF FiniteConns
    <2>4. maxPoolSize' = maxPoolSize
      BY <1>0, <2>1 DEF SameOpenFlags, MaxPoolSizeFor
    <2>5. Counted' <= Counted /\ Counted' \in Nat /\ Counted \in Nat
      BY <1>0, <2>1, <2>2, <2>3 DEF Counted, OpenConnections
    <2> QED
      BY <1>0, <2>1, <2>2, <2>4, <2>5 DEF Holding, PrimaryIsAcquired
  <1>3. CASE ReconfigureReopening(k)
    <2>1. k.wal # configuration.wal
      BY <1>1, <1>3 DEF ReconfigureReopening, SameOpenFlags
    <2>2. AcquiredConns = {}
      BY <1>3, <2>1 DEF ReconfigureReopening, MayReconfigure, NeedsIdlePool
    <2>3. /\ MarkAcquired("discard") /\ maxPoolSize' = MaxPoolSizeFor(k)
          /\ availableNonPrimary' = {} /\ availablePrimary' \in Conn
          /\ garbage' = garbage
      BY <1>3 DEF ReconfigureReopening, MayReconfigure
    <2>4. AcquiredConns' = {} /\ \A d \in Conn : acquired'[d] = "none"
      BY <1>0, <2>2, <2>3 DEF MarkAcquired, AcquiredConns
    <2>5. maxPoolSize' \in Nat \ {0}
      BY <2>3 DEF MaxPoolSizeFor
    <2>6. Cardinality(AcquiredConns') = 0 /\ Cardinality(availableNonPrimary') = 0
      BY <2>3, <2>4, FS_EmptySet
    <2>7. Counted' = 1
      BY <2>3, <2>6 DEF Counted, OpenConnections
    <2> QED
      BY <2>3, <2>4, <2>5, <2>7 DEF Holding
  <1>4. ~ReconfigureFails(k)
    BY <1>1 DEF ReconfigureFails
  <1> QED
    BY <1>2, <1>3, <1>4 DEF Reconfigure

\* Steps that leave the connections alone leave the count alone.
LEMMA CountFrame ==
  ASSUME Holding, UNCHANGED <<acquired, primary, availVars, maxPoolSize>>, garbage' \subseteq garbage
  PROVE  Holding'
  <1>1. UNCHANGED <<AcquiredConns, PrimaryIsAcquired, Counted, availablePrimary>>
    BY DEF AcquiredConns, PrimaryIsAcquired, Counted, OpenConnections, availVars
  <1> QED
    BY <1>1 DEF Holding

\* Every step keeps an open pool's connections counted.
LEMMA CountStep ==
  PrimaryStays /\ PoolInvariant /\ FiniteConns /\ (isOpen => Holding) /\ [Next]_vars
    => (isOpen => Holding)'
  <1> SUFFICES ASSUME PrimaryStays, PoolInvariant, FiniteConns, isOpen => Holding, [Next]_vars,
                      isOpen'
               PROVE  Holding'
    OBVIOUS
  <1> USE DEF poolVars, connVars
  <1>0. CASE UNCHANGED vars
    BY <1>0, CountFrame DEF vars
  <1>1. CASE Next
    <2>1. isOpen
      <3> SUFFICES ASSUME ~isOpen PROVE FALSE
        OBVIOUS
      <3> QED
        BY <1>1, ClosedStep DEF GivesNothing
    <2>2. Holding
      BY <2>1
    <2>3. CASE WakeStep
      <3>1. CASE WakeAssign
        BY <2>2, <3>1, AcquireCounts DEF WakeAssign, TryAcquire
      <3>2. CASE WakeClosed \/ WakeThrow \/ WakeSkip
        BY <2>2, <3>2, CountFrame DEF WakeClosed, WakeThrow, WakeSkip
      <3> QED
        BY <2>3, <3>1, <3>2 DEF WakeStep
    <2>4. ASSUME NEW t \in Thread, NEW r \in Requests, AcquireNow(t, r) \/ AcquireWaits(t, r)
          PROVE  Holding'
      BY <2>2, <2>4, AcquireCounts, CountFrame DEF AcquireNow, AcquireWaits, TryAcquire
    <2>5. ASSUME NEW t \in Thread, Proceed(t) \/ Cancel(t) \/ OnCancel(t) PROVE Holding'
      BY <2>1, <2>2, <2>5, CountFrame
         DEF Proceed, SetListener, SelfCancel, PollLeakFlag, RecoverFromLeak, Unpark, Check,
             CheckClosed, CheckDone, CheckAgain, ClearListener, Cancel, OnCancel, NotClosed
    <2>6. ASSUME NEW t \in Thread, Release(t) PROVE Holding'
      BY <2>1, <2>2, <2>6, ReleaseCounts
    <2>7. ASSUME NEW k \in Configs, <<configuration, k>> \in Switches, Reconfigure(k)
          PROVE  Holding'
      BY <2>2, <2>7, ReconfigureCounts
    <2>8. ASSUME NEW c \in Conn, ClearWeakEntry(c) \/ Finalize(c) PROVE Holding'
      <3>1. ~ClearWeakEntry(c)
        BY <2>2 DEF ClearWeakEntry, Holding, AcquiredConns
      <3> QED
        BY <2>2, <2>8, <3>1, CountFrame DEF Finalize
    <2>9. \A t \in Thread : ~Leak(t)
      BY DEF Leak, PrimaryStays
    <2>10. ~Close
      BY DEF Close
    <2> QED
      BY <1>1, <2>3, <2>4, <2>5, <2>6, <2>7, <2>8, <2>9, <2>10 DEF Next, ThreadStep
  <1> QED
    BY <1>0, <1>1

\* An open pool keeps within setMaxConnectionPoolSizeLocked's bound if nothing makes it
\* lose its primary connection or make a second one. The condition is about the
\* constants: without it the primary connection may be opened uncounted.
THEOREM PoolStaysWithinBound == PrimaryStays => (Spec => []PoolSizeBound)
  <1> SUFFICES ASSUME PrimaryStays PROVE Spec => []PoolSizeBound
    OBVIOUS
  <1>1. Init => (isOpen => Holding)
    <2> SUFFICES ASSUME Init PROVE Holding
      OBVIOUS
    <2> USE PoolAssumption DEF Init
    <2>1. AcquiredConns = {} /\ availableNonPrimary = {} /\ availablePrimary # None
      BY DEF AcquiredConns
    <2>2. Cardinality(AcquiredConns) = 0 /\ Cardinality(availableNonPrimary) = 0
      BY <2>1, FS_EmptySet
    <2>3. Counted = 1 /\ maxPoolSize \in Nat \ {0}
      BY <2>1, <2>2 DEF Counted, OpenConnections, MaxPoolSizeFor
    <2> QED
      BY <2>1, <2>3 DEF Holding
  <1>2. PoolInvariant /\ FiniteConns /\ (isOpen => Holding) => PoolSizeBound
    <2> SUFFICES ASSUME PoolInvariant, FiniteConns, Holding PROVE PooledConnections <= maxPoolSize
      BY DEF PoolSizeBound
    <2>1. PooledConnections \in Nat
      <3>1. IsFiniteSet(AcquiredConns \cup AvailableConns)
        BY FS_Union, FS_Singleton, FS_Subset, FS_EmptySet DEF FiniteConns, AvailableConns
      <3> QED
        BY <3>1, FS_CardinalityType DEF PooledConnections
    <2> QED
      BY <2>1, CountFacts DEF Holding
  <1>3. PoolInvariant /\ FiniteConns /\ (isOpen => Holding) /\ [Next]_vars => (isOpen => Holding)'
    BY CountStep
  <1> QED
    BY <1>1, <1>2, <1>3, PoolInvariantHolds, AlwaysFinite, PTL DEF Spec

-----------------------------------------------------------------------------
(* The pool keeps the lease contract.                                      *)

\* What the contract sees of a session that the step does not touch.
SameSession(t) ==
  LET w == ticket[t].waiter IN
  /\ hold'[t] = hold[t]
  /\ pc'[t] \in WaitingPcs <=> pc[t] \in WaitingPcs
  /\ pc[t] \in WaitingPcs =>
       /\ ticket'[t] = ticket[t]
       /\ waiter'[w].assigned = waiter[w].assigned
       /\ waiter'[w].wantPrimary <=> waiter[w].wantPrimary

SameView(t) ==
  /\ LeasePhase(t)' = LeasePhase(t)
  /\ LeaseOf(t)' = LeaseOf(t)
  /\ WaitsForPrimary(t)' <=> WaitsForPrimary(t)

\* A session that is not touched looks the same to the contract.
LEMMA SessionView ==
  ASSUME NEW t \in Thread, SameSession(t)
  PROVE  SameView(t)
  <1>1. AssignedTo(t)' = AssignedTo(t)
    BY DEF SameSession, AssignedTo
  <1>2. LeasePhase(t)' = LeasePhase(t) /\ LeaseOf(t)' = LeaseOf(t)
    BY <1>1 DEF SameSession, LeasePhase, LeaseOf
  <1>3. LeasePhase(t) = "waiting" => pc[t] \in WaitingPcs
    BY DEF LeasePhase
  <1>4. WaitsForPrimary(t)' <=> WaitsForPrimary(t)
    BY <1>2, <1>3 DEF SameSession, WaitsForPrimary
  <1> QED
    BY <1>2, <1>4 DEF SameView

\* The phases and leases of a session.
LEMMA PhaseFacts ==
  ASSUME NEW t \in Thread
  PROVE  /\ hold[t] # None => LeasePhase(t) = "holding" /\ LeaseOf(t) = hold[t]
         /\ hold[t] = None /\ pc[t] \notin WaitingPcs =>
              LeasePhase(t) = "idle" /\ LeaseOf(t) = None
         /\ hold[t] = None /\ pc[t] \in WaitingPcs =>
              /\ LeaseOf(t) = waiter[ticket[t].waiter].assigned
              /\ LeasePhase(t) = IF LeaseOf(t) # None THEN "granted" ELSE "waiting"
         /\ WaitsForPrimary(t) <=> /\ hold[t] = None /\ pc[t] \in WaitingPcs
                                   /\ LeaseOf(t) = None
                                   /\ waiter[ticket[t].waiter].wantPrimary
  <1>1. hold[t] # None => LeasePhase(t) = "holding" /\ LeaseOf(t) = hold[t]
    BY DEF LeasePhase, LeaseOf
  <1>2. hold[t] = None /\ pc[t] \notin WaitingPcs => LeasePhase(t) = "idle" /\ LeaseOf(t) = None
    BY DEF LeasePhase, LeaseOf, AssignedTo
  <1>3. hold[t] = None /\ pc[t] \in WaitingPcs =>
          /\ LeaseOf(t) = waiter[ticket[t].waiter].assigned
          /\ LeasePhase(t) = IF LeaseOf(t) # None THEN "granted" ELSE "waiting"
    BY DEF LeasePhase, LeaseOf, AssignedTo
  <1>4. WaitsForPrimary(t) <=> /\ hold[t] = None /\ pc[t] \in WaitingPcs
                               /\ LeaseOf(t) = None
                               /\ waiter[ticket[t].waiter].wantPrimary
    BY <1>1, <1>2, <1>3 DEF WaitsForPrimary
  <1> QED
    BY <1>1, <1>2, <1>3, <1>4

\* The same of every session, in a form that can be primed.
LEMMA PhaseFactsAlways ==
  \A t \in Thread :
    /\ hold[t] # None => LeasePhase(t) = "holding" /\ LeaseOf(t) = hold[t]
    /\ hold[t] = None /\ pc[t] \notin WaitingPcs =>
         LeasePhase(t) = "idle" /\ LeaseOf(t) = None
    /\ hold[t] = None /\ pc[t] \in WaitingPcs =>
         /\ LeaseOf(t) = waiter[ticket[t].waiter].assigned
         /\ LeasePhase(t) = IF LeaseOf(t) # None THEN "granted" ELSE "waiting"
    /\ WaitsForPrimary(t) <=> /\ hold[t] = None /\ pc[t] \in WaitingPcs
                              /\ LeaseOf(t) = None
                              /\ waiter[ticket[t].waiter].wantPrimary
  BY PhaseFacts

\* The same of the state after a step.
LEMMA PhaseFactsNext ==
  \A t \in Thread :
    /\ hold'[t] # None => LeasePhase(t)' = "holding" /\ LeaseOf(t)' = hold'[t]
    /\ hold'[t] = None /\ pc'[t] \notin WaitingPcs =>
         LeasePhase(t)' = "idle" /\ LeaseOf(t)' = None
    /\ hold'[t] = None /\ pc'[t] \in WaitingPcs =>
         /\ LeaseOf(t)' = waiter'[ticket'[t].waiter].assigned
         /\ LeasePhase(t)' = IF LeaseOf(t)' # None THEN "granted" ELSE "waiting"
    /\ WaitsForPrimary(t)' <=> /\ hold'[t] = None /\ pc'[t] \in WaitingPcs
                               /\ LeaseOf(t)' = None
                               /\ waiter'[ticket'[t].waiter].wantPrimary
  <1>1. (\A t \in Thread :
           /\ hold[t] # None => LeasePhase(t) = "holding" /\ LeaseOf(t) = hold[t]
           /\ hold[t] = None /\ pc[t] \notin WaitingPcs =>
                LeasePhase(t) = "idle" /\ LeaseOf(t) = None
           /\ hold[t] = None /\ pc[t] \in WaitingPcs =>
                /\ LeaseOf(t) = waiter[ticket[t].waiter].assigned
                /\ LeasePhase(t) = IF LeaseOf(t) # None THEN "granted" ELSE "waiting"
           /\ WaitsForPrimary(t) <=> /\ hold[t] = None /\ pc[t] \in WaitingPcs
                                     /\ LeaseOf(t) = None
                                     /\ waiter[ticket[t].waiter].wantPrimary)'
    BY PhaseFactsAlways, PTL
  <1> QED
    BY <1>1 DEF WaitingPcs

\* Leases are of open connections, and no two sessions have the same one.
LEMMA LeaseFacts ==
  ASSUME PoolInvariant
  PROVE  /\ \A t \in Thread : LeaseOf(t) \in Conn \cup {None}
         /\ \A t \in Thread : LeaseOf(t) # None => LeaseOf(t) \in Possession(t) /\ LeaseOf(t) \in live
         /\ \A t, u \in Thread : t # u /\ LeaseOf(t) # None => LeaseOf(t) # LeaseOf(u)
  <1>1. \A t \in Thread : LeaseOf(t) # None => LeaseOf(t) \in Possession(t)
    BY DEF LeaseOf, Possession
  <1>2. \A t \in Thread : LeaseOf(t) \in Conn \cup {None}
    BY DEF LeaseOf, AssignedTo, PoolInvariant, TypeOK, WaitersInUse, ConnectionWaiter
  <1>3. \A t \in Thread : LeaseOf(t) # None => LeaseOf(t) \in live
    BY <1>1, <1>2 DEF PoolInvariant, ExclusiveOwnership
  <1>4. \A t, u \in Thread : t # u /\ LeaseOf(t) # None => LeaseOf(t) # LeaseOf(u)
    BY <1>1 DEF PoolInvariant, ExclusiveOwnership
  <1> QED
    BY <1>1, <1>2, <1>3, <1>4

\* A connection is primary from when it is opened to when it is closed.
PrimaryOfLive == \A c \in live : c \in primary' <=> c \in primary

\* No step changes of what kind an open connection is.
LEMMA PrimaryIsForLife ==
  ASSUME PoolInvariant, Next
  PROVE  PrimaryOfLive
  <1> USE DEF connVars, PrimaryOfLive
  <1>0. \A c \in Conn : TryAcquireNonPrimary(c) \/ TryAcquirePrimary(c) => PrimaryOfLive
    BY DEF TryAcquireNonPrimary, TryAcquirePrimary, OpenConnection
  <1>1. CASE WakeStep
    BY <1>0, <1>1 DEF WakeStep, WakeClosed, WakeAssign, WakeThrow, WakeSkip, TryAcquire
  <1>2. ASSUME NEW t \in Thread, NEW r \in Requests, AcquireNow(t, r) \/ AcquireWaits(t, r)
        PROVE  PrimaryOfLive
    BY <1>0, <1>2 DEF AcquireNow, AcquireWaits, TryAcquire
  <1>3. ASSUME NEW t \in Thread, Proceed(t) \/ Cancel(t) \/ OnCancel(t) \/ Release(t) \/ Leak(t)
        PROVE  PrimaryOfLive
    BY <1>3 DEF Proceed, SetListener, SelfCancel, PollLeakFlag, RecoverFromLeak, Unpark, Check,
       CheckClosed, CheckDone, CheckAgain, ClearListener, Cancel, OnCancel, Release, ReleaseClosed,
       ReleasePrimary, ReleaseExcess, ReleaseNonPrimary, GiveBack, Leak
  <1>4. ASSUME Close \/ \E k \in Configs : Reconfigure(k) PROVE PrimaryOfLive
    BY <1>4 DEF Close, Reconfigure, ReconfigureInPlace, ReconfigureReopening, ReconfigureFails
  <1>5. ASSUME NEW c \in Conn, ClearWeakEntry(c) \/ Finalize(c) PROVE PrimaryOfLive
    BY <1>5 DEF ClearWeakEntry, Finalize
  <1> QED
    BY <1>1, <1>2, <1>3, <1>4, <1>5 DEF Next, ThreadStep

\* What the contract sees when only thread t's view changes, in the form its
\* actions have.
LEMMA OneMoves ==
  ASSUME PoolInvariant, PoolInvariant', PrimaryOfLive, NEW t \in Thread,
         \A u \in Thread \ {t} : SameView(u)
  PROVE  /\ Phases[t] = LeasePhase(t) /\ Phases' = [Phases EXCEPT ![t] = LeasePhase(t)']
         /\ Leases[t] = LeaseOf(t) /\ Leases' = [Leases EXCEPT ![t] = LeaseOf(t)']
         /\ t \in PrimaryAwaited <=> WaitsForPrimary(t)
         /\ PrimaryAwaited' = IF WaitsForPrimary(t)' THEN PrimaryAwaited \cup {t}
                                                     ELSE PrimaryAwaited \ {t}
         /\ LeaseOf(t)' = LeaseOf(t) => PrimaryLeased' = PrimaryLeased
         /\ LeaseOf(t) = None => \A c \in Conn : LeaseOf(t)' = c =>
              PrimaryLeased' = IF c \in primary' THEN PrimaryLeased \cup {c} ELSE PrimaryLeased
         /\ LeaseOf(t)' = None => PrimaryLeased' = PrimaryLeased \ {LeaseOf(t)}
  <1>1. /\ Phases[t] = LeasePhase(t) /\ Phases' = [Phases EXCEPT ![t] = LeasePhase(t)']
        /\ Leases[t] = LeaseOf(t) /\ Leases' = [Leases EXCEPT ![t] = LeaseOf(t)']
    BY DEF Phases, Leases, SameView
  <1>2. /\ t \in PrimaryAwaited <=> WaitsForPrimary(t)
        /\ PrimaryAwaited' = IF WaitsForPrimary(t)' THEN PrimaryAwaited \cup {t}
                                                    ELSE PrimaryAwaited \ {t}
    BY DEF PrimaryAwaited, SameView
  <1>3. /\ \A u \in Thread : LeaseOf(u) # None => (LeaseOf(u) \in primary' <=> LeaseOf(u) \in primary)
        /\ \A u \in Thread \ {t} : LeaseOf(u)' = LeaseOf(u)
        /\ \A u \in Thread \ {t} : LeaseOf(t) # None => LeaseOf(u) # LeaseOf(t)
    BY LeaseFacts DEF PrimaryOfLive, SameView
  <1>4. None \notin primary /\ None \notin primary' /\ \A c \in Conn : c # None
    <2>1. \A c \in Conn : c # None
      BY PoolAssumption
    <2> QED
      BY <2>1 DEF PoolInvariant, TypeOK
  <1>5. LeaseOf(t)' = LeaseOf(t) => PrimaryLeased' = PrimaryLeased
    BY <1>3, <1>4 DEF PrimaryLeased
  <1>6. ASSUME LeaseOf(t) = None, NEW c \in Conn, LeaseOf(t)' = c
        PROVE  PrimaryLeased' = IF c \in primary' THEN PrimaryLeased \cup {c} ELSE PrimaryLeased
    BY <1>3, <1>4, <1>6 DEF PrimaryLeased
  <1>7. LeaseOf(t)' = None => PrimaryLeased' = PrimaryLeased \ {LeaseOf(t)}
    BY <1>3, <1>4 DEF PrimaryLeased
  <1> QED
    BY <1>1, <1>2, <1>5, <1>6, <1>7

\* A step that no session's view shows is none of the contract's.
LEMMA NobodyMoves ==
  ASSUME PoolInvariant, PoolInvariant', PrimaryOfLive, isOpen' = isOpen,
         \A u \in Thread : SameView(u)
  PROVE  UNCHANGED Contract!vars
  <1>1. UNCHANGED <<Phases, Leases, PrimaryAwaited>>
    BY DEF Phases, Leases, PrimaryAwaited, SameView
  <1>2. /\ \A u \in Thread : LeaseOf(u) # None => (LeaseOf(u) \in primary' <=> LeaseOf(u) \in primary)
        /\ \A u \in Thread : LeaseOf(u)' = LeaseOf(u)
        /\ None \notin primary /\ None \notin primary'
    BY LeaseFacts, PoolAssumption DEF PrimaryOfLive, SameView, PoolInvariant, TypeOK
  <1>3. PrimaryLeased' = PrimaryLeased
    BY <1>2 DEF PrimaryLeased
  <1> QED
    BY <1>1, <1>3 DEF Contract!vars

\* What of the waiter objects the contract sees stays as it is.
WaiterSeen(w) ==
  /\ waiter'[w].assigned = waiter[w].assigned
  /\ waiter'[w].wantPrimary <=> waiter[w].wantPrimary

\* A session the step leaves alone looks the same: its waiter object is its own.
LEMMA OthersStay ==
  ASSUME PoolInvariant, NEW t \in Thread,
         \A u \in Thread \ {t} : hold'[u] = hold[u] /\ pc'[u] = pc[u] /\ ticket'[u] = ticket[u],
         \A w \in Waiter : waiter[w].thread \in Thread \ {t} => WaiterSeen(w)
  PROVE  \A u \in Thread \ {t} : SameView(u)
  <1> SUFFICES ASSUME NEW u \in Thread \ {t} PROVE SameSession(u)
    BY SessionView
  <1>1. pc[u] \in WaitingPcs => /\ ticket[u].waiter \in Waiter
                                /\ waiter[ticket[u].waiter].thread = u
    BY DEF PoolInvariant, WaitersInUse
  <1>2. pc'[u] \in WaitingPcs <=> pc[u] \in WaitingPcs
    OBVIOUS
  <1> QED
    BY <1>1, <1>2 DEF SameSession, WaiterSeen

\* A step of which no session's view shows anything.
LEMMA StaysQuiet ==
  ASSUME PoolInvariant, PoolInvariant', PrimaryOfLive, isOpen' = isOpen, hold' = hold,
         \A u \in Thread : /\ pc'[u] \in WaitingPcs <=> pc[u] \in WaitingPcs
                           /\ pc[u] \in WaitingPcs => ticket'[u] = ticket[u],
         \A w \in Waiter : WaiterSeen(w)
  PROVE  UNCHANGED Contract!vars
  <1>1. \A u \in Thread : pc[u] \in WaitingPcs => ticket[u].waiter \in Waiter
    BY DEF PoolInvariant, WaitersInUse
  <1>2. \A u \in Thread : SameSession(u)
    BY <1>1 DEF SameSession, WaiterSeen
  <1> QED
    BY <1>2, SessionView, NobodyMoves

\* What the pool hands out is leased to nobody yet, and is primary if the
\* primary connection was tried for.
LEMMA TakesUnleased ==
  ASSUME PoolInvariant, NEW c \in Conn, TryAcquireNonPrimary(c) \/ TryAcquirePrimary(c)
  PROVE  /\ c \notin Contract!Leased
         /\ c # None
         /\ TryAcquirePrimary(c) => c \in primary'
  <1>1. \A u \in Thread : LeaseOf(u) # c
    BY TryAcquireFacts, LeaseFacts, PoolAssumption
  <1>2. c \notin Contract!Leased
    BY <1>1 DEF Contract!Leased, Leases
  <1>3. TryAcquirePrimary(c) => c \in primary'
    BY PoolAssumption
       DEF TryAcquirePrimary, OpenConnection, connVars, PoolInvariant, SinglePrimary
  <1> QED
    BY <1>2, <1>3, PoolAssumption

\* A connection got at once is a lease granted at once.
LEMMA AcquireNowRefines ==
  ASSUME PoolInvariant, PoolInvariant', PrimaryOfLive,
         NEW t \in Thread, NEW r \in Requests, AcquireNow(t, r)
  PROVE  \E c \in Conn, p \in BOOLEAN : Contract!GrantAtOnce(t, c, p)
  <1> USE DEF poolVars, waitVars, cancelVars
  <1>1. PICK c \in Conn : /\ TryAcquire(~r.wantPrimary, TRUE, c)
                          /\ hold' = [hold EXCEPT ![t] = c]
    BY DEF AcquireNow
  <1>2. c # None /\ c \notin Contract!Leased
    BY <1>1, TakesUnleased DEF TryAcquire
  <1>3. /\ isOpen /\ isOpen' = isOpen /\ hold[t] = None /\ pc[t] = "idle"
        /\ pc' = pc /\ ticket' = ticket /\ waiter' = waiter
    BY DEF AcquireNow, NotClosed
  <1>4. hold'[t] = c /\ \A u \in Thread \ {t} : hold'[u] = hold[u]
    BY <1>1 DEF PoolInvariant, TypeOK
  <1>5. \A u \in Thread \ {t} : SameView(u)
    BY <1>3, <1>4, OthersStay DEF WaiterSeen
  <1>6. /\ LeasePhase(t) = "idle" /\ LeaseOf(t) = None /\ ~WaitsForPrimary(t)
        /\ LeasePhase(t)' = "holding" /\ LeaseOf(t)' = c /\ ~WaitsForPrimary(t)'
    BY <1>2, <1>3, <1>4, PhaseFactsAlways, PhaseFactsNext DEF WaitingPcs
  <1>7. /\ Phases[t] = "idle" /\ Phases' = [Phases EXCEPT ![t] = "holding"]
        /\ Leases' = [Leases EXCEPT ![t] = c]
        /\ PrimaryAwaited' = PrimaryAwaited
        /\ PrimaryLeased' = IF c \in primary' THEN PrimaryLeased \cup {c} ELSE PrimaryLeased
    BY <1>5, <1>6, OneMoves
  <1>8. \E p \in BOOLEAN : p <=> c \in primary'
    OBVIOUS
  <1>9. ASSUME NEW p \in BOOLEAN, p <=> c \in primary'
        PROVE  Contract!GrantAtOnce(t, c, p)
    BY <1>2, <1>3, <1>7, <1>9 DEF Contract!GrantAtOnce, Contract!Give
  <1> QED
    BY <1>8, <1>9

\* A waiter put in the queue asks for a lease.
LEMMA AcquireWaitsRefines ==
  ASSUME PoolInvariant, PoolInvariant', PrimaryOfLive,
         NEW t \in Thread, NEW r \in Requests, AcquireWaits(t, r)
  PROVE  \E p \in BOOLEAN : Contract!Ask(t, p)
  <1> USE PoolAssumption DEF poolVars
  <1>1. PICK w \in ObtainableWaiters :
          /\ waiter' = [waiter EXCEPT ![w] = Obtained(w, t, r)]
          /\ ticket' = [ticket EXCEPT ![t] = [waiter |-> w, nonce |-> waiter[w].nonce]]
    BY DEF AcquireWaits
  <1>2. /\ isOpen /\ isOpen' = isOpen /\ hold' = hold /\ hold[t] = None /\ pc[t] = "idle"
        /\ pc' = [pc EXCEPT ![t] = IF r.cancellable THEN "listen" ELSE "top"]
    BY DEF AcquireWaits, NotClosed
  <1>3. w \in Waiter /\ waiter[w].thread = None /\ waiter[w].assigned = None
    BY DEF ObtainableWaiters, RecycledWaiters, NewWaiters, PoolInvariant, WaitersInUse
  <1>4. /\ waiter'[w].assigned = None /\ (waiter'[w].wantPrimary <=> r.wantPrimary)
        /\ \A v \in Waiter \ {w} : waiter'[v] = waiter[v]
    <2>1. waiter[w] \in ConnectionWaiter /\ waiter'[w] = Obtained(w, t, r)
      BY <1>1, <1>3 DEF PoolInvariant, TypeOK
    <2>2. Obtained(w, t, r).wantPrimary <=> r.wantPrimary
      BY <2>1 DEF Obtained, ConnectionWaiter
    <2> QED
      BY <1>1, <1>3, <2>1, <2>2, ObtainedFields DEF PoolInvariant, TypeOK
  <1>5. /\ pc'[t] \in WaitingPcs /\ ticket'[t].waiter = w
        /\ \A u \in Thread \ {t} : pc'[u] = pc[u] /\ ticket'[u] = ticket[u]
    BY <1>1, <1>2 DEF PoolInvariant, TypeOK, WaitingPcs
  <1>6. \A u \in Thread \ {t} : SameView(u)
    BY <1>2, <1>3, <1>4, <1>5, OthersStay DEF WaiterSeen
  <1>7. LeasePhase(t) = "idle" /\ LeaseOf(t) = None /\ ~WaitsForPrimary(t)
    BY <1>2, PhaseFactsAlways DEF WaitingPcs
  <1>8. /\ LeaseOf(t)' = None /\ LeasePhase(t)' = "waiting"
        /\ WaitsForPrimary(t)' <=> r.wantPrimary
    BY <1>2, <1>4, <1>5, PhaseFactsNext
  <1>9. /\ Phases[t] = "idle" /\ Phases' = [Phases EXCEPT ![t] = "waiting"]
        /\ Leases' = [Leases EXCEPT ![t] = None] /\ Leases[t] = None
        /\ t \notin PrimaryAwaited
        /\ PrimaryAwaited' = IF r.wantPrimary THEN PrimaryAwaited \cup {t}
                                              ELSE PrimaryAwaited \ {t}
        /\ PrimaryLeased' = PrimaryLeased
    BY <1>6, <1>7, <1>8, OneMoves
  <1>10. Leases' = Leases
    BY <1>9 DEF Leases
  <1>11. r.wantPrimary \in BOOLEAN
    BY PoolAssumption
  <1>12. Contract!Ask(t, r.wantPrimary)
    BY <1>2, <1>9, <1>10 DEF Contract!Ask
  <1> QED
    BY <1>11, <1>12

\* A connection assigned to a waiter is a lease granted to its thread.
LEMMA WakeAssignRefines ==
  ASSUME PoolInvariant, PoolInvariant', PrimaryOfLive, WakeAssign
  PROVE  \E t \in Thread : \E c \in Conn, p \in BOOLEAN : Contract!Grant(t, c, p)
  <1> USE DEF poolVars, threadVars
  <1> DEFINE w == CurrentWaiter
  <1>1. PICK c \in Conn : /\ TryAcquire(WakeTriesNonPrimary, WakeTriesPrimary, c)
                          /\ waiter' = [waiter EXCEPT ![w].assigned = c]
    BY DEF WakeAssign
  <1>2. w \in Range(waiterQueue)
    BY CurrentWaiterFacts DEF WakeAssign
  <1>3. c # None /\ c \notin Contract!Leased /\ (waiter[w].wantPrimary => c \in primary')
    BY <1>1, TakesUnleased DEF TryAcquire, WakeTriesNonPrimary
  <1>4. /\ isOpen /\ isOpen' = isOpen /\ pc' = pc /\ hold' = hold /\ ticket' = ticket
    BY DEF WakeAssign
  <1> HIDE DEF w
  <1>5. PICK t \in Thread : /\ t = waiter[w].thread /\ w \in Waiter
                            /\ waiter[w] \in ConnectionWaiter /\ waiter[w].assigned = None
                            /\ pc[t] \in WaitingPcs /\ ticket[t].waiter = w
    BY <1>2, QueuedWaiter
  <1>6. hold[t] = None
    BY <1>5 DEF PoolInvariant, WaitersInUse
  <1>7. waiter'[w].assigned = c /\ \A v \in Waiter \ {w} : waiter'[v] = waiter[v]
    <2> DEFINE s == [waiter[w] EXCEPT !.assigned = c]
    <2>1. s.assigned = c
      BY <1>5, AssignedField
    <2>2. waiter' = [waiter EXCEPT ![w] = s]
      BY <1>1
    <2> HIDE DEF s
    <2> QED
      BY <1>5, <2>1, <2>2 DEF PoolInvariant, TypeOK
  <1>8. \A u \in Thread \ {t} : SameView(u)
    BY <1>4, <1>5, <1>7, OthersStay DEF WaiterSeen
  <1>9. /\ LeasePhase(t) = "waiting" /\ LeaseOf(t) = None
        /\ WaitsForPrimary(t) <=> waiter[w].wantPrimary
    BY <1>5, <1>6, PhaseFactsAlways
  <1>10. LeasePhase(t)' = "granted" /\ LeaseOf(t)' = c /\ ~WaitsForPrimary(t)'
    BY <1>3, <1>4, <1>5, <1>6, <1>7, PhaseFactsNext
  <1>11. /\ Phases[t] = "waiting" /\ Phases' = [Phases EXCEPT ![t] = "granted"]
         /\ Leases' = [Leases EXCEPT ![t] = c]
         /\ t \in PrimaryAwaited => c \in primary'
         /\ PrimaryAwaited' = PrimaryAwaited \ {t}
         /\ PrimaryLeased' = IF c \in primary' THEN PrimaryLeased \cup {c} ELSE PrimaryLeased
    BY <1>3, <1>8, <1>9, <1>10, OneMoves
  <1>12. \E p \in BOOLEAN : p <=> c \in primary'
    OBVIOUS
  <1>13. ASSUME NEW p \in BOOLEAN, p <=> c \in primary'
         PROVE  Contract!Grant(t, c, p)
    BY <1>3, <1>4, <1>11, <1>13 DEF Contract!Grant, Contract!Give
  <1> QED
    BY <1>12, <1>13

\* A wait that ends with an exception is refused, or its lease is void.
LEMMA WaitEnds ==
  ASSUME PoolInvariant, PoolInvariant', PrimaryOfLive, isOpen' = isOpen,
         NEW t \in Thread, pc[t] \in WaitingPcs, pc'[t] \notin WaitingPcs, hold'[t] = None,
         \A u \in Thread \ {t} : hold'[u] = hold[u] /\ pc'[u] = pc[u] /\ ticket'[u] = ticket[u],
         \A w \in Waiter : waiter[w].thread \in Thread \ {t} => WaiterSeen(w)
  PROVE  /\ LeaseOf(t) = None => Contract!Refuse(t)
         /\ LeaseOf(t) # None /\ ~isOpen => Contract!Void(t)
  <1>1. hold[t] = None
    BY DEF PoolInvariant, WaitersInUse
  <1>2. /\ LeasePhase(t) = IF LeaseOf(t) # None THEN "granted" ELSE "waiting"
        /\ WaitsForPrimary(t) => LeaseOf(t) = None
        /\ LeasePhase(t)' = "idle" /\ LeaseOf(t)' = None /\ ~WaitsForPrimary(t)'
    BY <1>1, PhaseFactsAlways, PhaseFactsNext
  <1>3. /\ Phases[t] = LeasePhase(t) /\ Phases' = [Phases EXCEPT ![t] = "idle"]
        /\ Leases[t] = LeaseOf(t) /\ Leases' = [Leases EXCEPT ![t] = None]
        /\ t \in PrimaryAwaited => LeaseOf(t) = None
        /\ PrimaryAwaited' = PrimaryAwaited \ {t}
        /\ PrimaryLeased' = PrimaryLeased \ {LeaseOf(t)}
        /\ LeaseOf(t) = None => PrimaryLeased' = PrimaryLeased
    BY <1>2, OthersStay, OneMoves
  <1>4. ASSUME LeaseOf(t) = None PROVE Contract!Refuse(t)
    <2>1. Leases' = Leases
      BY <1>3, <1>4 DEF Leases
    <2> QED
      BY <1>2, <1>3, <1>4, <2>1 DEF Contract!Refuse
  <1>5. ASSUME LeaseOf(t) # None, ~isOpen PROVE Contract!Void(t)
    <2>1. PrimaryAwaited' = PrimaryAwaited
      BY <1>3, <1>5
    <2> QED
      BY <1>2, <1>3, <1>5, <2>1 DEF Contract!Void, Contract!TakeBack
  <1> QED
    BY <1>4, <1>5

\* A wait that is over because the pool is closed.
LEMMA CheckClosedRefines ==
  ASSUME PoolInvariant, PoolInvariant', PrimaryOfLive, NEW t \in Thread, CheckClosed(t)
  PROVE  Contract!Refuse(t) \/ Contract!Void(t)
  <1> USE DEF poolVars, waitVars, cancelVars
  <1>1. /\ ~isOpen /\ isOpen' = isOpen /\ hold' = hold /\ waiter' = waiter
        /\ pc[t] = "awake" /\ LeaveLoop(t) /\ UNCHANGED <<signal, listener>>
    BY DEF CheckClosed, NotClosed
  <1>2. /\ pc[t] \in WaitingPcs /\ pc'[t] \notin WaitingPcs
        /\ \A u \in Thread \ {t} : pc'[u] = pc[u] /\ ticket'[u] = ticket[u]
    BY <1>1, LeaveLoopFacts
  <1>3. hold'[t] = None
    BY <1>1, <1>2 DEF PoolInvariant, WaitersInUse
  <1> QED
    BY <1>1, <1>2, <1>3, WaitEnds DEF WaiterSeen

\* A wait that is over because it was answered.
LEMMA CheckDoneRefines ==
  ASSUME PoolInvariant, PoolInvariant', PrimaryOfLive, NEW t \in Thread, CheckDone(t)
  PROVE  Contract!PickUp(t) \/ Contract!Refuse(t)
  <1> USE DEF poolVars, cancelVars
  <1> DEFINE w == ticket[t].waiter
             c == waiter[w].assigned
  <1>1. /\ isOpen /\ isOpen' = isOpen
        /\ hold' = [hold EXCEPT ![t] = c] /\ waiter' = [waiter EXCEPT ![w] = Recycled(w)]
        /\ pc[t] = "awake" /\ LeaveLoop(t) /\ UNCHANGED <<signal, listener>>
    BY DEF CheckDone, NotClosed
  <1>2. /\ pc[t] \in WaitingPcs /\ pc'[t] \notin WaitingPcs
        /\ \A u \in Thread \ {t} : pc'[u] = pc[u] /\ ticket'[u] = ticket[u]
    BY <1>1, LeaveLoopFacts
  <1>3. w \in Waiter /\ waiter[w].thread = t /\ hold[t] = None
    BY <1>2 DEF PoolInvariant, WaitersInUse
  <1>4. c \in Conn \cup {None}
    BY <1>3 DEF PoolInvariant, TypeOK, ConnectionWaiter
  <1> HIDE DEF c, w
  <1>5. hold'[t] = c /\ \A u \in Thread \ {t} : hold'[u] = hold[u]
    BY <1>1 DEF PoolInvariant, TypeOK
  <1>6. \A v \in Waiter : waiter[v].thread \in Thread \ {t} => WaiterSeen(v)
    BY <1>1, <1>3 DEF WaiterSeen, PoolInvariant, TypeOK
  <1>7. LeaseOf(t) = c
    BY <1>2, <1>3, PhaseFactsAlways DEF c, w
  <1>8. CASE c = None
    BY <1>1, <1>2, <1>5, <1>6, <1>7, <1>8, WaitEnds
  <1>9. CASE c # None
    <2>1. LeasePhase(t) = "granted" /\ ~WaitsForPrimary(t)
      BY <1>2, <1>3, <1>7, <1>9, PhaseFactsAlways
    <2>2. LeasePhase(t)' = "holding" /\ LeaseOf(t)' = c /\ ~WaitsForPrimary(t)'
      BY <1>5, <1>9, PhaseFactsNext
    <2>3. /\ Phases[t] = "granted" /\ Phases' = [Phases EXCEPT ![t] = "holding"]
          /\ Leases[t] = c /\ Leases' = [Leases EXCEPT ![t] = c]
          /\ t \notin PrimaryAwaited /\ PrimaryAwaited' = PrimaryAwaited \ {t}
          /\ PrimaryLeased' = PrimaryLeased
      BY <1>2, <1>5, <1>6, <1>7, <2>1, <2>2, OthersStay, OneMoves
    <2>4. Leases' = Leases
      BY <2>3 DEF Leases
    <2> QED
      BY <1>1, <2>3, <2>4 DEF Contract!PickUp
  <1> QED
    BY <1>8, <1>9

\* A session that lets its connection go, to the pool or to the garbage
\* collector, returns its lease.
LEMMA ReturnRefines ==
  ASSUME PoolInvariant, PoolInvariant', PrimaryOfLive, isOpen' = isOpen,
         NEW t \in Thread, pc[t] = "idle", hold[t] # None,
         hold' = [hold EXCEPT ![t] = None], UNCHANGED <<waiter, pc, ticket>>
  PROVE  Contract!Return(t)
  <1>1. hold'[t] = None /\ \A u \in Thread \ {t} : hold'[u] = hold[u]
    BY DEF PoolInvariant, TypeOK
  <1>2. \A u \in Thread \ {t} : SameView(u)
    BY <1>1, OthersStay DEF WaiterSeen
  <1>3. /\ LeasePhase(t) = "holding" /\ LeaseOf(t) = hold[t] /\ ~WaitsForPrimary(t)
        /\ LeasePhase(t)' = "idle" /\ LeaseOf(t)' = None /\ ~WaitsForPrimary(t)'
    BY <1>1, PhaseFactsAlways, PhaseFactsNext DEF WaitingPcs
  <1>4. /\ Phases[t] = "holding" /\ Phases' = [Phases EXCEPT ![t] = "idle"]
        /\ Leases[t] = LeaseOf(t) /\ Leases' = [Leases EXCEPT ![t] = None]
        /\ PrimaryAwaited' = PrimaryAwaited
        /\ PrimaryLeased' = PrimaryLeased \ {LeaseOf(t)}
    BY <1>2, <1>3, OneMoves, SMTT(30)
  <1> QED
    BY <1>4 DEF Contract!Return, Contract!TakeBack

\* Closing the pool touches no lease.
LEMMA CloseRefines ==
  ASSUME PoolInvariant, PoolInvariant', PrimaryOfLive, Close
  PROVE  Contract!Close
  <1> USE DEF waitVars, threadVars
  <1>1. isOpen /\ isOpen' = FALSE /\ UNCHANGED <<waiter, pc, hold, ticket, primary>>
    BY DEF Close, NotClosed
  <1>2. \A u \in Thread : SameSession(u)
    BY <1>1 DEF SameSession
  <1>3. \A u \in Thread : SameView(u)
    BY <1>2, SessionView
  <1>4. UNCHANGED <<Phases, Leases, PrimaryAwaited, PrimaryLeased>>
    BY <1>1, <1>3 DEF Phases, Leases, PrimaryAwaited, PrimaryLeased, SameView
  <1> QED
    BY <1>1, <1>4 DEF Contract!Close

\* A waiter answered with an exception is the same waiter to the contract.
LEMMA ExceptionUnseen ==
  ASSUME PoolInvariant, NEW w \in Range(waiterQueue), NEW x \in {"failed", "canceled"},
         waiter' = [waiter EXCEPT ![w].exception = x]
  PROVE  \A v \in Waiter : WaiterSeen(v)
  <1>1. w \in Waiter /\ waiter[w] \in ConnectionWaiter /\ waiter \in [Waiter -> ConnectionWaiter]
    BY QueuedWaiter DEF PoolInvariant, TypeOK
  <1>2. [waiter[w] EXCEPT !.exception = x].wantPrimary <=> waiter[w].wantPrimary
    BY <1>1 DEF ConnectionWaiter
  <1>3. waiter'[w].wantPrimary <=> waiter[w].wantPrimary
    BY <1>1, <1>2
  <1>4. \A v \in Waiter \ {w} : waiter'[v].wantPrimary <=> waiter[v].wantPrimary
    BY <1>1, ExceptionAnswer
  <1> QED
    BY <1>3, <1>4, ExceptionAnswer DEF WaiterSeen

\* Nor does a cancellation change what the contract sees of the waiter objects.
LEMMA OnCancelUnseen ==
  ASSUME PoolInvariant, NEW t \in Thread, OnCancelLocked(t)
  PROVE  /\ \A v \in Waiter : WaiterSeen(v)
         /\ CancelCrashes(t) => waiter' = waiter
  <1> USE DEF waitVars
  <1>1. CASE CancelIsDue(t) /\ ~CancelCrashes(t)
    <2>1. /\ ticket[t].waiter \in Range(waiterQueue)
          /\ waiter' = [waiter EXCEPT ![ticket[t].waiter].exception = "canceled"]
      BY <1>1 DEF OnCancelLocked, CancelCrashes
    <2> QED
      BY <1>1, <2>1, ExceptionUnseen
  <1>2. CASE ~(CancelIsDue(t) /\ ~CancelCrashes(t))
    BY <1>2 DEF OnCancelLocked, WaiterSeen
  <1> QED
    BY <1>1, <1>2

\* The waiting thread cancels itself: it goes on waiting, or is thrown out of
\* the wait when its waiter is not in the queue any more.
LEMMA SelfCancelRefines ==
  ASSUME PoolInvariant, PoolInvariant', PrimaryOfLive, NEW t \in Thread, SelfCancel(t)
  PROVE  Contract!Refuse(t) \/ UNCHANGED Contract!vars
  <1> USE DEF poolVars, cancelVars
  <1>1. /\ pc[t] = "selfCancel" /\ pc[t] \in WaitingPcs /\ isOpen' = isOpen /\ hold' = hold
        /\ \A v \in Waiter : WaiterSeen(v)
    BY OnCancelUnseen DEF SelfCancel, WaitingPcs
  <1>2. CASE CancelCrashes(t)
    <2>1. /\ pc' = [pc EXCEPT ![t] = "idle"] /\ ticket' = [ticket EXCEPT ![t] = NoTicket]
      BY <1>2 DEF SelfCancel
    <2>2. /\ pc'[t] \notin WaitingPcs
          /\ \A u \in Thread \ {t} : hold'[u] = hold[u] /\ pc'[u] = pc[u] /\ ticket'[u] = ticket[u]
      BY <1>1, <2>1 DEF PoolInvariant, TypeOK, WaitingPcs
    <2>3. hold[t] = None /\ waiter[ticket[t].waiter].assigned = None
      BY <1>1, <1>2 DEF PoolInvariant, WaitersInUse, CancelCrashes, CancelIsDue
    <2>4. LeaseOf(t) = None
      BY <1>1, <2>3, PhaseFactsAlways
    <2> QED
      BY <1>1, <2>2, <2>3, <2>4, WaitEnds
  <1>3. CASE ~CancelCrashes(t)
    <2>1. pc' = [pc EXCEPT ![t] = "top"] /\ ticket' = ticket
      BY <1>3 DEF SelfCancel
    <2>2. \A u \in Thread : pc'[u] \in WaitingPcs <=> pc[u] \in WaitingPcs
      BY <1>1, <2>1 DEF PoolInvariant, TypeOK, WaitingPcs
    <2> QED
      BY <1>1, <2>1, <2>2, StaysQuiet
  <1> QED
    BY <1>2, <1>3

\* The wake loop's other steps are none of the contract's.
LEMMA WakeQuiet ==
  ASSUME PoolInvariant, PoolInvariant', PrimaryOfLive, WakeClosed \/ WakeThrow \/ WakeSkip
  PROVE  UNCHANGED Contract!vars
  <1> USE DEF poolVars, threadVars, waitVars
  <1>1. isOpen' = isOpen /\ UNCHANGED <<pc, hold, ticket>>
    BY DEF WakeClosed, WakeThrow, WakeSkip
  <1>2. CASE WakeThrow
    BY <1>1, <1>2, CurrentWaiterFacts, ExceptionUnseen, StaysQuiet DEF WakeThrow
  <1>3. CASE WakeClosed \/ WakeSkip
    BY <1>1, <1>3, StaysQuiet DEF WakeClosed, WakeSkip, WaiterSeen
  <1> QED
    BY <1>2, <1>3

\* Nor is what a thread does while its wait goes on, or after it.
LEMMA ProceedQuiet ==
  ASSUME PoolInvariant, PoolInvariant', PrimaryOfLive, NEW t \in Thread,
         \/ SetListener(t) \/ PollLeakFlag(t) \/ RecoverFromLeak(t) \/ Unpark(t)
         \/ CheckAgain(t) \/ ClearListener(t) \/ Cancel(t) \/ OnCancel(t)
  PROVE  UNCHANGED Contract!vars
  <1> USE DEF poolVars, threadVars, waitVars, cancelVars
  <1>1. isOpen' = isOpen /\ hold' = hold
    BY DEF SetListener, PollLeakFlag, RecoverFromLeak, Unpark, CheckAgain, ClearListener, Cancel,
           OnCancel
  <1>2. \A w \in Waiter : WaiterSeen(w)
    <2>1. CASE OnCancel(t)
      BY <2>1, OnCancelUnseen DEF OnCancel
    <2>2. CASE ~OnCancel(t)
      BY <2>2 DEF SetListener, PollLeakFlag, RecoverFromLeak, Unpark, CheckAgain, ClearListener,
         Cancel, WaiterSeen
    <2> QED
      BY <2>1, <2>2
  <1>3. /\ pc'[t] \in WaitingPcs <=> pc[t] \in WaitingPcs
        /\ pc[t] \in WaitingPcs => ticket'[t] = ticket[t]
        /\ \A u \in Thread \ {t} : pc'[u] = pc[u] /\ ticket'[u] = ticket[u]
    <2> USE DEF PoolInvariant, TypeOK, WaitingPcs
    <2>1. CASE Cancel(t) \/ OnCancel(t) \/ PollLeakFlag(t) \/ RecoverFromLeak(t) \/ Unpark(t)
      BY <2>1 DEF Cancel, OnCancel, PollLeakFlag, RecoverFromLeak, Unpark
    <2>2. CASE SetListener(t) \/ CheckAgain(t)
      BY <2>2 DEF SetListener, CheckAgain
    <2>3. CASE ClearListener(t)
      BY <2>3 DEF ClearListener
    <2> QED
      BY <2>1, <2>2, <2>3
  <1> QED
    BY <1>1, <1>2, <1>3, StaysQuiet

\* Nor is what changes the configuration or what the garbage collector does.
LEMMA ChangeQuiet ==
  ASSUME PoolInvariant, PoolInvariant', PrimaryOfLive,
         \/ \E k \in Configs : Reconfigure(k)
         \/ \E c \in Conn : ClearWeakEntry(c) \/ Finalize(c)
  PROVE  UNCHANGED Contract!vars
  <1> USE DEF poolVars, threadVars, waitVars
  <1>1. isOpen' = isOpen /\ UNCHANGED <<pc, hold, ticket, waiter>>
    BY DEF Reconfigure, ReconfigureInPlace, ReconfigureReopening, ReconfigureFails, MayReconfigure,
           ClearWeakEntry, Finalize
  <1> QED
    BY <1>1, StaysQuiet DEF WaiterSeen

\* A pool that was just opened has leased nothing.
LEMMA InitRefinesContract == Init => Contract!Init
  <1> SUFFICES ASSUME Init PROVE Contract!Init
    OBVIOUS
  <1>1. /\ isOpen = TRUE
        /\ \A t \in Thread : hold[t] = None /\ pc[t] \notin WaitingPcs
    BY DEF Init, WaitingPcs
  <1>2. \A t \in Thread : LeasePhase(t) = "idle" /\ LeaseOf(t) = None /\ ~WaitsForPrimary(t)
    BY <1>1, PhaseFactsAlways
  <1>3. None \notin primary
    BY InitInvariant, PoolAssumption DEF PoolInvariant, TypeOK
  <1> QED
    BY <1>1, <1>2, <1>3 DEF Contract!Init, Phases, Leases, PrimaryAwaited, PrimaryLeased

\* Every step of a thread is one of the contract's, or none.
LEMMA ThreadRefines ==
  ASSUME PoolInvariant, PoolInvariant', PrimaryOfLive, NEW t \in Thread,
         ThreadStep(t) \/ Cancel(t) \/ OnCancel(t)
  PROVE  Contract!Next \/ UNCHANGED Contract!vars
  <1>1. ASSUME NEW r \in Requests, AcquireNow(t, r) \/ AcquireWaits(t, r)
        PROVE  Contract!Next
    BY <1>1, AcquireNowRefines, AcquireWaitsRefines DEF Contract!Next
  <1>2. CASE Check(t)
    BY <1>2, CheckClosedRefines, CheckDoneRefines, ProceedQuiet DEF Check, Contract!Next
  <1>3. CASE SelfCancel(t)
    BY <1>3, SelfCancelRefines DEF Contract!Next
  <1>4. CASE Release(t) \/ Leak(t)
    <2>1. /\ isOpen' = isOpen /\ pc[t] = "idle" /\ hold[t] # None
          /\ hold' = [hold EXCEPT ![t] = None] /\ UNCHANGED <<waiter, pc, ticket>>
      BY <1>4 DEF Release, ReleaseClosed, ReleasePrimary, ReleaseExcess, ReleaseNonPrimary,
         GiveBack, Leak, poolVars, waitVars
    <2> QED
      BY <2>1, ReturnRefines DEF Contract!Next
  <1>5. CASE \/ SetListener(t) \/ PollLeakFlag(t) \/ RecoverFromLeak(t) \/ Unpark(t)
             \/ ClearListener(t) \/ Cancel(t) \/ OnCancel(t)
    BY <1>5, ProceedQuiet
  <1> QED
    BY <1>1, <1>2, <1>3, <1>4, <1>5 DEF ThreadStep, Proceed

\* Every step of the pool is one of the contract's, or none.
LEMMA NextRefinesContract ==
  ASSUME PoolInvariant, PoolInvariant', [Next]_vars
  PROVE  [Contract!Next]_Contract!vars
  <1>1. CASE Next
    <2>1. PrimaryOfLive
      BY <1>1, PrimaryIsForLife
    <2>2. CASE WakeStep
      BY <2>1, <2>2, WakeAssignRefines, WakeQuiet DEF WakeStep, Contract!Next
    <2>3. ASSUME NEW t \in Thread, ThreadStep(t) \/ Cancel(t) \/ OnCancel(t)
          PROVE  Contract!Next \/ UNCHANGED Contract!vars
      BY <2>1, <2>3, ThreadRefines
    <2>4. CASE Close
      BY <2>1, <2>4, CloseRefines DEF Contract!Next
    <2>5. CASE \/ \E k \in Configs : <<configuration, k>> \in Switches /\ Reconfigure(k)
               \/ \E c \in Conn : ClearWeakEntry(c) \/ Finalize(c)
      BY <2>1, <2>5, ChangeQuiet
    <2> QED
      BY <1>1, <2>2, <2>3, <2>4, <2>5 DEF Next
  <1>2. CASE UNCHANGED vars
    <2>1. UNCHANGED <<isOpen, primary, pc, hold, ticket, waiter>>
      BY <1>2 DEF vars, poolVars, connVars, threadVars, waitVars
    <2>2. PrimaryOfLive /\ (\A w \in Waiter : WaiterSeen(w))
      BY <2>1 DEF PrimaryOfLive, WaiterSeen
    <2> QED
      BY <2>1, <2>2, StaysQuiet
  <1> QED
    BY <1>1, <1>2

\* The pool implements the lease contract (acquireConnection 350,
\* releaseConnection 367 and close 208): whatever the wake loop, the
\* cancellations, the reconfigurations and the garbage collector do in between,
\* a connection is given to one session at a time, that asked for it, a primary
\* one to who asked for it, and while the pool is open.
THEOREM KeepsLeaseContract == Spec => ImplementsContract
  <1>1. PoolInvariant /\ PoolInvariant' /\ [Next]_vars => [Contract!Next]_Contract!vars
    BY NextRefinesContract
  <1> QED
    BY <1>1, InitRefinesContract, PoolInvariantHolds, PTL
       DEF Spec, ImplementsContract, Contract!Spec
=============================================================================
