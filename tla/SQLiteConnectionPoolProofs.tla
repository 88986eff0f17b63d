--------------------- MODULE SQLiteConnectionPoolProofs ---------------------
(***************************************************************************)
(* PoolInvariant is an inductive invariant of the connection pool, for any *)
(* threads, waiters, connections, configurations and faults.               *)
(***************************************************************************)
EXTENDS SQLiteConnectionPool, SequenceTheorems, WellFoundedInduction, TLAPS

-----------------------------------------------------------------------------
(* The two operations on the waiter queue.                                 *)

\* What removing the i-th element does to a sequence.
LEMMA RemoveAtFacts ==
  ASSUME NEW S, NEW s \in Seq(S), NEW i \in 1 .. Len(s)
  PROVE  /\ RemoveAt(s, i) \in Seq(S)
         /\ Len(RemoveAt(s, i)) = Len(s) - 1
         /\ \A j \in 1 .. Len(s) - 1 :
              RemoveAt(s, i)[j] = IF j < i THEN s[j] ELSE s[j + 1]
<1> DEFINE front == SubSeq(s, 1, i - 1)
           back == SubSeq(s, i + 1, Len(s))
<1>0. Len(s) \in Nat /\ \A j \in 1 .. Len(s) : s[j] \in S
  BY LenProperties, ElementOfSeq
<1>1. /\ front \in Seq(S) /\ Len(front) = i - 1
      /\ \A j \in 1 .. i - 1 : front[j] = s[j]
  <2>1. /\ front \in Seq(S) /\ Len(front) = IF 1 <= i - 1 THEN (i - 1) - 1 + 1 ELSE 0
        /\ \A j \in 1 .. (i - 1) - 1 + 1 : front[j] = s[1 + j - 1]
    BY <1>0, SubSeqProperties
  <2> QED BY <1>0, <2>1
<1>2. /\ back \in Seq(S) /\ Len(back) = Len(s) - i
      /\ \A j \in 1 .. Len(s) - i : back[j] = s[i + j]
  <2>1. /\ back \in Seq(S)
        /\ Len(back) = IF i + 1 <= Len(s) THEN Len(s) - (i + 1) + 1 ELSE 0
        /\ \A j \in 1 .. Len(s) - (i + 1) + 1 : back[j] = s[(i + 1) + j - 1]
    BY <1>0, SubSeqProperties
  <2> QED BY <1>0, <2>1
<1>3. RemoveAt(s, i) = front \o back
  BY DEF RemoveAt
<1> HIDE DEF front, back
<1>4. /\ front \o back \in Seq(S)
      /\ Len(front \o back) = Len(front) + Len(back)
      /\ \A j \in 1 .. Len(front) + Len(back) :
           (front \o back)[j] = IF j <= Len(front) THEN front[j]
                                                   ELSE back[j - Len(front)]
  BY <1>1, <1>2, ConcatProperties
<1> QED BY <1>0, <1>1, <1>2, <1>3, <1>4

\* Sequence r is s with e put in at position i.
Inserted(r, s, i, e) ==
  /\ Len(r) = Len(s) + 1
  /\ \A j \in 1 .. Len(s) + 1 :
       r[j] = IF j < i THEN s[j] ELSE IF j = i THEN e ELSE s[j - 1]

\* What inserting an element at position i does to a sequence.
LEMMA InsertAtFacts ==
  ASSUME NEW S, NEW s \in Seq(S), NEW i \in 1 .. Len(s) + 1, NEW e \in S
  PROVE  InsertAt(s, i, e) \in Seq(S) /\ Inserted(InsertAt(s, i, e), s, i, e)
<1> DEFINE front == SubSeq(s, 1, i - 1)
           back == SubSeq(s, i, Len(s))
           head == front \o <<e>>
<1>0. Len(s) \in Nat /\ \A j \in 1 .. Len(s) : s[j] \in S
  BY LenProperties, ElementOfSeq
<1>1. /\ front \in Seq(S) /\ Len(front) = i - 1
      /\ \A j \in 1 .. i - 1 : front[j] = s[j]
  <2>1. /\ front \in Seq(S) /\ Len(front) = IF 1 <= i - 1 THEN (i - 1) - 1 + 1 ELSE 0
        /\ \A j \in 1 .. (i - 1) - 1 + 1 : front[j] = s[1 + j - 1]
    BY <1>0, SubSeqProperties
  <2> QED BY <1>0, <2>1
<1>2. /\ back \in Seq(S) /\ Len(back) = Len(s) - i + 1
      /\ \A j \in 1 .. Len(s) - i + 1 : back[j] = s[i + j - 1]
  <2>1. /\ back \in Seq(S)
        /\ Len(back) = IF i <= Len(s) THEN Len(s) - i + 1 ELSE 0
        /\ \A j \in 1 .. Len(s) - i + 1 : back[j] = s[i + j - 1]
    BY <1>0, SubSeqProperties
  <2> QED BY <1>0, <2>1
<1>3. InsertAt(s, i, e) = head \o back
  BY DEF InsertAt
<1>4. <<e>> \in Seq(S) /\ Len(<<e>>) = 1 /\ <<e>>[1] = e
  OBVIOUS
<1> HIDE DEF front, back
<1>5. /\ head \in Seq(S) /\ Len(head) = Len(front) + 1
      /\ \A j \in 1 .. Len(front) + 1 :
           head[j] = IF j <= Len(front) THEN front[j] ELSE <<e>>[j - Len(front)]
  BY <1>1, <1>4, ConcatProperties
<1> HIDE DEF head
<1>6. /\ head \o back \in Seq(S)
      /\ Len(head \o back) = Len(head) + Len(back)
      /\ \A j \in 1 .. Len(head) + Len(back) :
           (head \o back)[j] = IF j <= Len(head) THEN head[j] ELSE back[j - Len(head)]
  BY <1>2, <1>5, ConcatProperties
<1>7. \A j \in 1 .. i : head[j] = IF j < i THEN s[j] ELSE e
  BY <1>0, <1>1, <1>4, <1>5
<1>8. Inserted(head \o back, s, i, e)
  BY <1>0, <1>1, <1>2, <1>5, <1>6, <1>7 DEF Inserted
<1> QED BY <1>3, <1>6, <1>8

\* A queue without its i-th waiter has the other waiters, in the same order.
LEMMA DequeueFacts ==
  ASSUME NEW q \in Seq(Waiter), NEW i \in 1 .. Len(q),
         \A j, k \in DOMAIN q : j < k => q[j] # q[k]
  PROVE  LET r == RemoveAt(q, i)
         IN  /\ r \in Seq(Waiter)
             /\ Len(r) = Len(q) - 1
             /\ Range(r) = Range(q) \ {q[i]}
             /\ \A j, k \in DOMAIN r : j < k =>
                  \E a, b \in DOMAIN q : a < b /\ r[j] = q[a] /\ r[k] = q[b]
<1> DEFINE r == RemoveAt(q, i)
<1>1. /\ r \in Seq(Waiter) /\ Len(r) = Len(q) - 1
      /\ \A j \in 1 .. Len(q) - 1 : r[j] = IF j < i THEN q[j] ELSE q[j + 1]
  BY RemoveAtFacts
<1>2. /\ DOMAIN q = 1 .. Len(q) /\ Len(q) \in Nat
      /\ DOMAIN r = 1 .. Len(q) - 1
  BY <1>1, LenProperties
<1> HIDE DEF r
<1>3. Range(r) \subseteq Range(q) \ {q[i]}
  <2> SUFFICES ASSUME NEW j \in 1 .. Len(q) - 1
               PROVE  r[j] \in Range(q) /\ r[j] # q[i]
    BY <1>2 DEF Range
  <2>1. \E k \in DOMAIN q : r[j] = q[k] /\ q[k] # q[i]
    <3>1. CASE j < i
      <4>1. j \in DOMAIN q /\ i \in DOMAIN q /\ r[j] = q[j] /\ q[j] # q[i]
        BY <3>1, <1>1, <1>2
      <4> QED BY <4>1
    <3>2. CASE j >= i
      <4>1. /\ j + 1 \in DOMAIN q /\ i \in DOMAIN q
            /\ i < j + 1 /\ r[j] = q[j + 1]
        BY <3>2, <1>1, <1>2
      <4> QED BY <4>1
    <3> QED BY <3>1, <3>2
  <2> QED BY <2>1 DEF Range
<1>4. Range(q) \ {q[i]} \subseteq Range(r)
  <2> SUFFICES ASSUME NEW j \in 1 .. Len(q), j # i
               PROVE  q[j] \in Range(r)
    BY <1>2 DEF Range
  <2>1. CASE j < i
    <3>1. j \in DOMAIN r /\ r[j] = q[j]
      BY <2>1, <1>1, <1>2
    <3> QED BY <3>1 DEF Range
  <2>2. CASE j > i
    <3>1. j - 1 \in DOMAIN r /\ r[j - 1] = q[j]
      BY <2>2, <1>1, <1>2
    <3> QED BY <3>1 DEF Range
  <2> QED BY <2>1, <2>2
<1>5. \A j, k \in DOMAIN r : j < k =>
        \E a, b \in DOMAIN q : a < b /\ r[j] = q[a] /\ r[k] = q[b]
  <2> SUFFICES ASSUME NEW j \in DOMAIN r, NEW k \in DOMAIN r, j < k
               PROVE  \E a, b \in DOMAIN q : a < b /\ r[j] = q[a] /\ r[k] = q[b]
    OBVIOUS
  <2> DEFINE a == IF j < i THEN j ELSE j + 1
             b == IF k < i THEN k ELSE k + 1
  <2>1. a \in DOMAIN q /\ b \in DOMAIN q /\ a < b /\ r[j] = q[a] /\ r[k] = q[b]
    BY <1>1, <1>2
  <2> QED BY <2>1
<1>6. Range(r) = Range(q) \ {q[i]}
  BY <1>3, <1>4
<1> QED BY <1>1, <1>5, <1>6 DEF r

\* Queue r is q with w put in at position i: any two in r are two of q in the
\* same order, or w is one of them.
Placed(r, q, i, w) ==
  \A j, k \in DOMAIN r : j < k =>
    \/ \E a, b \in DOMAIN q : a < b /\ r[j] = q[a] /\ r[k] = q[b]
    \/ r[j] = w /\ \E b \in i .. Len(q) : r[k] = q[b]
    \/ r[k] = w /\ \E a \in 1 .. i - 1 : r[j] = q[a]

\* A queue with a new waiter at position i has the old ones in the same order.
LEMMA EnqueueFacts ==
  ASSUME NEW q \in Seq(Waiter), NEW i \in 1 .. Len(q) + 1, NEW w \in Waiter
  PROVE  LET r == InsertAt(q, i, w)
         IN  /\ r \in Seq(Waiter)
             /\ Len(r) = Len(q) + 1
             /\ Range(r) = Range(q) \cup {w}
             /\ Placed(r, q, i, w)
<1> DEFINE r == InsertAt(q, i, w)
<1>0. r \in Seq(Waiter) /\ Inserted(r, q, i, w)
  BY InsertAtFacts
<1> HIDE DEF r
<1>1. /\ r \in Seq(Waiter) /\ Len(r) = Len(q) + 1
      /\ \A j \in 1 .. Len(q) + 1 :
           r[j] = IF j < i THEN q[j] ELSE IF j = i THEN w ELSE q[j - 1]
  BY <1>0 DEF Inserted
<1>2. /\ DOMAIN q = 1 .. Len(q) /\ Len(q) \in Nat
      /\ DOMAIN r = 1 .. Len(q) + 1
  BY <1>1, LenProperties
<1>3. Range(r) \subseteq Range(q) \cup {w}
  <2> SUFFICES ASSUME NEW j \in 1 .. Len(q) + 1
               PROVE  r[j] \in Range(q) \cup {w}
    BY <1>2 DEF Range
  <2>1. CASE j < i
    BY <2>1, <1>1, <1>2 DEF Range
  <2>2. CASE j = i
    BY <2>2, <1>1, <1>2
  <2>3. CASE j > i
    BY <2>3, <1>1, <1>2 DEF Range
  <2> QED BY <2>1, <2>2, <2>3
<1>4. Range(q) \cup {w} \subseteq Range(r)
  <2>1. w \in Range(r)
    <3>1. i \in DOMAIN r /\ r[i] = w
      BY <1>1, <1>2
    <3> QED BY <3>1 DEF Range
  <2>2. ASSUME NEW j \in 1 .. Len(q)
        PROVE  q[j] \in Range(r)
    <3>1. CASE j < i
      <4>1. j \in DOMAIN r /\ r[j] = q[j]
        BY <3>1, <1>1, <1>2
      <4> QED BY <4>1 DEF Range
    <3>2. CASE j >= i
      <4>1. j + 1 \in DOMAIN r /\ r[j + 1] = q[j]
        BY <3>2, <1>1, <1>2
      <4> QED BY <4>1 DEF Range
    <3> QED BY <3>1, <3>2
  <2> QED BY <2>1, <2>2, <1>2 DEF Range
<1>5. ASSUME NEW j \in DOMAIN r, NEW k \in DOMAIN r, j < k
      PROVE  \/ \E a, b \in DOMAIN q : a < b /\ r[j] = q[a] /\ r[k] = q[b]
             \/ r[j] = w /\ \E b \in i .. Len(q) : r[k] = q[b]
             \/ r[k] = w /\ \E a \in 1 .. i - 1 : r[j] = q[a]
  <2>1. CASE j = i
    <3>1. r[j] = w /\ k - 1 \in i .. Len(q) /\ r[k] = q[k - 1]
      BY <2>1, <1>1, <1>2, <1>5
    <3> QED BY <3>1
  <2>2. CASE k = i
    <3>1. r[k] = w /\ j \in 1 .. i - 1 /\ r[j] = q[j]
      BY <2>2, <1>1, <1>2, <1>5
    <3> QED BY <3>1
  <2>3. CASE j # i /\ k # i
    <3> DEFINE a == IF j < i THEN j ELSE j - 1
               b == IF k < i THEN k ELSE k - 1
    <3>1. a \in DOMAIN q /\ b \in DOMAIN q /\ a < b /\ r[j] = q[a] /\ r[k] = q[b]
      BY <2>3, <1>1, <1>2, <1>5
    <3> QED BY <3>1
  <2> QED BY <2>1, <2>2, <2>3
<1>6. Range(r) = Range(q) \cup {w}
  BY <1>3, <1>4
<1>7. Placed(r, q, i, w)
  BY <1>5 DEF Placed
<1> QED BY <1>1, <1>6, <1>7 DEF r

-----------------------------------------------------------------------------
(* Updates of a waiter object.                                             *)

\* Giving a waiter a connection touches no other field.
LEMMA AssignedField ==
  ASSUME NEW r \in ConnectionWaiter, NEW c \in Conn \cup {None}
  PROVE  LET s == [r EXCEPT !.assigned = c]
         IN  /\ s \in ConnectionWaiter
             /\ s.assigned = c
             /\ s.thread = r.thread /\ s.exception = r.exception
             /\ s.priority = r.priority /\ s.nonce = r.nonce
BY DEF ConnectionWaiter

\* Giving a waiter an exception touches no other field.
LEMMA ExceptionField ==
  ASSUME NEW r \in ConnectionWaiter, NEW x \in {"failed", "canceled"}
  PROVE  LET s == [r EXCEPT !.exception = x]
         IN  /\ s \in ConnectionWaiter
             /\ s.exception = x
             /\ s.thread = r.thread /\ s.assigned = r.assigned
             /\ s.priority = r.priority /\ s.nonce = r.nonce
BY DEF ConnectionWaiter

\* A new waiter object is the thread's own and otherwise as it was.
LEMMA ObtainedFields ==
  ASSUME NEW w \in Waiter, waiter[w] \in ConnectionWaiter,
         NEW t \in Thread, NEW r \in Requests
  PROVE  LET s == Obtained(w, t, r)
         IN  /\ s \in ConnectionWaiter
             /\ s.thread = t /\ s.priority = r.priority
             /\ s.assigned = waiter[w].assigned /\ s.exception = waiter[w].exception
             /\ s.nonce = waiter[w].nonce
BY PoolAssumption DEF ConnectionWaiter, Obtained

\* A recycled waiter object is blank.
LEMMA RecycledFields ==
  ASSUME NEW w \in Waiter, waiter[w] \in ConnectionWaiter
  PROVE  LET s == Recycled(w)
         IN  /\ s \in ConnectionWaiter
             /\ s.thread = None /\ s.assigned = None /\ s.exception = "none"
             /\ s.priority = waiter[w].priority
<1> DEFINE blank == [waiter[w] EXCEPT !.thread = None, !.assigned = None,
                                      !.exception = "none"]
           n == IF waiter[w].nonce < MaxNonce THEN waiter[w].nonce + 1
                                              ELSE waiter[w].nonce
<1>1. /\ blank \in ConnectionWaiter
      /\ blank.thread = None /\ blank.assigned = None /\ blank.exception = "none"
      /\ blank.priority = waiter[w].priority /\ blank.nonce = waiter[w].nonce
  BY DEF ConnectionWaiter
<1>2. waiter[w].nonce \in 0 .. MaxNonce
  BY DEF ConnectionWaiter
<1>3. n \in 0 .. MaxNonce
  BY <1>2, PoolAssumption
<1>4. Recycled(w) = [blank EXCEPT !.nonce = n]
  BY <1>1 DEF Recycled, ConnectionWaiter
<1> HIDE DEF blank, n
<1> QED BY <1>1, <1>3, <1>4 DEF ConnectionWaiter

-----------------------------------------------------------------------------
(* What steps that leave connections alone preserve.                       *)

\* Ownership does not change unless what it is made of does.
LEMMA OwnershipFrame ==
  ASSUME ExclusiveOwnership,
         UNCHANGED <<acquired, live, availVars, garbage, hold>>,
         \A t \in Thread : AssignedTo(t)' = AssignedTo(t)
  PROVE  ExclusiveOwnership'
BY DEF ExclusiveOwnership, Possession, AcquiredConns, AvailableConns, availVars

\* Nor does the standing of the primary connection.
LEMMA PrimaryFrame ==
  ASSUME SinglePrimary, UNCHANGED <<acquired, primary, availVars>>
  PROVE  SinglePrimary'
BY DEF SinglePrimary, AcquiredConns, AvailableConns, availVars

\* Nor does the order of the queue when waiters and queue stay as they are and
\* no thread that waits stops to.
LEMMA QueueFrame ==
  ASSUME QueueInOrder, UNCHANGED <<waiterQueue, waiter, ticket>>,
         \A t \in Thread : pc[t] \in WaitingPcs => pc'[t] \in WaitingPcs
  PROVE  QueueInOrder'
BY DEF QueueInOrder

\* A queued waiter belongs to a thread and has not been answered.
LEMMA QueuedWaiter ==
  ASSUME PoolInvariant, NEW w \in Range(waiterQueue)
  PROVE  /\ w \in Waiter
         /\ waiter[w] \in ConnectionWaiter
         /\ waiter[w].thread \in Thread
         /\ waiter[w].assigned = None /\ waiter[w].exception = "none"
         /\ pc[waiter[w].thread] \in WaitingPcs
         /\ ticket[waiter[w].thread].waiter = w
<1>1. w \in Waiter
  BY LenProperties, ElementOfSeq DEF PoolInvariant, TypeOK, Range
<1>2. PICK t \in Thread : /\ pc[t] \in WaitingPcs
                          /\ ticket[t] = [waiter |-> w, nonce |-> waiter[w].nonce]
                          /\ waiter[w].thread = t
  BY DEF PoolInvariant, QueueInOrder
<1> QED BY <1>1, <1>2 DEF PoolInvariant, TypeOK, QueueInOrder

\* Answering a queued waiter with an exception touches nothing else.
LEMMA ExceptionAnswer ==
  ASSUME PoolInvariant, NEW w \in Range(waiterQueue), NEW x \in {"failed", "canceled"},
         waiter' = [waiter EXCEPT ![w].exception = x]
  PROVE  /\ waiter' \in [Waiter -> ConnectionWaiter]
         /\ \A v \in Waiter \ {w} : waiter'[v] = waiter[v]
         /\ \A v \in Waiter : /\ waiter'[v].assigned = waiter[v].assigned
                              /\ waiter'[v].thread = waiter[v].thread
         /\ waiter[w].thread \in Thread
<1> DEFINE s == [waiter[w] EXCEPT !.exception = x]
<1>1. waiter \in [Waiter -> ConnectionWaiter]
  BY DEF PoolInvariant, TypeOK
<1>2. w \in Waiter /\ waiter[w] \in ConnectionWaiter /\ waiter[w].thread \in Thread
  BY QueuedWaiter
<1>3. /\ s \in ConnectionWaiter
      /\ s.thread = waiter[w].thread /\ s.assigned = waiter[w].assigned
  BY <1>2, ExceptionField
<1>4. waiter' = [waiter EXCEPT ![w] = s]
  OBVIOUS
<1> HIDE DEF s
<1> QED BY <1>1, <1>2, <1>3, <1>4

\* A waiter that leaves the queue leaves it in order, whatever it is answered.
LEMMA DequeueQueue ==
  ASSUME PoolInvariant, NEW i \in 1 .. Len(waiterQueue), Dequeue(i),
         ticket' = ticket,
         \A t \in Thread : pc[t] \in WaitingPcs => pc'[t] \in WaitingPcs,
         \A w \in Waiter \ {waiterQueue[i]} : waiter'[w] = waiter[w]
  PROVE  /\ QueueInOrder'
         /\ waiterQueue[i] \in Waiter /\ waiterQueue[i] \in Range(waiterQueue)
         /\ waiterQueue' \in Seq(Waiter)
         /\ Len(waiterQueue') = Len(waiterQueue) - 1
         /\ permits' \in SUBSET Thread
<1>1. waiterQueue \in Seq(Waiter)
  BY DEF PoolInvariant, TypeOK
<1>2. waiterQueue[i] \in Waiter /\ waiterQueue[i] \in Range(waiterQueue)
  BY <1>1, LenProperties, ElementOfSeq DEF Range
<1>3. \A j, k \in DOMAIN waiterQueue : j < k => waiterQueue[j] # waiterQueue[k]
  BY DEF PoolInvariant, QueueInOrder
<1>4. /\ waiterQueue' \in Seq(Waiter)
      /\ Len(waiterQueue') = Len(waiterQueue) - 1
      /\ Range(waiterQueue') = Range(waiterQueue) \ {waiterQueue[i]}
      /\ \A j, k \in DOMAIN waiterQueue' : j < k =>
           \E a, b \in DOMAIN waiterQueue :
             a < b /\ waiterQueue'[j] = waiterQueue[a] /\ waiterQueue'[k] = waiterQueue[b]
  BY <1>1, <1>3, DequeueFacts DEF Dequeue
<1>5. \A j \in DOMAIN waiterQueue' :
        waiterQueue'[j] \in Waiter \ {waiterQueue[i]}
  <2>1. \A j \in DOMAIN waiterQueue' : waiterQueue'[j] \in Range(waiterQueue')
    BY DEF Range
  <2>2. \A j \in DOMAIN waiterQueue' : waiterQueue'[j] \in Waiter
    BY <1>4, LenProperties, ElementOfSeq
  <2> QED BY <2>1, <2>2, <1>4
<1>6. \A j, k \in DOMAIN waiterQueue' : j < k =>
        /\ waiterQueue'[j] # waiterQueue'[k]
        /\ waiter'[waiterQueue'[j]].priority >= waiter'[waiterQueue'[k]].priority
  <2> SUFFICES ASSUME NEW j \in DOMAIN waiterQueue', NEW k \in DOMAIN waiterQueue',
                      j < k
               PROVE  /\ waiterQueue'[j] # waiterQueue'[k]
                      /\ waiter'[waiterQueue'[j]].priority
                           >= waiter'[waiterQueue'[k]].priority
    OBVIOUS
  <2>1. PICK a \in DOMAIN waiterQueue, b \in DOMAIN waiterQueue :
          a < b /\ waiterQueue'[j] = waiterQueue[a] /\ waiterQueue'[k] = waiterQueue[b]
    BY <1>4
  <2>2. /\ waiterQueue[a] # waiterQueue[b]
        /\ waiter[waiterQueue[a]].priority >= waiter[waiterQueue[b]].priority
    BY <2>1 DEF PoolInvariant, QueueInOrder
  <2>3. /\ waiter'[waiterQueue'[j]] = waiter[waiterQueue[a]]
        /\ waiter'[waiterQueue'[k]] = waiter[waiterQueue[b]]
    BY <2>1, <1>5
  <2> QED BY <2>1, <2>2, <2>3
<1>7. \A w \in Range(waiterQueue') : w \in Range(waiterQueue) /\ waiter'[w] = waiter[w]
  BY <1>4, <1>5 DEF Range
<1>8. QueueInOrder'
  BY <1>6, <1>7 DEF PoolInvariant, QueueInOrder
<1>9. permits' \in SUBSET Thread
  BY <1>2, QueuedWaiter DEF Dequeue, PoolInvariant, TypeOK
<1> QED BY <1>2, <1>4, <1>8, <1>9

\* A closed pool stays drained when nothing is queued and no wake loop moves.
LEMMA DrainFrame ==
  ASSUME ClosedDrains, UNCHANGED <<isOpen, wake, waiterQueue>>
  PROVE  ClosedDrains'
BY DEF ClosedDrains, LockFree

\* Nor does a wake loop that starts when the lock was free disturb it.
LEMMA DrainStart ==
  ASSUME ClosedDrains, LockFree, StartWake(waiterQueue), UNCHANGED <<isOpen, waiterQueue>>
  PROVE  ClosedDrains'
BY DEF ClosedDrains, LockFree, StartWake

\* A wake loop begins inside the queue.
LEMMA StartWakeFacts ==
  ASSUME NEW q \in Seq(Waiter), StartWake(q)
  PROVE  /\ wake' \in [at : Nat, noPrimary : BOOLEAN, noNonPrimary : BOOLEAN]
         /\ wake' = NotWaking \/ wake'.at \in 1 .. Len(q)
<1>1. NotWaking \in [at : Nat, noPrimary : BOOLEAN, noNonPrimary : BOOLEAN]
  BY DEF NotWaking
<1>2. q # <<>> => 1 \in 1 .. Len(q)
  BY EmptySeq, LenProperties
<1> QED BY <1>1, <1>2 DEF StartWake

\* A wake loop goes on inside the queue.
LEMMA WakeOnFacts ==
  ASSUME NEW q \in Seq(Waiter), NEW i \in Nat \ {0},
         NEW a \in BOOLEAN, NEW b \in BOOLEAN, WakeOn(i, q, a, b)
  PROVE  /\ wake' \in [at : Nat, noPrimary : BOOLEAN, noNonPrimary : BOOLEAN]
         /\ wake' = NotWaking \/ wake'.at \in 1 .. Len(q)
BY LenProperties DEF WakeOn, NotWaking

\* Where the loop is in the queue, and whose waiter it looks at.
LEMMA CurrentWaiterFacts ==
  ASSUME PoolInvariant, ~LockFree
  PROVE  /\ wake.at \in 1 .. Len(waiterQueue) /\ wake.at \in Nat \ {0}
         /\ CurrentWaiter \in Waiter
         /\ CurrentWaiter \in Range(waiterQueue)
<1>1. wake.at \in 1 .. Len(waiterQueue)
  BY DEF PoolInvariant, WaitersInUse, LockFree
<1>2. waiterQueue \in Seq(Waiter)
  BY DEF PoolInvariant, TypeOK
<1> QED BY <1>1, <1>2, LenProperties, ElementOfSeq DEF CurrentWaiter, Range

-----------------------------------------------------------------------------
(* One lemma per action: it preserves the invariant.                       *)

\* Setting the cancellation listener (648-659) preserves the invariant.
LEMMA SetListenerStep ==
  ASSUME PoolInvariant, NEW t \in Thread, SetListener(t)
  PROVE  PoolInvariant'
<1> USE DEF PoolInvariant, SetListener
<1>1. TypeOK'
  BY DEF TypeOK, WaitingPcs, poolVars, availVars, connVars, waitVars, MaxPoolSizeFor
<1>2. /\ pc[t] \in WaitingPcs /\ pc'[t] \in WaitingPcs /\ pc'[t] # "idle"
      /\ \A u \in Thread \ {t} : pc'[u] = pc[u] /\ listener'[u] = listener[u]
  BY DEF TypeOK, WaitingPcs
<1>3. WaitersInUse'
  BY <1>2 DEF WaitersInUse, TypeOK, waitVars, NotWaking
<1>4. QueueInOrder'
  BY <1>2, QueueFrame DEF waitVars
<1>5. \A u \in Thread : AssignedTo(u)' = AssignedTo(u)
  BY <1>2 DEF AssignedTo, waitVars
<1>6. ExclusiveOwnership'
  BY <1>5, OwnershipFrame DEF connVars
<1>7. SinglePrimary'
  BY PrimaryFrame DEF connVars
<1>drain. ClosedDrains'
  BY DrainFrame DEF poolVars, waitVars
<1> QED BY <1>1, <1>3, <1>4, <1>6, <1>7, <1>drain

\* Polling the leak flag (665-668) preserves the invariant.
LEMMA PollLeakFlagStep ==
  ASSUME PoolInvariant, NEW t \in Thread, PollLeakFlag(t)
  PROVE  PoolInvariant'
<1> USE DEF PoolInvariant, PollLeakFlag
<1>1. TypeOK'
  BY DEF TypeOK, WaitingPcs, poolVars, availVars, connVars, waitVars, cancelVars,
         MaxPoolSizeFor
<1>2. /\ pc[t] \in WaitingPcs /\ pc'[t] \in WaitingPcs \ {"idle", "listen"}
      /\ \A u \in Thread \ {t} : pc'[u] = pc[u]
  BY DEF TypeOK, WaitingPcs
<1>3. WaitersInUse'
  BY <1>2 DEF WaitersInUse, waitVars, cancelVars, NotWaking
<1>4. QueueInOrder'
  BY <1>2, QueueFrame DEF waitVars
<1>5. \A u \in Thread : AssignedTo(u)' = AssignedTo(u)
  BY <1>2 DEF AssignedTo, waitVars
<1>6. ExclusiveOwnership'
  BY <1>5, OwnershipFrame DEF connVars
<1>7. SinglePrimary'
  BY PrimaryFrame DEF connVars
<1>drain. ClosedDrains'
  BY DrainFrame DEF poolVars, waitVars
<1> QED BY <1>1, <1>3, <1>4, <1>6, <1>7, <1>drain

\* Waking the waiters after a leak (669-671) preserves the invariant.
LEMMA RecoverFromLeakStep ==
  ASSUME PoolInvariant, NEW t \in Thread, RecoverFromLeak(t)
  PROVE  PoolInvariant'
<1> USE DEF PoolInvariant, RecoverFromLeak
<1>1. /\ wake' \in [at : Nat, noPrimary : BOOLEAN, noNonPrimary : BOOLEAN]
      /\ wake' = NotWaking \/ wake'.at \in 1 .. Len(waiterQueue)
  BY StartWakeFacts DEF TypeOK
<1>2. TypeOK'
  BY <1>1 DEF TypeOK, WaitingPcs, poolVars, availVars, connVars, waitVars,
              cancelVars, MaxPoolSizeFor
<1>3. /\ pc[t] \in WaitingPcs /\ pc'[t] \in WaitingPcs \ {"idle", "listen"}
      /\ \A u \in Thread \ {t} : pc'[u] = pc[u]
  BY DEF TypeOK, WaitingPcs
<1>4. WaitersInUse'
  BY <1>1, <1>3 DEF WaitersInUse, waitVars, cancelVars, NotWaking
<1>5. QueueInOrder'
  BY <1>3, QueueFrame DEF waitVars
<1>6. \A u \in Thread : AssignedTo(u)' = AssignedTo(u)
  BY <1>3 DEF AssignedTo, waitVars
<1>7. ExclusiveOwnership'
  BY <1>6, OwnershipFrame DEF connVars
<1>8. SinglePrimary'
  BY PrimaryFrame DEF connVars
<1>drain. ClosedDrains'
  BY DrainStart DEF poolVars, waitVars
<1> QED BY <1>2, <1>4, <1>5, <1>7, <1>8, <1>drain

\* Coming back from park (673-677) preserves the invariant.
LEMMA UnparkStep ==
  ASSUME PoolInvariant, NEW t \in Thread, Unpark(t)
  PROVE  PoolInvariant'
<1> USE DEF PoolInvariant, Unpark
<1>1. TypeOK'
  BY DEF TypeOK, WaitingPcs, poolVars, availVars, connVars, cancelVars,
         MaxPoolSizeFor
<1>2. /\ pc[t] \in WaitingPcs /\ pc'[t] \in WaitingPcs \ {"idle", "listen"}
      /\ \A u \in Thread \ {t} : pc'[u] = pc[u]
  BY DEF TypeOK, WaitingPcs
<1>3. WaitersInUse'
  BY <1>2 DEF WaitersInUse, cancelVars, NotWaking
<1>4. QueueInOrder'
  BY <1>2, QueueFrame
<1>5. \A u \in Thread : AssignedTo(u)' = AssignedTo(u)
  BY <1>2 DEF AssignedTo
<1>6. ExclusiveOwnership'
  BY <1>5, OwnershipFrame DEF connVars
<1>7. SinglePrimary'
  BY PrimaryFrame DEF connVars
<1>drain. ClosedDrains'
  BY DrainFrame DEF poolVars
<1> QED BY <1>1, <1>3, <1>4, <1>6, <1>7, <1>drain

\* A check that finds no answer (679-701) preserves the invariant.
LEMMA CheckAgainStep ==
  ASSUME PoolInvariant, NEW t \in Thread, CheckAgain(t)
  PROVE  PoolInvariant'
<1> USE DEF PoolInvariant, CheckAgain
<1>1. TypeOK'
  BY DEF TypeOK, WaitingPcs, poolVars, availVars, connVars, waitVars, cancelVars,
         MaxPoolSizeFor
<1>2. /\ pc[t] \in WaitingPcs /\ pc'[t] \in WaitingPcs \ {"idle", "listen"}
      /\ \A u \in Thread \ {t} : pc'[u] = pc[u]
  BY DEF TypeOK, WaitingPcs
<1>3. WaitersInUse'
  BY <1>2 DEF WaitersInUse, waitVars, cancelVars, NotWaking
<1>4. QueueInOrder'
  BY <1>2, QueueFrame DEF waitVars
<1>5. \A u \in Thread : AssignedTo(u)' = AssignedTo(u)
  BY <1>2 DEF AssignedTo, waitVars
<1>6. ExclusiveOwnership'
  BY <1>5, OwnershipFrame DEF connVars
<1>7. SinglePrimary'
  BY PrimaryFrame DEF connVars
<1>drain. ClosedDrains'
  BY DrainFrame DEF poolVars, waitVars
<1> QED BY <1>1, <1>3, <1>4, <1>6, <1>7, <1>drain

\* Cancelling a signal preserves the invariant.
LEMMA CancelStep ==
  ASSUME PoolInvariant, NEW t \in Thread, Cancel(t)
  PROVE  PoolInvariant'
<1> USE DEF PoolInvariant, Cancel
<1>1. TypeOK'
  BY DEF TypeOK, poolVars, availVars, connVars, waitVars, threadVars, MaxPoolSizeFor
<1>2. WaitersInUse'
  BY DEF WaitersInUse, TypeOK, waitVars, threadVars, NotWaking
<1>3. QueueInOrder'
  BY QueueFrame DEF waitVars, threadVars
<1>4. \A u \in Thread : AssignedTo(u)' = AssignedTo(u)
  BY DEF AssignedTo, waitVars, threadVars
<1>5. ExclusiveOwnership'
  BY <1>4, OwnershipFrame DEF connVars, threadVars
<1>6. SinglePrimary'
  BY PrimaryFrame DEF connVars
<1>drain. ClosedDrains'
  BY DrainFrame DEF poolVars, waitVars
<1> QED BY <1>1, <1>2, <1>3, <1>5, <1>6, <1>drain

\* Removing the listener on the way out (703-708) preserves the invariant.
LEMMA ClearListenerStep ==
  ASSUME PoolInvariant, NEW t \in Thread, ClearListener(t)
  PROVE  PoolInvariant'
<1> USE DEF PoolInvariant, ClearListener
<1>1. TypeOK'
  BY PoolAssumption DEF TypeOK, WaitingPcs, poolVars, availVars, connVars,
         waitVars, MaxPoolSizeFor, NoTicket
<1>2. /\ pc[t] \notin WaitingPcs /\ pc'[t] = "idle" /\ pc'[t] \notin WaitingPcs
      /\ listener'[t] = "unset" /\ signal'[t] = "none"
      /\ \A u \in Thread \ {t} :
           /\ pc'[u] = pc[u] /\ ticket'[u] = ticket[u]
           /\ signal'[u] = signal[u] /\ listener'[u] = listener[u]
  BY DEF TypeOK, WaitingPcs
<1>3. WaitersInUse'
  BY <1>2 DEF WaitersInUse, waitVars, NotWaking
<1>4. QueueInOrder'
  BY <1>2 DEF QueueInOrder, waitVars
<1>5. \A u \in Thread : AssignedTo(u)' = AssignedTo(u)
  BY <1>2 DEF AssignedTo, waitVars
<1>6. ExclusiveOwnership'
  BY <1>5, OwnershipFrame DEF connVars
<1>7. SinglePrimary'
  BY PrimaryFrame DEF connVars
<1>drain. ClosedDrains'
  BY DrainFrame DEF poolVars, waitVars
<1> QED BY <1>1, <1>3, <1>4, <1>6, <1>7, <1>drain

\* A waiter the wake loop cannot serve (834-838) keeps its place: the invariant is preserved.
LEMMA WakeSkipStep ==
  ASSUME PoolInvariant, WakeSkip
  PROVE  PoolInvariant'
<1> USE DEF PoolInvariant, WakeSkip
<1>1. /\ wake' \in [at : Nat, noPrimary : BOOLEAN, noNonPrimary : BOOLEAN]
      /\ wake' = NotWaking \/ wake'.at \in 1 .. Len(waiterQueue)
  <2>1. CASE wake' = NotWaking
    BY <2>1 DEF NotWaking
  <2>2. CASE WakeOn(wake.at + 1, waiterQueue, TRUE, FALSE)
    <3>1. wake.at + 1 \in Nat \ {0}
      BY CurrentWaiterFacts
    <3> QED BY <2>2, <3>1, WakeOnFacts DEF TypeOK
  <2> QED BY <2>1, <2>2
<1>2. TypeOK'
  BY <1>1 DEF TypeOK, poolVars, availVars, connVars, waitVars, threadVars,
              cancelVars, MaxPoolSizeFor
<1>3. WaitersInUse'
  BY <1>1 DEF WaitersInUse, waitVars, threadVars, cancelVars, NotWaking
<1>4. QueueInOrder'
  BY QueueFrame DEF waitVars, threadVars
<1>5. \A u \in Thread : AssignedTo(u)' = AssignedTo(u)
  BY DEF AssignedTo, waitVars, threadVars
<1>6. ExclusiveOwnership'
  BY <1>5, OwnershipFrame DEF connVars, threadVars
<1>7. SinglePrimary'
  BY PrimaryFrame DEF connVars
<1>drain. ClosedDrains'
  BY DEF ClosedDrains, poolVars
<1> QED BY <1>2, <1>3, <1>4, <1>6, <1>7, <1>drain

\* The wake loop of a closed pool (790-793) drains the queue, which preserves the invariant.
LEMMA WakeClosedStep ==
  ASSUME PoolInvariant, WakeClosed
  PROVE  PoolInvariant'
<1> USE DEF PoolInvariant, WakeClosed
<1>1. wake.at \in 1 .. Len(waiterQueue) /\ wake.at \in Nat \ {0}
  BY CurrentWaiterFacts
<1>2. /\ QueueInOrder'
      /\ waiterQueue' \in Seq(Waiter) /\ permits' \in SUBSET Thread
  BY <1>1, DequeueQueue DEF threadVars
<1>3. /\ wake' \in [at : Nat, noPrimary : BOOLEAN, noNonPrimary : BOOLEAN]
      /\ wake' = NotWaking \/ wake'.at \in 1 .. Len(waiterQueue')
  BY <1>1, <1>2, WakeOnFacts
<1>4. TypeOK'
  BY <1>2, <1>3 DEF TypeOK, poolVars, availVars, connVars, threadVars, cancelVars,
                    MaxPoolSizeFor
<1>5. WaitersInUse'
  BY <1>3 DEF WaitersInUse, threadVars, cancelVars, NotWaking
<1>6. \A u \in Thread : AssignedTo(u)' = AssignedTo(u)
  BY DEF AssignedTo, threadVars
<1>7. ExclusiveOwnership'
  BY <1>6, OwnershipFrame DEF connVars, threadVars
<1>8. SinglePrimary'
  BY PrimaryFrame DEF connVars
<1>drain. ClosedDrains'
  <2>1. wake.at = 1 /\ WakeOn(1, waiterQueue', FALSE, FALSE)
    BY DEF ClosedDrains
  <2>2. /\ Len(waiterQueue') \in Nat
        /\ waiterQueue' # <<>> => Len(waiterQueue') # 0
    BY <1>2, LenProperties, EmptySeq
  <2>3. CASE 1 > Len(waiterQueue')
    BY <2>1, <2>2, <2>3 DEF WakeOn, ClosedDrains, LockFree
  <2>4. CASE ~ (1 > Len(waiterQueue'))
    <3>1. wake'.at = 1 /\ wake' # NotWaking
      BY <2>1, <2>4 DEF WakeOn, NotWaking
    <3> QED BY <3>1 DEF ClosedDrains, LockFree
  <2> QED BY <2>3, <2>4
<1> QED BY <1>2, <1>4, <1>5, <1>7, <1>8, <1>drain

\* A waiter that is handed an exception (813-815) is unlinked: the invariant is preserved.
LEMMA WakeThrowStep ==
  ASSUME PoolInvariant, WakeThrow
  PROVE  PoolInvariant'
<1> USE DEF PoolInvariant
<1> DEFINE w == CurrentWaiter
<1>1. /\ wake.at \in 1 .. Len(waiterQueue) /\ wake.at \in Nat \ {0}
      /\ w \in Waiter /\ w \in Range(waiterQueue) /\ w = waiterQueue[wake.at]
      /\ wake \in [at : Nat, noPrimary : BOOLEAN, noNonPrimary : BOOLEAN]
  BY CurrentWaiterFacts DEF TypeOK, WakeThrow, CurrentWaiter
<1>2. /\ Dequeue(wake.at)
      /\ WakeOn(wake.at, waiterQueue', wake.noPrimary, NoNonPrimaryLeft)
      /\ waiter' = [waiter EXCEPT ![w].exception = "failed"]
      /\ UNCHANGED <<poolVars, availVars, acquired, connectionLeaked, connVars,
                     garbage, threadVars, cancelVars>>
  BY DEF WakeThrow
<1> HIDE DEF w
<1>3. /\ waiter' \in [Waiter -> ConnectionWaiter]
      /\ \A v \in Waiter \ {w} : waiter'[v] = waiter[v]
      /\ \A v \in Waiter : /\ waiter'[v].assigned = waiter[v].assigned
                           /\ waiter'[v].thread = waiter[v].thread
      /\ waiter[w].thread \in Thread
  BY <1>1, <1>2, ExceptionAnswer
<1>4. /\ QueueInOrder'
      /\ waiterQueue' \in Seq(Waiter) /\ permits' \in SUBSET Thread
  BY <1>1, <1>2, <1>3, DequeueQueue DEF threadVars
<1>5. NoNonPrimaryLeft \in BOOLEAN
  BY <1>1 DEF NoNonPrimaryLeft, WakeTriesNonPrimary, CanTakeNonPrimary
<1>6. /\ wake' \in [at : Nat, noPrimary : BOOLEAN, noNonPrimary : BOOLEAN]
      /\ wake' = NotWaking \/ wake'.at \in 1 .. Len(waiterQueue')
  BY <1>1, <1>2, <1>4, <1>5, WakeOnFacts
<1>7. TypeOK'
  BY <1>2, <1>3, <1>4, <1>6 DEF TypeOK, poolVars, availVars, connVars, threadVars,
                    cancelVars, MaxPoolSizeFor
<1>8. WaitersInUse'
  BY <1>1, <1>2, <1>3, <1>6, PoolAssumption
     DEF WaitersInUse, threadVars, cancelVars, NotWaking
<1>9. ExclusiveOwnership'
  <2>1. \A u \in Thread : AssignedTo(u)' = AssignedTo(u)
    BY <1>2, <1>3 DEF AssignedTo, threadVars, WaitersInUse
  <2> QED BY <1>2, <2>1, OwnershipFrame DEF connVars, threadVars
<1>10. SinglePrimary'
  BY <1>2, PrimaryFrame DEF connVars
<1>drain. ClosedDrains'
  BY <1>2 DEF ClosedDrains, WakeThrow, poolVars
<1> QED BY <1>4, <1>7, <1>8, <1>9, <1>10, <1>drain

\* A cancellation takes its waiter out of the queue and nothing from anybody.
LEMMA OnCancelLockedFacts ==
  ASSUME PoolInvariant, NEW t \in Thread, LockFree, OnCancelLocked(t),
         ticket' = ticket, isOpen' = isOpen,
         \A u \in Thread : pc[u] \in WaitingPcs => pc'[u] \in WaitingPcs
  PROVE  /\ QueueInOrder' /\ ClosedDrains'
         /\ waiterQueue' \in Seq(Waiter) /\ permits' \in SUBSET Thread
         /\ waiter' \in [Waiter -> ConnectionWaiter]
         /\ wake' \in [at : Nat, noPrimary : BOOLEAN, noNonPrimary : BOOLEAN]
         /\ wake' = NotWaking \/ wake'.at \in 1 .. Len(waiterQueue')
         /\ \A v \in Waiter : /\ waiter'[v].assigned = waiter[v].assigned
                              /\ waiter'[v].thread = waiter[v].thread
                              /\ \/ waiter'[v].exception = waiter[v].exception
                                 \/ waiter[v].thread # None
<1>1. CASE CancelIsDue(t) /\ ~CancelCrashes(t)
  <2> DEFINE w == ticket[t].waiter
  <2>1. PICK i \in 1 .. Len(waiterQueue) : waiterQueue[i] = w /\ Dequeue(i)
    BY <1>1 DEF OnCancelLocked
  <2>2. /\ waiter' = [waiter EXCEPT ![w].exception = "canceled"]
        /\ StartWake(waiterQueue')
    BY <1>1 DEF OnCancelLocked
  <2> HIDE DEF w
  <2>3. w \in Range(waiterQueue) /\ w \in Waiter
    BY <2>1, LenProperties, QueuedWaiter DEF PoolInvariant, TypeOK, Range
  <2>4. /\ waiter' \in [Waiter -> ConnectionWaiter]
        /\ \A v \in Waiter \ {w} : waiter'[v] = waiter[v]
        /\ \A v \in Waiter : /\ waiter'[v].assigned = waiter[v].assigned
                             /\ waiter'[v].thread = waiter[v].thread
        /\ waiter[w].thread \in Thread
    BY <2>2, <2>3, ExceptionAnswer
  <2>5. /\ QueueInOrder'
        /\ waiterQueue' \in Seq(Waiter) /\ permits' \in SUBSET Thread
    BY <2>1, <2>4, DequeueQueue
  <2>6. /\ wake' \in [at : Nat, noPrimary : BOOLEAN, noNonPrimary : BOOLEAN]
        /\ wake' = NotWaking \/ wake'.at \in 1 .. Len(waiterQueue')
    BY <2>2, <2>5, StartWakeFacts
  <2>7. ClosedDrains'
    <3>1. waiterQueue # <<>>
      BY <2>1, EmptySeq
    <3> QED BY <3>1 DEF ClosedDrains, PoolInvariant
  <2> QED BY <2>3, <2>4, <2>5, <2>6, <2>7, PoolAssumption
<1>2. CASE ~(CancelIsDue(t) /\ ~CancelCrashes(t))
  <2>1. UNCHANGED <<waitVars, wake>>
    BY <1>2 DEF OnCancelLocked
  <2>2. QueueInOrder'
    BY <2>1, QueueFrame DEF waitVars, PoolInvariant
  <2>3. ClosedDrains'
    BY <2>1, DrainFrame DEF waitVars, PoolInvariant
  <2> QED BY <2>1, <2>2, <2>3 DEF PoolInvariant, TypeOK, WaitersInUse, waitVars, NotWaking
<1> QED BY <1>1, <1>2

\* The callback of a cancelled signal (712-738) preserves the invariant.
LEMMA OnCancelStep ==
  ASSUME PoolInvariant, NEW t \in Thread, OnCancel(t)
  PROVE  PoolInvariant'
<1> USE DEF PoolInvariant
<1>1. /\ LockFree /\ OnCancelLocked(t)
      /\ listener[t] = "running" /\ listener' = [listener EXCEPT ![t] = "set"]
      /\ UNCHANGED <<poolVars, availVars, acquired, connectionLeaked, connVars,
                     garbage, threadVars, signal>>
  BY DEF OnCancel
<1>2. /\ QueueInOrder' /\ ClosedDrains'
      /\ waiterQueue' \in Seq(Waiter) /\ permits' \in SUBSET Thread
      /\ waiter' \in [Waiter -> ConnectionWaiter]
      /\ wake' \in [at : Nat, noPrimary : BOOLEAN, noNonPrimary : BOOLEAN]
      /\ wake' = NotWaking \/ wake'.at \in 1 .. Len(waiterQueue')
      /\ \A v \in Waiter : /\ waiter'[v].assigned = waiter[v].assigned
                           /\ waiter'[v].thread = waiter[v].thread
                           /\ \/ waiter'[v].exception = waiter[v].exception
                              \/ waiter[v].thread # None
  BY <1>1, OnCancelLockedFacts DEF threadVars, poolVars
<1>3. TypeOK'
  BY <1>1, <1>2 DEF TypeOK, poolVars, availVars, connVars, threadVars, MaxPoolSizeFor
<1>4. WaitersInUse'
  <2>1. \A u \in Thread : listener'[u] # "unset" => listener[u] # "unset"
    BY <1>1 DEF TypeOK
  <2>2. pc' = pc /\ hold' = hold /\ ticket' = ticket /\ signal' = signal
    BY <1>1 DEF threadVars
  <2> QED BY <1>2, <2>1, <2>2 DEF WaitersInUse, NotWaking
<1>5. ExclusiveOwnership'
  <2>1. \A u \in Thread : AssignedTo(u)' = AssignedTo(u)
    BY <1>1, <1>2 DEF AssignedTo, threadVars, WaitersInUse
  <2> QED BY <1>1, <2>1, OwnershipFrame DEF connVars, threadVars
<1>6. SinglePrimary'
  BY <1>1, PrimaryFrame DEF connVars
<1> QED BY <1>2, <1>3, <1>4, <1>5, <1>6

\* A listener called back at once (650-656) preserves the invariant.
LEMMA SelfCancelStep ==
  ASSUME PoolInvariant, NEW t \in Thread, SelfCancel(t)
  PROVE  PoolInvariant'
<1> USE DEF PoolInvariant
<1>1. /\ LockFree /\ OnCancelLocked(t) /\ pc[t] = "selfCancel"
      /\ UNCHANGED <<poolVars, availVars, acquired, connectionLeaked, connVars,
                     garbage, hold>>
  BY DEF SelfCancel
<1>2. SinglePrimary'
  BY <1>1, PrimaryFrame DEF connVars
<1>3. CASE ~CancelCrashes(t)
  <2>1. pc' = [pc EXCEPT ![t] = "top"] /\ UNCHANGED <<ticket, cancelVars>>
    BY <1>3 DEF SelfCancel
  <2>2. /\ pc'[t] = "top" /\ pc[t] \in WaitingPcs /\ pc'[t] \in WaitingPcs
        /\ \A u \in Thread \ {t} : pc'[u] = pc[u]
    BY <1>1, <2>1 DEF TypeOK, WaitingPcs
  <2>3. /\ QueueInOrder' /\ ClosedDrains'
        /\ waiterQueue' \in Seq(Waiter) /\ permits' \in SUBSET Thread
        /\ waiter' \in [Waiter -> ConnectionWaiter]
        /\ wake' \in [at : Nat, noPrimary : BOOLEAN, noNonPrimary : BOOLEAN]
        /\ wake' = NotWaking \/ wake'.at \in 1 .. Len(waiterQueue')
        /\ \A v \in Waiter : /\ waiter'[v].assigned = waiter[v].assigned
                             /\ waiter'[v].thread = waiter[v].thread
                             /\ \/ waiter'[v].exception = waiter[v].exception
                                \/ waiter[v].thread # None
    BY <1>1, <2>1, <2>2, OnCancelLockedFacts DEF poolVars
  <2>4. TypeOK'
    BY <1>1, <2>1, <2>3 DEF TypeOK, WaitingPcs, poolVars, availVars, connVars,
                            cancelVars, MaxPoolSizeFor
  <2>5. WaitersInUse'
    BY <1>1, <2>1, <2>2, <2>3 DEF WaitersInUse, cancelVars, NotWaking
  <2>6. \A u \in Thread : AssignedTo(u)' = AssignedTo(u)
    BY <1>1, <2>1, <2>2, <2>3 DEF AssignedTo, WaitersInUse
  <2>7. ExclusiveOwnership'
    BY <1>1, <2>6, OwnershipFrame DEF connVars
  <2> QED BY <1>2, <2>3, <2>4, <2>5, <2>7
<1>4. CASE CancelCrashes(t)
  <2>1. /\ pc' = [pc EXCEPT ![t] = "idle"]
        /\ ticket' = [ticket EXCEPT ![t] = NoTicket]
        /\ signal' = [signal EXCEPT ![t] = "none"]
        /\ listener' = [listener EXCEPT ![t] = "unset"]
        /\ UNCHANGED <<waitVars, wake>>
    BY <1>1, <1>4 DEF SelfCancel, OnCancelLocked
  <2>2. /\ pc'[t] = "idle" /\ pc[t] \in WaitingPcs /\ pc'[t] \notin WaitingPcs
        /\ signal'[t] = "none" /\ listener'[t] = "unset"
        /\ \A u \in Thread \ {t} :
             /\ pc'[u] = pc[u] /\ ticket'[u] = ticket[u]
             /\ signal'[u] = signal[u] /\ listener'[u] = listener[u]
    BY <1>1, <2>1 DEF TypeOK, WaitingPcs
  <2>3. TypeOK'
    BY <1>1, <2>1, PoolAssumption
       DEF TypeOK, WaitingPcs, poolVars, availVars, connVars, waitVars,
           MaxPoolSizeFor, NoTicket
  <2>4. WaitersInUse'
    BY <1>1, <2>1, <2>2 DEF WaitersInUse, waitVars, NotWaking
  <2>5. ticket[t].waiter \notin Range(waiterQueue)
    BY <1>4 DEF CancelCrashes
  <2>6. QueueInOrder'
    BY <2>1, <2>2, <2>5 DEF QueueInOrder, waitVars
  <2>7. \A u \in Thread : AssignedTo(u)' = AssignedTo(u)
    BY <1>4, <2>1, <2>2 DEF AssignedTo, CancelCrashes, CancelIsDue, waitVars
  <2>8. ExclusiveOwnership'
    BY <1>1, <2>7, OwnershipFrame DEF connVars
  <2>9. ClosedDrains'
    BY <1>1, <2>1, DrainFrame DEF poolVars, waitVars
  <2> QED BY <1>2, <2>3, <2>4, <2>6, <2>8, <2>9
<1> QED BY <1>3, <1>4

-----------------------------------------------------------------------------
(* Taking a connection out of the pool.                                    *)

\* What an attempt that returns c has done, and that c was nobody else's.
LEMMA TryAcquireFacts ==
  ASSUME PoolInvariant, NEW c \in Conn,
         TryAcquireNonPrimary(c) \/ TryAcquirePrimary(c)
  PROVE  /\ acquired' = [acquired EXCEPT ![c] = "normal"]
         /\ c \notin AcquiredConns /\ c \notin garbage
         /\ \A u \in Thread : c \notin Possession(u)
         /\ AcquiredConns' = AcquiredConns \cup {c}
         /\ AvailableConns' = AvailableConns \ {c}
         /\ live' = live \cup {c}
         /\ availablePrimary' \in Conn \cup {None}
         /\ availableNonPrimary' \in SUBSET Conn
         /\ availablePrimary' \notin availableNonPrimary'
         /\ primary' \in SUBSET Conn /\ configOf' \in [Conn -> Configs]
         /\ SinglePrimary'
<1> USE PoolAssumption DEF PoolInvariant
<1>0. AvailableConns \subseteq Conn /\ AcquiredConns \subseteq Conn
  BY DEF TypeOK, AvailableConns, AcquiredConns
<1>1. acquired' = [acquired EXCEPT ![c] = "normal"]
  BY DEF TryAcquireNonPrimary, TryAcquirePrimary, FinishAcquire
<1>2. /\ AcquiredConns' = AcquiredConns \cup {c}
      /\ \A d \in Conn \ {c} : acquired'[d] = acquired[d]
      /\ acquired'[c] = "normal"
  BY <1>1 DEF TypeOK, AcquiredConns
<1>3. c \in AvailableConns \/ c \notin live =>
        /\ c \notin AcquiredConns /\ c \notin garbage
        /\ \A u \in Thread : c \notin Possession(u)
  BY DEF ExclusiveOwnership
<1>4. c \notin live => c \notin AvailableConns
  BY DEF ExclusiveOwnership
<1>5. CASE /\ c \in availableNonPrimary
           /\ availableNonPrimary' = availableNonPrimary \ {c}
           /\ UNCHANGED connVars /\ UNCHANGED availablePrimary
  <2>1. c \in AvailableConns /\ c # availablePrimary /\ c \in live
    BY <1>5 DEF ExclusiveOwnership, AvailableConns
  <2>2. AvailableConns' = AvailableConns \ {c}
    BY <1>5, <2>1 DEF AvailableConns, TypeOK
  <2>3. SinglePrimary'
    <3>1. c \notin primary
      BY <1>5 DEF SinglePrimary
    <3> QED BY <1>0, <1>2, <1>5, <2>2, <3>1 DEF SinglePrimary, connVars
  <2> QED BY <1>1, <1>2, <1>3, <1>5, <2>1, <2>2, <2>3
          DEF TypeOK, connVars, ExclusiveOwnership
<1>6. CASE /\ availableNonPrimary = {}
           /\ OpenConnection(c, FALSE, configuration)
           /\ UNCHANGED availableNonPrimary /\ UNCHANGED availablePrimary
  <2>1. /\ c \notin live /\ live' = live \cup {c}
        /\ primary' = primary \ {c}
        /\ configOf' = [configOf EXCEPT ![c] = configuration]
    BY <1>6 DEF OpenConnection
  <2>2. AvailableConns' = AvailableConns \ {c}
    BY <1>4, <1>6, <2>1 DEF AvailableConns
  <2>3. SinglePrimary'
    <3>1. c # availablePrimary /\ c \notin availableNonPrimary
      BY <1>4, <2>1 DEF AvailableConns
    <3> QED BY <1>0, <1>2, <1>6, <2>1, <2>2, <3>1 DEF SinglePrimary
  <2> QED BY <1>1, <1>2, <1>3, <1>6, <2>1, <2>2, <2>3
          DEF TypeOK, ExclusiveOwnership
<1>7. CASE /\ c = availablePrimary
           /\ availablePrimary' = None
           /\ UNCHANGED connVars /\ UNCHANGED availableNonPrimary
  <2>1. c \in AvailableConns /\ c \in live /\ c \notin availableNonPrimary
    BY <1>7 DEF ExclusiveOwnership, AvailableConns
  <2>2. AvailableConns' = AvailableConns \ {c}
    BY <1>7, <2>1 DEF AvailableConns
  <2>3. SinglePrimary'
    <3>1. acquired[c] = "none" /\ c \in primary
      BY <1>3, <1>7, <2>1 DEF AcquiredConns, SinglePrimary
    <3>2. \A d \in primary \cap (AvailableConns \cup AcquiredConns) :
            acquired[d] # "discard" => d = c
      BY <2>1, <3>1 DEF SinglePrimary
    <3> QED BY <1>0, <1>2, <1>7, <2>1, <2>2, <3>1, <3>2 DEF SinglePrimary, connVars
  <2>4. /\ live' = live \cup {c} /\ primary' \in SUBSET Conn
        /\ configOf' \in [Conn -> Configs]
    BY <1>7, <2>1 DEF connVars, TypeOK
  <2>5. availablePrimary' \notin availableNonPrimary'
    BY <1>7 DEF TypeOK
  <2> QED BY <1>1, <1>2, <1>3, <1>7, <2>1, <2>2, <2>3, <2>4, <2>5 DEF TypeOK
<1>8. CASE /\ availablePrimary = None
           /\ ~PrimaryIsAcquired
           /\ OpenConnection(c, TRUE, configuration)
           /\ UNCHANGED availableNonPrimary /\ UNCHANGED availablePrimary
  <2>1. /\ c \notin live /\ live' = live \cup {c}
        /\ primary' = primary \cup {c}
        /\ configOf' = [configOf EXCEPT ![c] = configuration]
    BY <1>8 DEF OpenConnection
  <2>2. AvailableConns' = AvailableConns \ {c}
    BY <1>4, <1>8, <2>1 DEF AvailableConns
  <2>3. SinglePrimary'
    <3>1. primary \cap (AvailableConns \cup AcquiredConns) = {}
      BY <1>8 DEF SinglePrimary, AvailableConns, PrimaryIsAcquired
    <3>2. c \notin availableNonPrimary
      BY <1>4, <2>1 DEF AvailableConns
    <3> QED BY <1>2, <1>8, <2>1, <2>2, <3>1, <3>2 DEF SinglePrimary
  <2> QED BY <1>1, <1>2, <1>3, <1>8, <2>1, <2>2, <2>3
          DEF TypeOK, ExclusiveOwnership
<1> QED BY <1>5, <1>6, <1>7, <1>8 DEF TryAcquireNonPrimary, TryAcquirePrimary

\* Handing such a connection to a session that has none.
LEMMA HandOver ==
  ASSUME PoolInvariant, NEW c \in Conn, NEW t \in Thread,
         hold[t] = None, AssignedTo(t) = None,
         c \notin AcquiredConns, c \notin garbage,
         \A u \in Thread : c \notin Possession(u),
         AcquiredConns' = AcquiredConns \cup {c},
         AvailableConns' = AvailableConns \ {c},
         availablePrimary' \notin availableNonPrimary',
         live' = live \cup {c}, garbage' = garbage,
         \/ hold'[t] = c /\ AssignedTo(t)' = None
         \/ hold'[t] = None /\ AssignedTo(t)' = c,
         \A u \in Thread \ {t} :
           hold'[u] = hold[u] /\ AssignedTo(u)' = AssignedTo(u)
  PROVE  ExclusiveOwnership'
<1> USE DEF PoolInvariant
<1>1. /\ Possession(t)' = {c} /\ Possession(t) = {}
      /\ hold'[t] = None \/ AssignedTo(t)' = None
  BY PoolAssumption DEF Possession
<1>2. \A u \in Thread \ {t} : Possession(u)' = Possession(u)
  BY DEF Possession
<1> QED BY <1>1, <1>2 DEF ExclusiveOwnership

\* A set of natural numbers has a least element.
LEMMA LeastElement ==
  ASSUME NEW T \in SUBSET Nat, T # {}
  PROVE  \E x \in T : \A y \in T : x <= y
<1> DEFINE R == OpToRel(<, Nat)
<1>1. IsWellFoundedOn(R, Nat)
  BY NatLessThanWellFounded
<1>2. \A x, y \in Nat : <<y, x>> \in R <=> y < x
  BY DEF OpToRel
<1> HIDE DEF R
<1>3. PICK x \in T : \A y \in T : ~ (<<y, x>> \in R)
  BY <1>1, WFMin
<1>4. ASSUME NEW y \in T PROVE x <= y
  <2>1. x \in Nat /\ y \in Nat
    OBVIOUS
  <2>2. ~ (y < x)
    BY <1>2, <1>3, <2>1
  <2> QED BY <2>1, <2>2
<1> QED BY <1>4

\* There is one place in the queue for a waiter of priority p.
LEMMA QueuePositionFacts ==
  ASSUME PoolInvariant, NEW p \in 0 .. 1
  PROVE  LET i == QueuePosition(p)
         IN  /\ i \in 1 .. Len(waiterQueue) + 1
             /\ \A j \in 1 .. i - 1 : waiter[waiterQueue[j]].priority >= p
             /\ \A j \in i .. Len(waiterQueue) : waiter[waiterQueue[j]].priority < p
<1> DEFINE n == Len(waiterQueue)
           prio(j) == waiter[waiterQueue[j]].priority
           T == {i \in 1 .. n + 1 : i = n + 1 \/ prio(i) < p}
           P(i) == /\ \A j \in 1 .. i - 1 : prio(j) >= p
                   /\ i <= n => prio(i) < p
<1>1. n \in Nat /\ DOMAIN waiterQueue = 1 .. n
  BY LenProperties DEF PoolInvariant, TypeOK
<1>2. \A j \in 1 .. n : prio(j) \in 0 .. 1
  <2> SUFFICES ASSUME NEW j \in 1 .. n PROVE prio(j) \in 0 .. 1
    OBVIOUS
  <2>1. waiterQueue[j] \in Range(waiterQueue)
    BY <1>1 DEF Range
  <2> QED BY <2>1, QueuedWaiter DEF ConnectionWaiter
<1>3. \A j, k \in 1 .. n : j < k => prio(j) >= prio(k)
  BY <1>1 DEF PoolInvariant, QueueInOrder
<1> HIDE DEF n, prio
<1>4. \E i \in 1 .. n + 1 : P(i)
  <2>1. n + 1 \in T /\ T \in SUBSET Nat
    BY <1>1
  <2>2. PICK i \in T : \A j \in T : i <= j
    BY <2>1, LeastElement
  <2>3. \A j \in 1 .. i - 1 : j \notin T /\ j \in 1 .. n
    BY <1>1, <2>1, <2>2
  <2>4. P(i)
    BY <1>1, <1>2, <2>2, <2>3
  <2> QED BY <2>2, <2>4
<1>5. QueuePosition(p) = CHOOSE i \in 1 .. n + 1 : P(i)
  BY DEF QueuePosition, n, prio
<1>6. QueuePosition(p) \in 1 .. n + 1 /\ P(QueuePosition(p))
  BY <1>4, <1>5
<1>7. \A j \in QueuePosition(p) .. n : prio(j) < p
  BY <1>1, <1>2, <1>3, <1>6
<1> QED BY <1>6, <1>7 DEF n, prio

\* An acquisition that does not wait (606-618) preserves the invariant.
LEMMA AcquireNowStep ==
  ASSUME PoolInvariant, NEW t \in Thread, NEW r \in Requests, AcquireNow(t, r)
  PROVE  PoolInvariant'
<1> USE DEF PoolInvariant
<1>1. PICK c \in Conn : /\ TryAcquireNonPrimary(c) \/ TryAcquirePrimary(c)
                        /\ hold' = [hold EXCEPT ![t] = c]
  BY DEF AcquireNow, TryAcquire
<1>2. /\ pc[t] = "idle" /\ hold[t] = None
      /\ UNCHANGED <<poolVars, connectionLeaked, garbage, waitVars, wake, pc,
                     ticket, cancelVars>>
  BY DEF AcquireNow
<1>3. /\ acquired' = [acquired EXCEPT ![c] = "normal"]
      /\ c \notin AcquiredConns /\ c \notin garbage
      /\ \A u \in Thread : c \notin Possession(u)
      /\ AcquiredConns' = AcquiredConns \cup {c}
      /\ AvailableConns' = AvailableConns \ {c}
      /\ live' = live \cup {c}
      /\ availablePrimary' \in Conn \cup {None}
      /\ availableNonPrimary' \in SUBSET Conn
      /\ availablePrimary' \notin availableNonPrimary'
      /\ primary' \in SUBSET Conn /\ configOf' \in [Conn -> Configs]
      /\ SinglePrimary'
  BY <1>1, TryAcquireFacts
<1>4. TypeOK'
  BY <1>1, <1>2, <1>3 DEF TypeOK, poolVars, waitVars, cancelVars, MaxPoolSizeFor
<1>5. WaitersInUse'
  <2>1. pc[t] \notin WaitingPcs /\ \A u \in Thread \ {t} : hold'[u] = hold[u]
    BY <1>1, <1>2 DEF WaitingPcs, TypeOK
  <2> QED BY <1>2, <2>1 DEF WaitersInUse, waitVars, cancelVars, NotWaking
<1>6. QueueInOrder'
  BY <1>2, QueueFrame DEF waitVars
<1>7. ExclusiveOwnership'
  <2>1. AssignedTo(t) = None /\ \A u \in Thread : AssignedTo(u)' = AssignedTo(u)
    BY <1>2 DEF AssignedTo, WaitingPcs, waitVars
  <2>2. hold'[t] = c /\ \A u \in Thread \ {t} : hold'[u] = hold[u]
    BY <1>1 DEF TypeOK
  <2> QED BY <1>2, <1>3, <2>1, <2>2, HandOver
<1>drain. ClosedDrains'
  BY <1>2, DrainFrame DEF poolVars, waitVars
<1> QED BY <1>3, <1>4, <1>5, <1>6, <1>7, <1>drain

\* A connection handed to a waiter by the wake loop (796-812) preserves the invariant.
LEMMA WakeAssignStep ==
  ASSUME PoolInvariant, WakeAssign
  PROVE  PoolInvariant'
<1> USE DEF PoolInvariant
<1> DEFINE w == CurrentWaiter
<1>1. PICK c \in Conn : /\ TryAcquireNonPrimary(c) \/ TryAcquirePrimary(c)
                        /\ waiter' = [waiter EXCEPT ![w].assigned = c]
  BY DEF WakeAssign, TryAcquire
<1>2. /\ wake.at \in 1 .. Len(waiterQueue) /\ wake.at \in Nat \ {0}
      /\ w \in Range(waiterQueue) /\ w = waiterQueue[wake.at]
      /\ wake \in [at : Nat, noPrimary : BOOLEAN, noNonPrimary : BOOLEAN]
  BY CurrentWaiterFacts DEF TypeOK, WakeAssign, CurrentWaiter
<1>3. /\ Dequeue(wake.at)
      /\ WakeOn(wake.at, waiterQueue', wake.noPrimary, NoNonPrimaryLeft)
      /\ UNCHANGED <<poolVars, connectionLeaked, garbage, threadVars, cancelVars>>
  BY DEF WakeAssign
<1> HIDE DEF w
<1>4. PICK t \in Thread :
         /\ t = waiter[w].thread
         /\ w \in Waiter /\ waiter[w] \in ConnectionWaiter
         /\ waiter[w].assigned = None
         /\ pc[t] \in WaitingPcs /\ ticket[t].waiter = w
  BY <1>2, QueuedWaiter
<1>5. /\ waiter' \in [Waiter -> ConnectionWaiter]
      /\ \A v \in Waiter \ {w} : waiter'[v] = waiter[v]
      /\ waiter'[w].assigned = c
      /\ waiter'[w].thread = waiter[w].thread
  <2> DEFINE s == [waiter[w] EXCEPT !.assigned = c]
  <2>1. s \in ConnectionWaiter /\ s.assigned = c /\ s.thread = waiter[w].thread
    BY <1>4, AssignedField
  <2>2. waiter' = [waiter EXCEPT ![w] = s]
    BY <1>1
  <2> HIDE DEF s
  <2> QED BY <1>4, <2>1, <2>2 DEF TypeOK
<1>6. /\ QueueInOrder'
      /\ waiterQueue' \in Seq(Waiter) /\ permits' \in SUBSET Thread
  BY <1>2, <1>3, <1>5, DequeueQueue DEF threadVars
<1>7. NoNonPrimaryLeft \in BOOLEAN
  BY <1>2 DEF NoNonPrimaryLeft, WakeTriesNonPrimary, CanTakeNonPrimary
<1>8. /\ wake' \in [at : Nat, noPrimary : BOOLEAN, noNonPrimary : BOOLEAN]
      /\ wake' = NotWaking \/ wake'.at \in 1 .. Len(waiterQueue')
  BY <1>2, <1>3, <1>6, <1>7, WakeOnFacts
<1>9. /\ acquired' = [acquired EXCEPT ![c] = "normal"]
      /\ c \notin AcquiredConns /\ c \notin garbage
      /\ \A u \in Thread : c \notin Possession(u)
      /\ AcquiredConns' = AcquiredConns \cup {c}
      /\ AvailableConns' = AvailableConns \ {c}
      /\ live' = live \cup {c}
      /\ availablePrimary' \in Conn \cup {None}
      /\ availableNonPrimary' \in SUBSET Conn
      /\ availablePrimary' \notin availableNonPrimary'
      /\ primary' \in SUBSET Conn /\ configOf' \in [Conn -> Configs]
      /\ SinglePrimary'
  BY <1>1, TryAcquireFacts
<1>10. TypeOK'
  BY <1>3, <1>5, <1>6, <1>8, <1>9
     DEF TypeOK, poolVars, threadVars, cancelVars, MaxPoolSizeFor
<1>11. WaitersInUse'
  BY <1>3, <1>4, <1>5, <1>8, PoolAssumption
     DEF WaitersInUse, threadVars, cancelVars, NotWaking
<1>12. ExclusiveOwnership'
  <2>1. AssignedTo(t) = None /\ AssignedTo(t)' = c
    BY <1>3, <1>4, <1>5 DEF AssignedTo, threadVars
  <2>2. \A u \in Thread \ {t} : AssignedTo(u)' = AssignedTo(u)
    BY <1>3, <1>4, <1>5 DEF AssignedTo, threadVars, WaitersInUse
  <2>3. hold[t] = None /\ hold' = hold /\ garbage' = garbage
    BY <1>3, <1>4 DEF threadVars, WaitersInUse
  <2> QED BY <1>4, <1>9, <2>1, <2>2, <2>3, HandOver
<1>drain. ClosedDrains'
  BY <1>3 DEF ClosedDrains, WakeAssign, poolVars
<1> QED BY <1>6, <1>9, <1>10, <1>11, <1>12, <1>drain

\* An acquisition that joins the queue (620-645) preserves the invariant.
LEMMA AcquireWaitsStep ==
  ASSUME PoolInvariant, NEW t \in Thread, NEW r \in Requests, AcquireWaits(t, r)
  PROVE  PoolInvariant'
<1> USE DEF PoolInvariant
<1>1. PICK w \in Waiter :
        /\ waiter[w].thread = None
        /\ waiter' = [waiter EXCEPT ![w] = Obtained(w, t, r)]
        /\ waiterQueue' = InsertAt(waiterQueue, QueuePosition(r.priority), w)
        /\ ticket' = [ticket EXCEPT ![t] = [waiter |-> w, nonce |-> waiter[w].nonce]]
  BY DEF AcquireWaits, ObtainableWaiters, RecycledWaiters, NewWaiters
<1>2. /\ pc[t] = "idle" /\ hold[t] = None /\ LockFree
      /\ pc' = [pc EXCEPT ![t] = IF r.cancellable THEN "listen" ELSE "top"]
      /\ signal' = [signal EXCEPT ![t] = IF r.cancellable THEN "live" ELSE "none"]
      /\ UNCHANGED <<poolVars, availVars, acquired, connectionLeaked, connVars,
                     garbage, permits, wake, hold, listener>>
  BY DEF AcquireWaits
<1>3. r.priority \in 0 .. 1 /\ r.cancellable \in BOOLEAN
  BY PoolAssumption
<1>4. PICK i \in 1 .. Len(waiterQueue) + 1 :
      /\ i = QueuePosition(r.priority)
      /\ \A j \in 1 .. i - 1 : waiter[waiterQueue[j]].priority >= r.priority
      /\ \A j \in i .. Len(waiterQueue) : waiter[waiterQueue[j]].priority < r.priority
  BY <1>3, QueuePositionFacts
<1>5. /\ waiter' \in [Waiter -> ConnectionWaiter]
      /\ \A v \in Waiter \ {w} : waiter'[v] = waiter[v]
      /\ waiter'[w].thread = t /\ waiter'[w].priority = r.priority
      /\ waiter'[w].assigned = None /\ waiter'[w].exception = "none"
      /\ waiter'[w].nonce = waiter[w].nonce
      /\ waiter[w].nonce \in 0 .. MaxNonce
  <2>1. waiter \in [Waiter -> ConnectionWaiter] /\ waiter[w].nonce \in 0 .. MaxNonce
    BY DEF TypeOK, ConnectionWaiter
  <2>2. waiter[w].assigned = None /\ waiter[w].exception = "none"
    BY <1>1 DEF WaitersInUse
  <2> QED BY <1>1, <2>1, <2>2, ObtainedFields
<1>6. /\ waiterQueue \in Seq(Waiter) /\ Len(waiterQueue) \in Nat
      /\ DOMAIN waiterQueue = 1 .. Len(waiterQueue)
  BY LenProperties DEF TypeOK
<1>7. /\ waiterQueue' \in Seq(Waiter)
      /\ Len(waiterQueue') = Len(waiterQueue) + 1
      /\ Range(waiterQueue') = Range(waiterQueue) \cup {w}
      /\ Placed(waiterQueue', waiterQueue, i, w)
  <2> DEFINE q == InsertAt(waiterQueue, i, w)
  <2>1. waiterQueue' = q
    BY <1>1, <1>4
  <2>2. /\ q \in Seq(Waiter) /\ Len(q) = Len(waiterQueue) + 1
        /\ Range(q) = Range(waiterQueue) \cup {w}
        /\ Placed(q, waiterQueue, i, w)
    BY <1>6, EnqueueFacts
  <2> HIDE DEF q
  <2> QED BY <2>1, <2>2
<1>8. /\ pc[t] \notin WaitingPcs /\ pc'[t] \in WaitingPcs
      /\ pc'[t] # "idle" /\ (pc'[t] = "listen" => signal'[t] # "none")
      /\ ticket'[t] = [waiter |-> w, nonce |-> waiter[w].nonce]
      /\ listener[t] = "unset"
      /\ \A u \in Thread \ {t} :
           pc'[u] = pc[u] /\ ticket'[u] = ticket[u] /\ signal'[u] = signal[u]
  BY <1>1, <1>2 DEF TypeOK, WaitingPcs, WaitersInUse
<1>9. \A u \in Thread \ {t} : pc[u] \in WaitingPcs => ticket[u].waiter \in Waiter \ {w}
  BY <1>1, PoolAssumption DEF WaitersInUse
<1>10. TypeOK'
  BY <1>1, <1>2, <1>3, <1>5, <1>7
     DEF TypeOK, poolVars, availVars, connVars, WaitingPcs, MaxPoolSizeFor
<1>11. WaitersInUse'
  <2>1. wake' = NotWaking
    BY <1>2 DEF LockFree
  <2>2. ASSUME NEW u \in Thread
        PROVE  /\ pc'[u] \in WaitingPcs => /\ ticket'[u].waiter \in Waiter
                                           /\ waiter'[ticket'[u].waiter].thread = u
                                           /\ hold'[u] = None
               /\ listener'[u] # "unset" =>
                    signal'[u] # "none" /\ ticket'[u].waiter \in Waiter
               /\ pc'[u] = "idle" => signal'[u] = "none"
               /\ pc'[u] = "listen" => signal'[u] # "none"
    BY <1>2, <1>5, <1>8, <1>9 DEF WaitersInUse
  <2>3. \A v \in Waiter : waiter'[v].thread = None =>
          waiter'[v].assigned = None /\ waiter'[v].exception = "none"
    BY <1>5 DEF WaitersInUse
  <2> QED BY <2>1, <2>2, <2>3 DEF WaitersInUse, NotWaking
<1>12. QueueInOrder'
  <2>1. \A v \in Range(waiterQueue) : v \in Waiter \ {w}
    BY <1>1, QueuedWaiter, PoolAssumption
  <2>2. \A j \in DOMAIN waiterQueue :
          waiterQueue[j] \in Waiter \ {w} /\ waiterQueue[j] \in Range(waiterQueue)
    BY <2>1 DEF Range
  <2>3. ASSUME NEW j \in DOMAIN waiterQueue', NEW k \in DOMAIN waiterQueue', j < k
        PROVE  /\ waiterQueue'[j] # waiterQueue'[k]
               /\ waiter'[waiterQueue'[j]].priority >= waiter'[waiterQueue'[k]].priority
    <3>1. CASE \E a, b \in DOMAIN waiterQueue :
                 a < b /\ waiterQueue'[j] = waiterQueue[a] /\ waiterQueue'[k] = waiterQueue[b]
      BY <3>1, <2>2, <1>5 DEF QueueInOrder
    <3>2. CASE waiterQueue'[j] = w /\ \E b \in i .. Len(waiterQueue) :
                                        waiterQueue'[k] = waiterQueue[b]
      <4>1. PICK b \in i .. Len(waiterQueue) : waiterQueue'[k] = waiterQueue[b]
        BY <3>2
      <4>2. b \in DOMAIN waiterQueue /\ waiter[waiterQueue[b]].priority < r.priority
        BY <1>4, <1>6
      <4>3. waiter[waiterQueue[b]].priority \in 0 .. 1
        BY <4>2, <2>2, QueuedWaiter DEF ConnectionWaiter
      <4> QED BY <3>2, <4>1, <4>2, <4>3, <2>2, <1>3, <1>5
    <3>3. CASE waiterQueue'[k] = w /\ \E a \in 1 .. i - 1 :
                                        waiterQueue'[j] = waiterQueue[a]
      <4>1. PICK a \in 1 .. i - 1 : waiterQueue'[j] = waiterQueue[a]
        BY <3>3
      <4>2. a \in DOMAIN waiterQueue /\ waiter[waiterQueue[a]].priority >= r.priority
        BY <1>4, <1>6
      <4> QED BY <3>3, <4>1, <4>2, <2>2, <1>5
    <3> QED BY <2>3, <3>1, <3>2, <3>3, <1>7 DEF Placed
  <2>4. ASSUME NEW v \in Range(waiterQueue')
        PROVE  /\ waiter'[v].assigned = None /\ waiter'[v].exception = "none"
               /\ \E u \in Thread : /\ pc'[u] \in WaitingPcs
                                    /\ ticket'[u] = [waiter |-> v, nonce |-> waiter'[v].nonce]
                                    /\ waiter'[v].thread = u
    <3>1. CASE v = w
      BY <3>1, <1>5, <1>8
    <3>2. CASE v # w
      <4>1. v \in Range(waiterQueue) /\ waiter'[v] = waiter[v]
        BY <3>2, <2>1, <1>5, <1>7
      <4>2. PICK u \in Thread : /\ pc[u] \in WaitingPcs
                                /\ ticket[u] = [waiter |-> v, nonce |-> waiter[v].nonce]
                                /\ waiter[v].thread = u
        BY <4>1 DEF QueueInOrder
      <4>3. u # t
        BY <4>2, <1>8
      <4> QED BY <4>1, <4>2, <4>3, <1>8 DEF QueueInOrder
    <3> QED BY <3>1, <3>2
  <2> QED BY <2>3, <2>4 DEF QueueInOrder
<1>13. ExclusiveOwnership'
  <2>1. \A u \in Thread : AssignedTo(u)' = AssignedTo(u)
    BY <1>5, <1>8, <1>9 DEF AssignedTo
  <2> QED BY <1>2, <2>1, OwnershipFrame DEF connVars
<1>14. SinglePrimary'
  BY <1>2, PrimaryFrame DEF connVars
<1>drain. ClosedDrains'
  BY <1>2 DEF ClosedDrains, AcquireWaits, NotClosed, poolVars
<1> QED BY <1>10, <1>11, <1>12, <1>13, <1>14, <1>drain

-----------------------------------------------------------------------------
(* Leaving waitForConnection.                                              *)

\* The thread stops waiting; if it keeps its listener it keeps its ticket too.
LEMMA LeaveLoopFacts ==
  ASSUME PoolInvariant, NEW t \in Thread, pc[t] = "awake", LeaveLoop(t),
         UNCHANGED <<signal, listener>>
  PROVE  /\ pc' \in [Thread -> WaitingPcs \cup {"idle", "leave"}]
         /\ ticket' \in [Thread -> [waiter : Waiter \cup {None}, nonce : 0..MaxNonce]]
         /\ pc[t] \in WaitingPcs /\ pc'[t] \notin WaitingPcs
         /\ pc'[t] = "idle" => signal[t] = "none"
         /\ pc'[t] # "listen"
         /\ listener[t] # "unset" => ticket'[t].waiter \in Waiter
         /\ \A u \in Thread \ {t} : pc'[u] = pc[u] /\ ticket'[u] = ticket[u]
<1> USE PoolAssumption DEF PoolInvariant
<1>1. NoTicket \in [waiter : Waiter \cup {None}, nonce : 0..MaxNonce]
  BY DEF NoTicket
<1>2. /\ pc \in [Thread -> WaitingPcs \cup {"idle", "leave"}]
      /\ ticket \in [Thread -> [waiter : Waiter \cup {None}, nonce : 0..MaxNonce]]
  BY DEF TypeOK
<1>3. listener[t] # "unset" => signal[t] # "none" /\ ticket[t].waiter \in Waiter
  BY DEF WaitersInUse
<1>4. pc[t] \in WaitingPcs /\ "idle" \notin WaitingPcs /\ "leave" \notin WaitingPcs
  BY DEF WaitingPcs
<1>5. CASE signal[t] = "none"
  <2>1. /\ pc' = [pc EXCEPT ![t] = "idle"]
        /\ ticket' = [ticket EXCEPT ![t] = NoTicket]
    BY <1>5 DEF LeaveLoop
  <2> HIDE DEF PoolInvariant
  <2> QED BY <1>1, <1>2, <1>3, <1>4, <1>5, <2>1
<1>6. CASE signal[t] # "none"
  <2>1. pc' = [pc EXCEPT ![t] = "leave"] /\ ticket' = ticket
    BY <1>6 DEF LeaveLoop
  <2> HIDE DEF PoolInvariant
  <2> QED BY <1>2, <1>3, <1>4, <1>6, <2>1
<1> QED BY <1>5, <1>6

\* A wait that ends because the pool is closed (681) preserves the invariant.
LEMMA CheckClosedStep ==
  ASSUME PoolInvariant, NEW t \in Thread, CheckClosed(t)
  PROVE  PoolInvariant'
<1> USE DEF PoolInvariant
<1> DEFINE g == {waiter[ticket[t].waiter].assigned} \ {None}
<1>1. /\ pc[t] = "awake" /\ LeaveLoop(t) /\ LockFree /\ ~isOpen
      /\ garbage' = garbage \cup g
      /\ UNCHANGED <<poolVars, availVars, acquired, connectionLeaked, connVars,
                     waitVars, wake, hold, cancelVars>>
  BY DEF CheckClosed, NotClosed
<1>2. /\ pc' \in [Thread -> WaitingPcs \cup {"idle", "leave"}]
      /\ ticket' \in [Thread -> [waiter : Waiter \cup {None}, nonce : 0..MaxNonce]]
      /\ pc[t] \in WaitingPcs /\ pc'[t] \notin WaitingPcs
      /\ pc'[t] = "idle" => signal[t] = "none"
      /\ pc'[t] # "listen"
      /\ listener[t] # "unset" => ticket'[t].waiter \in Waiter
      /\ \A u \in Thread \ {t} : pc'[u] = pc[u] /\ ticket'[u] = ticket[u]
  BY <1>1, LeaveLoopFacts DEF cancelVars
<1>3. /\ g = Possession(t) /\ g \in SUBSET Conn
      /\ hold[t] = None
  <2>1. hold[t] = None /\ waiter[ticket[t].waiter] \in ConnectionWaiter
    BY <1>2 DEF WaitersInUse, TypeOK
  <2>2. g \in SUBSET Conn
    BY <2>1 DEF ConnectionWaiter
  <2>3. AssignedTo(t) = waiter[ticket[t].waiter].assigned
    BY <1>2 DEF AssignedTo
  <2> QED BY <2>1, <2>2, <2>3 DEF Possession
<1> HIDE DEF g
<1>4. TypeOK'
  BY <1>1, <1>2, <1>3 DEF TypeOK, poolVars, availVars, connVars, waitVars,
                          cancelVars, MaxPoolSizeFor
<1>5. WaitersInUse'
  BY <1>1, <1>2 DEF WaitersInUse, waitVars, cancelVars, NotWaking
<1>6. ClosedDrains'
  BY <1>1, DrainFrame DEF poolVars, waitVars
<1>7. QueueInOrder'
  <2>1. waiterQueue = <<>> /\ waiterQueue' = <<>>
    BY <1>1 DEF ClosedDrains, waitVars
  <2> QED BY <2>1 DEF QueueInOrder, Range
<1>8. ExclusiveOwnership'
  <2>1. Possession(t)' = {} /\ AssignedTo(t)' = None
    BY <1>1, <1>2, <1>3 DEF Possession, AssignedTo
  <2>2. \A u \in Thread \ {t} : /\ AssignedTo(u)' = AssignedTo(u)
                                /\ Possession(u)' = Possession(u)
    BY <1>1, <1>2 DEF Possession, AssignedTo, waitVars
  <2>3. /\ AcquiredConns' = AcquiredConns /\ AvailableConns' = AvailableConns
        /\ live' = live /\ hold' = hold
        /\ availVars' = availVars
    BY <1>1 DEF AcquiredConns, AvailableConns, availVars, connVars
  <2> QED BY <1>1, <1>3, <2>1, <2>2, <2>3 DEF ExclusiveOwnership, availVars
<1>9. SinglePrimary'
  BY <1>1, PrimaryFrame DEF connVars
<1> QED BY <1>4, <1>5, <1>6, <1>7, <1>8, <1>9

\* A wait that ends with a connection or an exception (684-693) preserves the invariant.
LEMMA CheckDoneStep ==
  ASSUME PoolInvariant, NEW t \in Thread, CheckDone(t)
  PROVE  PoolInvariant'
<1> USE DEF PoolInvariant
<1> DEFINE x == waiter[ticket[t].waiter].assigned
<1>1. /\ pc[t] = "awake" /\ LeaveLoop(t) /\ LockFree
      /\ hold' = [hold EXCEPT ![t] = x]
      /\ UNCHANGED <<poolVars, availVars, acquired, connectionLeaked, connVars,
                     garbage, waiterQueue, permits, wake, cancelVars>>
  BY DEF CheckDone
<1>2. /\ pc' \in [Thread -> WaitingPcs \cup {"idle", "leave"}]
      /\ ticket' \in [Thread -> [waiter : Waiter \cup {None}, nonce : 0..MaxNonce]]
      /\ pc[t] \in WaitingPcs /\ pc'[t] \notin WaitingPcs
      /\ pc'[t] = "idle" => signal[t] = "none"
      /\ pc'[t] # "listen"
      /\ listener[t] # "unset" => ticket'[t].waiter \in Waiter
      /\ \A u \in Thread \ {t} : pc'[u] = pc[u] /\ ticket'[u] = ticket[u]
  BY <1>1, LeaveLoopFacts DEF cancelVars
<1>3. PICK w \in Waiter :
        /\ w = ticket[t].waiter /\ waiter[w].thread = t
        /\ x = waiter[w].assigned /\ waiter[w] \in ConnectionWaiter
        /\ x # None \/ waiter[w].exception # "none"
        /\ waiter' = [waiter EXCEPT ![w] = Recycled(w)]
  BY <1>2 DEF CheckDone, WaitersInUse, TypeOK
<1>4. x \in Conn \cup {None} /\ x = AssignedTo(t) /\ hold[t] = None
  BY <1>2, <1>3 DEF ConnectionWaiter, AssignedTo, WaitersInUse
<1> HIDE DEF x
<1>5. /\ waiter' \in [Waiter -> ConnectionWaiter]
      /\ \A v \in Waiter \ {w} : waiter'[v] = waiter[v]
      /\ waiter'[w].thread = None /\ waiter'[w].assigned = None
      /\ waiter'[w].exception = "none"
  <2>1. waiter \in [Waiter -> ConnectionWaiter]
    BY DEF TypeOK
  <2> QED BY <2>1, <1>3, RecycledFields
<1>6. \A u \in Thread \ {t} : pc[u] \in WaitingPcs => ticket[u].waiter \in Waiter \ {w}
  BY <1>3 DEF WaitersInUse
<1>7. TypeOK'
  BY <1>1, <1>2, <1>4, <1>5 DEF TypeOK, poolVars, availVars, connVars,
                                cancelVars, MaxPoolSizeFor
<1>8. WaitersInUse'
  <2>1. \A u \in Thread \ {t} : hold'[u] = hold[u]
    BY <1>1 DEF TypeOK
  <2>2. ASSUME NEW u \in Thread
        PROVE  /\ pc'[u] \in WaitingPcs => /\ ticket'[u].waiter \in Waiter
                                           /\ waiter'[ticket'[u].waiter].thread = u
                                           /\ hold'[u] = None
               /\ listener'[u] # "unset" =>
                    signal'[u] # "none" /\ ticket'[u].waiter \in Waiter
               /\ pc'[u] = "idle" => signal'[u] = "none"
               /\ pc'[u] = "listen" => signal'[u] # "none"
    BY <1>1, <1>2, <1>5, <1>6, <2>1 DEF WaitersInUse, cancelVars
  <2>3. \A v \in Waiter : waiter'[v].thread = None =>
          waiter'[v].assigned = None /\ waiter'[v].exception = "none"
    BY <1>5 DEF WaitersInUse
  <2> QED BY <1>1, <2>2, <2>3 DEF WaitersInUse, NotWaking
<1>9. ClosedDrains'
  BY <1>1, DrainFrame DEF poolVars
<1>10. QueueInOrder'
  <2>1. \A v \in Range(waiterQueue) : v \in Waiter /\ v # w
    BY <1>3, QueuedWaiter
  <2>2. \A j \in DOMAIN waiterQueue : waiterQueue[j] \in Range(waiterQueue)
    BY DEF Range
  <2>3. \A v \in Range(waiterQueue) : waiter'[v] = waiter[v]
    BY <2>1, <1>5
  <2>4. ASSUME NEW v \in Range(waiterQueue)
        PROVE  \E u \in Thread : /\ pc'[u] \in WaitingPcs
                                 /\ ticket'[u] = [waiter |-> v, nonce |-> waiter'[v].nonce]
                                 /\ waiter'[v].thread = u
    <3>1. PICK u \in Thread : /\ pc[u] \in WaitingPcs
                              /\ ticket[u] = [waiter |-> v, nonce |-> waiter[v].nonce]
                              /\ waiter[v].thread = u
      BY DEF QueueInOrder
    <3>2. u # t
      BY <3>1, <2>1, <1>3
    <3> QED BY <3>1, <3>2, <2>3, <1>2
  <2> QED BY <1>1, <2>2, <2>3, <2>4 DEF QueueInOrder
<1>11. ExclusiveOwnership'
  <2>1. /\ hold'[t] = AssignedTo(t) /\ AssignedTo(t)' = None
        /\ \A u \in Thread \ {t} : /\ AssignedTo(u)' = AssignedTo(u)
                                   /\ hold'[u] = hold[u]
    BY <1>1, <1>2, <1>4, <1>5, <1>6 DEF AssignedTo, TypeOK
  <2>2. \A u \in Thread : Possession(u)' = Possession(u)
    BY <2>1, <1>4 DEF Possession
  <2>3. /\ AcquiredConns' = AcquiredConns /\ AvailableConns' = AvailableConns
        /\ live' = live /\ availVars' = availVars /\ garbage' = garbage
    BY <1>1 DEF AcquiredConns, AvailableConns, availVars, connVars
  <2> QED BY <2>1, <2>2, <2>3 DEF ExclusiveOwnership, availVars
<1>12. SinglePrimary'
  BY <1>1, PrimaryFrame DEF connVars
<1> QED BY <1>7, <1>8, <1>9, <1>10, <1>11, <1>12

-----------------------------------------------------------------------------
(* Giving a connection back.                                               *)

\* What every branch of releaseConnection begins with.
LEMMA GiveBackFacts ==
  ASSUME PoolInvariant, NEW t \in Thread, NEW c \in Conn, GiveBack(t, c)
  PROVE  /\ LockFree
         /\ c \in AcquiredConns /\ c \in live /\ c \in Possession(t)
         /\ c \notin AvailableConns /\ c \notin garbage
         /\ acquired' \in [Conn -> {"none", "normal", "reconfigure", "discard"}]
         /\ acquired'[c] = "none"
         /\ \A d \in Conn \ {c} : acquired'[d] = acquired[d]
         /\ AcquiredConns' = AcquiredConns \ {c}
         /\ hold' \in [Thread -> Conn \cup {None}]
         /\ \A u \in Thread : pc[u] \in WaitingPcs => hold'[u] = None
         /\ \A u \in Thread : AssignedTo(u)' = AssignedTo(u)
         /\ Possession(t)' = {} /\ AssignedTo(t)' = None /\ hold'[t] = None
         /\ \A u \in Thread \ {t} : Possession(u)' = Possession(u) /\ hold'[u] = hold[u]
<1> USE PoolAssumption DEF PoolInvariant
<1>1. /\ pc[t] = "idle" /\ c = hold[t] /\ c # None /\ LockFree
      /\ hold' = [hold EXCEPT ![t] = None]
      /\ acquired' = [acquired EXCEPT ![c] = "none"]
      /\ UNCHANGED <<poolVars, connectionLeaked, primary, garbage, waitVars, pc,
                     ticket, cancelVars>>
  BY DEF GiveBack
<1>2. c \in Possession(t)
  BY <1>1 DEF Possession
<1>3. /\ c \in AcquiredConns /\ c \in live
      /\ c \notin AvailableConns /\ c \notin garbage
  BY <1>2 DEF ExclusiveOwnership
<1>4. /\ acquired' \in [Conn -> {"none", "normal", "reconfigure", "discard"}]
      /\ acquired'[c] = "none"
      /\ \A d \in Conn \ {c} : acquired'[d] = acquired[d]
      /\ hold' \in [Thread -> Conn \cup {None}]
      /\ hold'[t] = None /\ \A u \in Thread \ {t} : hold'[u] = hold[u]
  BY <1>1 DEF TypeOK
<1>5. AcquiredConns' = AcquiredConns \ {c}
  BY <1>4 DEF AcquiredConns
<1>6. \A u \in Thread : AssignedTo(u)' = AssignedTo(u)
  BY <1>1 DEF AssignedTo, waitVars
<1>7. AssignedTo(t)' = None
  BY <1>1 DEF AssignedTo, WaitingPcs, waitVars
<1>8. Possession(t)' = {}
  BY <1>4, <1>7 DEF Possession
<1>9. \A u \in Thread \ {t} : Possession(u)' = Possession(u)
  BY <1>4, <1>6 DEF Possession
<1>10. \A u \in Thread : pc[u] \in WaitingPcs => hold'[u] = None
  BY <1>4 DEF WaitersInUse
<1> QED BY <1>1, <1>2, <1>3, <1>4, <1>5, <1>6, <1>7, <1>8, <1>9, <1>10

\* The connection is closed, or the pool has it again.
LEMMA TakenBack ==
  ASSUME PoolInvariant, NEW t \in Thread, NEW c \in Conn, GiveBack(t, c),
         \/ live' = live \ {c} /\ AvailableConns' = AvailableConns
         \/ live' = live /\ AvailableConns' = AvailableConns \cup {c},
         availablePrimary' \notin availableNonPrimary'
  PROVE  ExclusiveOwnership'
<1> USE DEF PoolInvariant
<1>1. garbage' = garbage
  BY DEF GiveBack
<1>2. \A u \in Thread \ {t} : c \notin Possession(u)
  BY GiveBackFacts DEF ExclusiveOwnership
<1>3. \A u \in Thread : AssignedTo(u)' = AssignedTo(u)
  BY GiveBackFacts
<1>4. /\ \A u, v \in Thread : u # v => Possession(u)' \cap Possession(v)' = {}
      /\ \A u \in Thread :
           /\ hold'[u] = None \/ AssignedTo(u)' = None
           /\ Possession(u)' \subseteq AcquiredConns'
           /\ Possession(u)' \cap garbage' = {}
  BY <1>1, <1>2, GiveBackFacts DEF ExclusiveOwnership
<1>5. AvailableConns' \cap (AcquiredConns' \cup garbage') = {}
  BY <1>1, GiveBackFacts DEF ExclusiveOwnership
<1>6. ASSUME NEW d \in Conn, d # c
      PROVE  /\ (\E u \in Thread : d \in Possession(u)') <=>
                (\E u \in Thread : d \in Possession(u))
             /\ d \in AcquiredConns' <=> d \in AcquiredConns
             /\ d \in AvailableConns' <=> d \in AvailableConns
             /\ d \in live' <=> d \in live
  <2>1. \A u \in Thread : d \in Possession(u)' <=> d \in Possession(u)
    <3>1. Possession(t) = {c}
      BY GiveBackFacts DEF ExclusiveOwnership, Possession
    <3> QED BY <1>6, <3>1, GiveBackFacts
  <2> QED BY <1>6, <2>1, GiveBackFacts
<1>7. /\ c \notin garbage' /\ c \notin AcquiredConns'
      /\ \A u \in Thread : c \notin Possession(u)'
      /\ c \in live' <=> c \in AvailableConns'
  BY <1>1, <1>2, GiveBackFacts
<1>8. \A d \in Conn :
        LET owned == \E u \in Thread : d \in Possession(u)'
        IN  /\ d \in live' <=> d \in AvailableConns' \/ d \in garbage' \/ owned
            /\ d \in AcquiredConns' => d \in garbage' \/ owned
  BY <1>1, <1>6, <1>7 DEF ExclusiveOwnership
<1> QED BY <1>4, <1>5, <1>8 DEF ExclusiveOwnership

\* What is left to show of each branch of releaseConnection.
LEMMA AfterRelease ==
  ASSUME PoolInvariant, NEW t \in Thread, NEW c \in Conn, GiveBack(t, c),
         \/ live' = live \ {c} /\ AvailableConns' = AvailableConns
         \/ live' = live /\ AvailableConns' = AvailableConns \cup {c},
         availablePrimary' \in Conn \cup {None},
         availableNonPrimary' \in SUBSET Conn,
         availablePrimary' \notin availableNonPrimary',
         configOf' \in [Conn -> Configs],
         SinglePrimary',
         UNCHANGED wake \/ StartWake(waiterQueue)
  PROVE  PoolInvariant'
<1> USE DEF PoolInvariant
<1>1. /\ LockFree
      /\ UNCHANGED <<poolVars, connectionLeaked, primary, garbage, waitVars, pc,
                     ticket, cancelVars>>
  BY DEF GiveBack
<1>2. /\ wake' \in [at : Nat, noPrimary : BOOLEAN, noNonPrimary : BOOLEAN]
      /\ wake' = NotWaking \/ wake'.at \in 1 .. Len(waiterQueue)
  BY <1>1, StartWakeFacts DEF TypeOK, LockFree
<1>3. TypeOK'
  <2>1. live' \in SUBSET Conn
    BY DEF TypeOK
  <2>2. /\ acquired' \in [Conn -> {"none", "normal", "reconfigure", "discard"}]
        /\ hold' \in [Thread -> Conn \cup {None}]
    BY GiveBackFacts
  <2> QED BY <1>1, <1>2, <2>1, <2>2
          DEF TypeOK, poolVars, waitVars, cancelVars, MaxPoolSizeFor
<1>4. WaitersInUse'
  <2>1. \A u \in Thread : pc[u] \in WaitingPcs => hold'[u] = None
    BY GiveBackFacts
  <2> QED BY <1>1, <1>2, <2>1 DEF WaitersInUse, waitVars, cancelVars, NotWaking
<1>5. ClosedDrains'
  BY <1>1, DrainFrame, DrainStart DEF poolVars, waitVars
<1>6. QueueInOrder'
  BY <1>1, QueueFrame DEF waitVars
<1>7. ExclusiveOwnership'
  BY TakenBack
<1> QED BY <1>3, <1>4, <1>5, <1>6, <1>7

\* What recycleConnectionLocked does to the connection: it is kept or closed,
\* and what is to be discarded is not kept.
LEMMA RecycleConnectionFacts ==
  ASSUME PoolInvariant, NEW c \in Conn, NEW recycled \in BOOLEAN,
         RecycleConnection(c, recycled)
  PROVE  /\ recycled => live' = live /\ acquired[c] # "discard"
         /\ ~recycled => live' = live \ {c}
         /\ configOf' \in [Conn -> Configs]
<1>1. configuration \in Configs /\ configOf \in [Conn -> Configs]
  BY DEF PoolInvariant, TypeOK
<1> QED BY <1>1 DEF RecycleConnection

\* Giving a connection back (367-393) preserves the invariant.
LEMMA ReleaseStep ==
  ASSUME PoolInvariant, NEW t \in Thread, Release(t)
  PROVE  PoolInvariant'
<1> USE PoolAssumption
<1>0. /\ availablePrimary \in Conn \cup {None}
      /\ availableNonPrimary \in SUBSET Conn
      /\ availablePrimary \notin availableNonPrimary
      /\ configOf \in [Conn -> Configs]
      /\ AvailableConns \subseteq Conn /\ AcquiredConns \subseteq Conn
  BY DEF PoolInvariant, TypeOK, ExclusiveOwnership, AvailableConns, AcquiredConns
<1>2. ASSUME NEW c \in Conn, GiveBack(t, c), UNCHANGED availVars
      PROVE  SinglePrimary'
  <2>1. primary' = primary
    BY <1>2 DEF GiveBack
  <2>2. /\ AvailableConns' = AvailableConns /\ AcquiredConns' = AcquiredConns \ {c}
        /\ c \notin AvailableConns
        /\ \A d \in Conn \ {c} : acquired'[d] = acquired[d]
    BY <1>2, GiveBackFacts DEF AvailableConns, availVars
  <2> QED BY <1>0, <1>2, <2>1, <2>2 DEF PoolInvariant, SinglePrimary, availVars
<1>3. CASE ReleaseClosed(t)
  <2>1. PICK c \in Conn : /\ GiveBack(t, c)
                          /\ live' = live \ {c}
                          /\ UNCHANGED <<configOf, availVars, wake>>
    BY <1>3 DEF ReleaseClosed
  <2>2. AvailableConns' = AvailableConns
    BY <2>1 DEF AvailableConns, availVars
  <2> QED BY <1>0, <1>2, <2>1, <2>2, AfterRelease DEF availVars
<1>4. CASE ReleaseExcess(t)
  <2>1. PICK c \in Conn : /\ GiveBack(t, c)
                          /\ live' = live \ {c}
                          /\ UNCHANGED <<configOf, availVars, wake>>
    BY <1>4 DEF ReleaseExcess
  <2>2. AvailableConns' = AvailableConns
    BY <2>1 DEF AvailableConns, availVars
  <2> QED BY <1>0, <1>2, <2>1, <2>2, AfterRelease DEF availVars
<1>5. CASE ReleaseNonPrimary(t)
  <2>1. PICK c \in Conn, recycled \in BOOLEAN :
          /\ GiveBack(t, c) /\ c \notin primary
          /\ RecycleConnection(c, recycled)
          /\ availableNonPrimary' = IF recycled THEN availableNonPrimary \cup {c}
                                                ELSE availableNonPrimary
          /\ StartWake(waiterQueue)
          /\ UNCHANGED availablePrimary
    BY <1>5 DEF ReleaseNonPrimary
  <2>2. /\ recycled => live' = live
        /\ ~recycled => live' = live \ {c}
        /\ configOf' \in [Conn -> Configs]
    BY <2>1, RecycleConnectionFacts
  <2>3. c \notin AvailableConns /\ AcquiredConns' = AcquiredConns \ {c} /\ primary' = primary
    BY <2>1, GiveBackFacts DEF GiveBack
  <2>4. CASE ~recycled
    <3>1. UNCHANGED availVars /\ AvailableConns' = AvailableConns
      BY <2>1, <2>4 DEF availVars, AvailableConns
    <3> QED BY <1>0, <1>2, <2>1, <2>2, <2>4, <3>1, AfterRelease DEF availVars
  <2>5. CASE recycled
    <3>1. /\ AvailableConns' = AvailableConns \cup {c}
          /\ availableNonPrimary' = availableNonPrimary \cup {c}
          /\ availablePrimary' \notin availableNonPrimary'
      BY <1>0, <2>1, <2>3, <2>5 DEF AvailableConns
    <3>2. \A d \in Conn \ {c} : acquired'[d] = acquired[d]
      BY <2>1, GiveBackFacts
    <3>3. SinglePrimary'
      BY <1>0, <2>1, <2>3, <3>1, <3>2 DEF PoolInvariant, SinglePrimary
    <3> QED BY <1>0, <2>1, <2>2, <2>5, <3>1, <3>3, AfterRelease
  <2> QED BY <2>4, <2>5
<1>6. CASE ReleasePrimary(t)
  <2>1. PICK c \in Conn, recycled \in BOOLEAN :
          /\ GiveBack(t, c) /\ c \in primary
          /\ RecycleConnection(c, recycled)
          /\ availablePrimary' = IF recycled THEN c ELSE availablePrimary
          /\ StartWake(waiterQueue)
          /\ UNCHANGED availableNonPrimary
    BY <1>6 DEF ReleasePrimary
  <2>2. /\ recycled => live' = live /\ acquired[c] # "discard"
        /\ ~recycled => live' = live \ {c}
        /\ configOf' \in [Conn -> Configs]
    BY <2>1, RecycleConnectionFacts
  <2>3. /\ c \in AcquiredConns /\ c \notin AvailableConns
        /\ AcquiredConns' = AcquiredConns \ {c} /\ primary' = primary
        /\ acquired'[c] = "none"
        /\ \A d \in Conn \ {c} : acquired'[d] = acquired[d]
    BY <2>1, GiveBackFacts DEF GiveBack
  <2>4. CASE ~recycled
    <3>1. UNCHANGED availVars /\ AvailableConns' = AvailableConns
      BY <2>1, <2>4 DEF availVars, AvailableConns
    <3> QED BY <1>0, <1>2, <2>1, <2>2, <2>4, <3>1, AfterRelease DEF availVars
  <2>5. CASE recycled
    <3>1. \A d \in primary \cap (AvailableConns \cup AcquiredConns) :
            acquired[d] # "discard" => d = c
      BY <2>1, <2>2, <2>3, <2>5 DEF PoolInvariant, SinglePrimary
    <3>2. availablePrimary = None
      <4>1. SUFFICES ASSUME availablePrimary # None PROVE FALSE
        OBVIOUS
      <4>2. availablePrimary \in AvailableConns /\ availablePrimary \in primary
        BY <4>1 DEF AvailableConns, PoolInvariant, SinglePrimary
      <4>3. availablePrimary \notin AcquiredConns
        BY <4>2 DEF PoolInvariant, ExclusiveOwnership
      <4>4. acquired[availablePrimary] = "none"
        BY <1>0, <4>1, <4>3 DEF AcquiredConns
      <4> QED BY <2>3, <3>1, <4>2, <4>4
    <3>3. /\ AvailableConns' = AvailableConns \cup {c}
          /\ availablePrimary' = c
          /\ availablePrimary' \notin availableNonPrimary'
      BY <1>0, <2>1, <2>3, <2>5, <3>2 DEF AvailableConns
    <3>4. SinglePrimary'
      BY <1>0, <2>1, <2>3, <3>1, <3>3 DEF PoolInvariant, SinglePrimary
    <3> QED BY <1>0, <2>1, <2>2, <2>5, <3>3, <3>4, AfterRelease
  <2> QED BY <2>4, <2>5
<1> QED BY <1>3, <1>4, <1>5, <1>6 DEF Release

-----------------------------------------------------------------------------
(* close and reconfigure.                                                  *)

\* What is left to show of a step under the lock that closes or replaces
\* available connections and leaves the sessions theirs.
LEMMA PoolChange ==
  ASSUME PoolInvariant, LockFree,
         UNCHANGED <<connectionLeaked, garbage, waitVars, threadVars, cancelVars>>,
         isOpen' \in BOOLEAN,
         configuration' \in Configs, maxPoolSize' = MaxPoolSizeFor(configuration'),
         AcquiredConns' = AcquiredConns,
         acquired' \in [Conn -> {"none", "normal", "reconfigure", "discard"}],
         availablePrimary' \in Conn \cup {None},
         availableNonPrimary' \in SUBSET Conn,
         availablePrimary' \notin availableNonPrimary',
         live' = (live \ AvailableConns) \cup AvailableConns',
         AvailableConns' \cap (live \ AvailableConns) = {},
         primary' \in SUBSET Conn, configOf' \in [Conn -> Configs],
         SinglePrimary',
         \/ StartWake(waiterQueue)
         \/ UNCHANGED <<isOpen, wake>>
  PROVE  PoolInvariant'
<1> USE DEF PoolInvariant
<1>1. /\ wake' \in [at : Nat, noPrimary : BOOLEAN, noNonPrimary : BOOLEAN]
      /\ wake' = NotWaking \/ wake'.at \in 1 .. Len(waiterQueue)
  BY StartWakeFacts DEF TypeOK, LockFree
<1>2. AvailableConns' \in SUBSET Conn
  BY DEF AvailableConns
<1>3. TypeOK'
  BY <1>1, <1>2 DEF TypeOK, waitVars, threadVars, cancelVars, MaxPoolSizeFor
<1>4. WaitersInUse'
  BY <1>1 DEF WaitersInUse, waitVars, threadVars, cancelVars, NotWaking
<1>5. ClosedDrains'
  <2>1. CASE UNCHANGED <<isOpen, wake>>
    BY <2>1, DrainFrame DEF waitVars
  <2>2. CASE StartWake(waiterQueue)
    <3>1. waiterQueue' = waiterQueue
      BY DEF waitVars
    <3>2. CASE waiterQueue = <<>>
      BY <2>2, <3>1, <3>2 DEF StartWake, ClosedDrains, LockFree
    <3>3. CASE waiterQueue # <<>>
      <4>1. wake' = [NotWaking EXCEPT !.at = 1]
        BY <2>2, <3>3 DEF StartWake
      <4>2. wake'.at = 1 /\ NotWaking.at = 0
        BY <4>1 DEF NotWaking
      <4> QED BY <4>2 DEF ClosedDrains, LockFree
    <3> QED BY <3>2, <3>3
  <2> QED BY <2>1, <2>2
<1>6. QueueInOrder'
  BY QueueFrame DEF waitVars, threadVars
<1>7. \A u \in Thread : /\ AssignedTo(u)' = AssignedTo(u)
                        /\ Possession(u)' = Possession(u) /\ hold'[u] = hold[u]
  BY DEF AssignedTo, Possession, waitVars, threadVars
<1>8. ExclusiveOwnership'
  <2>1. /\ \A u, v \in Thread : u # v => Possession(u)' \cap Possession(v)' = {}
        /\ \A u \in Thread :
             /\ hold'[u] = None \/ AssignedTo(u)' = None
             /\ Possession(u)' \subseteq AcquiredConns'
             /\ Possession(u)' \cap garbage' = {}
    BY <1>7 DEF ExclusiveOwnership
  <2>2. ASSUME NEW d \in Conn
        PROVE  LET owned == \E u \in Thread : d \in Possession(u)'
               IN  /\ d \in live' <=> d \in AvailableConns' \/ d \in garbage' \/ owned
                   /\ d \in AcquiredConns' => d \in garbage' \/ owned
    <3> DEFINE theirs == d \in garbage \/ \E u \in Thread : d \in Possession(u)
    <3>1. theirs <=> d \in garbage' \/ \E u \in Thread : d \in Possession(u)'
      BY <1>7
    <3>2. /\ d \in live <=> d \in AvailableConns \/ theirs
          /\ d \in AcquiredConns => theirs
          /\ theirs => d \notin AvailableConns
      BY DEF ExclusiveOwnership
    <3> HIDE DEF theirs
    <3> QED BY <3>1, <3>2
  <2>3. AvailableConns' \cap (AcquiredConns' \cup garbage') = {}
    <3>1. \A d \in AcquiredConns \cup garbage : d \in Conn /\ d \in live \ AvailableConns
      BY DEF ExclusiveOwnership, TypeOK, AcquiredConns
    <3> QED BY <3>1
  <2> QED BY <2>1, <2>2, <2>3 DEF ExclusiveOwnership
<1> QED BY <1>3, <1>4, <1>5, <1>6, <1>8

\* Closing the pool (208-243) preserves the invariant.
LEMMA CloseStep ==
  ASSUME PoolInvariant, Close
  PROVE  PoolInvariant'
<1> USE PoolAssumption
<1>1. /\ LockFree /\ isOpen' = FALSE
      /\ live' = live \ AvailableConns
      /\ availablePrimary' = None /\ availableNonPrimary' = {}
      /\ StartWake(waiterQueue)
      /\ UNCHANGED <<configuration, maxPoolSize, acquired, connectionLeaked, primary,
                     configOf, garbage, waitVars, threadVars, cancelVars>>
  BY DEF Close
<1>2. AvailableConns' = {} /\ AcquiredConns' = AcquiredConns
  BY <1>1 DEF AvailableConns, AcquiredConns
<1>3. SinglePrimary'
  BY <1>1, <1>2 DEF PoolInvariant, SinglePrimary
<1>4. /\ configuration' \in Configs /\ maxPoolSize' = MaxPoolSizeFor(configuration')
      /\ acquired' \in [Conn -> {"none", "normal", "reconfigure", "discard"}]
      /\ primary' \in SUBSET Conn /\ configOf' \in [Conn -> Configs]
  BY <1>1 DEF PoolInvariant, TypeOK, MaxPoolSizeFor
<1> QED BY <1>1, <1>2, <1>3, <1>4, PoolChange

\* A refused or failed reconfiguration (258-330) preserves the invariant.
LEMMA ReconfigureFailsStep ==
  ASSUME PoolInvariant, NEW k \in Configs, ReconfigureFails(k)
  PROVE  PoolInvariant'
<1> USE PoolAssumption
<1>1. /\ LockFree
      /\ live' = live \ AvailableConns
      /\ availablePrimary' = None /\ availableNonPrimary' = {}
      /\ UNCHANGED <<isOpen, configuration, maxPoolSize, acquired, connectionLeaked,
                     primary, configOf, garbage, waitVars, threadVars, cancelVars, wake>>
  BY DEF ReconfigureFails, MayReconfigure
<1>2. AvailableConns' = {} /\ AcquiredConns' = AcquiredConns
  BY <1>1 DEF AvailableConns, AcquiredConns
<1>3. SinglePrimary'
  BY <1>1, <1>2 DEF PoolInvariant, SinglePrimary
<1>4. /\ configuration' \in Configs /\ maxPoolSize' = MaxPoolSizeFor(configuration')
      /\ acquired' \in [Conn -> {"none", "normal", "reconfigure", "discard"}]
      /\ primary' \in SUBSET Conn /\ configOf' \in [Conn -> Configs]
      /\ isOpen' \in BOOLEAN
  BY <1>1 DEF PoolInvariant, TypeOK, MaxPoolSizeFor
<1> QED BY <1>1, <1>2, <1>3, <1>4, PoolChange

\* Marking the acquired connections (575-592) changes only how they are
\* marked, or fails: none is added and none is removed.
LEMMA MarkAcquiredFacts ==
  ASSUME PoolInvariant, NEW s \in {"reconfigure", "discard"}, MarkAcquired(s)
  PROVE  /\ acquired' \in [Conn -> {"none", "normal", "reconfigure", "discard"}]
         /\ AcquiredConns' = AcquiredConns
         /\ \A c \in Conn : acquired[c] = "discard" => acquired'[c] = "discard"
         /\ s = "discard" => \A c \in AcquiredConns : acquired'[c] = "discard"
BY DEF PoolInvariant, TypeOK, MarkAcquired, AcquiredConns

\* A reconfiguration that keeps the connections (309-327) preserves the invariant.
LEMMA ReconfigureInPlaceStep ==
  ASSUME PoolInvariant, NEW k \in Configs, ReconfigureInPlace(k)
  PROVE  PoolInvariant'
<1> USE PoolAssumption
<1>1. PICK kept \in SUBSET availableNonPrimary, failed \in SUBSET AvailableConns :
        /\ availableNonPrimary' = kept \ failed
        /\ availablePrimary' = IF availablePrimary \in failed THEN None
                                                              ELSE availablePrimary
        /\ live' = live \ ((availableNonPrimary \ kept) \cup failed)
  BY DEF ReconfigureInPlace
<1>2. /\ LockFree
      /\ UNCHANGED <<isOpen, connectionLeaked, garbage, waitVars, threadVars, cancelVars>>
      /\ configuration' = k /\ maxPoolSize' = MaxPoolSizeFor(k)
      /\ configOf' = [c \in Conn |-> IF c \in AvailableConns THEN k ELSE configOf[c]]
      /\ MarkAcquired("reconfigure")
      /\ StartWake(waiterQueue)
      /\ primary' = primary
  BY DEF ReconfigureInPlace, MayReconfigure
<1>3. /\ acquired' \in [Conn -> {"none", "normal", "reconfigure", "discard"}]
      /\ AcquiredConns' = AcquiredConns
      /\ \A c \in Conn : acquired[c] = "discard" => acquired'[c] = "discard"
  BY <1>2, MarkAcquiredFacts
<1>4. /\ availablePrimary \in Conn \cup {None}
      /\ availableNonPrimary \in SUBSET Conn
      /\ availablePrimary \notin availableNonPrimary
      /\ configOf \in [Conn -> Configs] /\ isOpen' \in BOOLEAN
      /\ primary' \in SUBSET Conn
      /\ AvailableConns \subseteq live
      /\ AvailableConns \subseteq Conn /\ AcquiredConns \subseteq Conn
  BY <1>2 DEF PoolInvariant, TypeOK, ExclusiveOwnership, AvailableConns, AcquiredConns
<1>5. AvailableConns' = AvailableConns \ ((availableNonPrimary \ kept) \cup failed)
  BY <1>1, <1>4 DEF AvailableConns
<1>6. /\ availablePrimary' \in Conn \cup {None}
      /\ availableNonPrimary' \in SUBSET Conn
      /\ availablePrimary' \notin availableNonPrimary'
  BY <1>1, <1>4
<1>7. /\ live' = (live \ AvailableConns) \cup AvailableConns'
      /\ AvailableConns' \cap (live \ AvailableConns) = {}
  <2>1. (availableNonPrimary \ kept) \cup failed \subseteq AvailableConns
    BY DEF AvailableConns
  <2> QED BY <1>1, <1>4, <1>5, <2>1
<1>8. configOf' \in [Conn -> Configs]
  BY <1>2, <1>4
<1>9. SinglePrimary'
  <2>1. AvailableConns' \subseteq AvailableConns
    BY <1>5
  <2>2. \A c, d \in primary' \cap (AvailableConns' \cup AcquiredConns') :
          acquired'[c] # "discard" /\ acquired'[d] # "discard" => c = d
    BY <1>2, <1>3, <1>4, <2>1 DEF PoolInvariant, SinglePrimary
  <2>3. /\ {availablePrimary'} \ {None} \subseteq primary'
        /\ availableNonPrimary' \cap primary' = {}
    BY <1>1, <1>2 DEF PoolInvariant, SinglePrimary
  <2> QED BY <2>2, <2>3 DEF SinglePrimary
<1>10. configuration' \in Configs /\ maxPoolSize' = MaxPoolSizeFor(configuration')
  BY <1>2 DEF MaxPoolSizeFor
<1> QED BY <1>2, <1>3, <1>4, <1>6, <1>7, <1>8, <1>9, <1>10, PoolChange

\* A reconfiguration that opens a new primary (296-308) preserves the invariant.
LEMMA ReconfigureReopeningStep ==
  ASSUME PoolInvariant, NEW k \in Configs, ReconfigureReopening(k)
  PROVE  PoolInvariant'
<1> USE PoolAssumption
<1>1. PICK c \in Conn \ live :
        /\ live' = (live \ AvailableConns) \cup {c}
        /\ primary' = primary \cup {c}
        /\ configOf' = [configOf EXCEPT ![c] = k]
        /\ availablePrimary' = c
  BY DEF ReconfigureReopening
<1>2. /\ LockFree
      /\ UNCHANGED <<isOpen, connectionLeaked, garbage, waitVars, threadVars, cancelVars>>
      /\ configuration' = k /\ maxPoolSize' = MaxPoolSizeFor(k)
      /\ availableNonPrimary' = {}
      /\ MarkAcquired("discard")
      /\ StartWake(waiterQueue)
  BY DEF ReconfigureReopening, MayReconfigure
<1>3. /\ acquired' \in [Conn -> {"none", "normal", "reconfigure", "discard"}]
      /\ AcquiredConns' = AcquiredConns
      /\ \A d \in AcquiredConns : acquired'[d] = "discard"
  BY <1>2, MarkAcquiredFacts
<1>4. AvailableConns' = {c}
  BY <1>1, <1>2 DEF AvailableConns
<1>5. /\ configOf' \in [Conn -> Configs] /\ isOpen' \in BOOLEAN
      /\ primary' \in SUBSET Conn
  BY <1>1, <1>2 DEF PoolInvariant, TypeOK
<1>6. SinglePrimary'
  BY <1>1, <1>2, <1>3, <1>4 DEF SinglePrimary
<1>7. configuration' \in Configs /\ maxPoolSize' = MaxPoolSizeFor(configuration')
  BY <1>2 DEF MaxPoolSizeFor
<1>8. /\ live' = (live \ AvailableConns) \cup AvailableConns'
      /\ AvailableConns' \cap (live \ AvailableConns) = {}
      /\ availablePrimary' \in Conn \cup {None}
      /\ availableNonPrimary' \in SUBSET Conn
      /\ availablePrimary' \notin availableNonPrimary'
  BY <1>1, <1>2, <1>4
<1> QED BY <1>2, <1>3, <1>5, <1>6, <1>7, <1>8, PoolChange

-----------------------------------------------------------------------------
(* Leaks.                                                                  *)

\* Losing the last reference to an acquired connection preserves the invariant.
LEMMA LeakStep ==
  ASSUME PoolInvariant, NEW t \in Thread, Leak(t)
  PROVE  PoolInvariant'
<1> USE PoolAssumption DEF PoolInvariant
<1>1. /\ pc[t] = "idle" /\ hold[t] # None
      /\ garbage' = garbage \cup {hold[t]}
      /\ hold' = [hold EXCEPT ![t] = None]
      /\ UNCHANGED <<poolVars, availVars, acquired, connectionLeaked, connVars,
                     waitVars, wake, pc, ticket, cancelVars>>
  BY DEF Leak
<1>2. /\ hold[t] \in Conn
      /\ hold'[t] = None /\ \A u \in Thread \ {t} : hold'[u] = hold[u]
      /\ pc[t] \notin WaitingPcs
  BY <1>1 DEF TypeOK, WaitingPcs
<1>3. TypeOK'
  BY <1>1, <1>2 DEF TypeOK, poolVars, availVars, connVars, waitVars, cancelVars,
                    MaxPoolSizeFor
<1>4. WaitersInUse'
  BY <1>1, <1>2 DEF WaitersInUse, waitVars, cancelVars, NotWaking
<1>5. ClosedDrains'
  BY <1>1, DrainFrame DEF poolVars, waitVars
<1>6. QueueInOrder'
  BY <1>1, QueueFrame DEF waitVars
<1>7. ExclusiveOwnership'
  <2>1. /\ Possession(t)' = {} /\ Possession(t) = {hold[t]}
        /\ \A u \in Thread : AssignedTo(u)' = AssignedTo(u)
        /\ \A u \in Thread \ {t} : Possession(u)' = Possession(u)
    BY <1>1, <1>2 DEF AssignedTo, Possession, waitVars
  <2>2. /\ AcquiredConns' = AcquiredConns /\ AvailableConns' = AvailableConns
        /\ live' = live /\ availVars' = availVars
    BY <1>1 DEF AcquiredConns, AvailableConns, availVars, connVars
  <2> QED BY <1>1, <1>2, <2>1, <2>2 DEF ExclusiveOwnership, availVars
<1>8. SinglePrimary'
  BY <1>1, PrimaryFrame DEF connVars
<1> QED BY <1>3, <1>4, <1>5, <1>6, <1>7, <1>8

\* The collector clearing a weak entry (112-118) preserves the invariant.
LEMMA ClearWeakEntryStep ==
  ASSUME PoolInvariant, NEW c \in Conn, ClearWeakEntry(c)
  PROVE  PoolInvariant'
<1> USE DEF PoolInvariant
<1>1. /\ c \in garbage
      /\ acquired' = [acquired EXCEPT ![c] = "none"]
      /\ UNCHANGED <<poolVars, availVars, connectionLeaked, connVars, garbage,
                     waitVars, wake, threadVars, cancelVars>>
  BY DEF ClearWeakEntry
<1>2. TypeOK'
  BY <1>1 DEF TypeOK, poolVars, availVars, connVars, waitVars, threadVars,
              cancelVars, MaxPoolSizeFor
<1>3. WaitersInUse'
  BY <1>1 DEF WaitersInUse, waitVars, threadVars, cancelVars, NotWaking
<1>4. ClosedDrains'
  BY <1>1, DrainFrame DEF poolVars, waitVars
<1>5. QueueInOrder'
  BY <1>1, QueueFrame DEF waitVars, threadVars
<1>6. /\ AcquiredConns' = AcquiredConns \ {c} /\ AvailableConns' = AvailableConns
      /\ \A d \in Conn \ {c} : acquired'[d] = acquired[d]
      /\ live' = live /\ availVars' = availVars /\ primary' = primary
      /\ AvailableConns \subseteq Conn /\ AcquiredConns \subseteq Conn
      /\ c \notin AvailableConns
  BY <1>1, PoolAssumption DEF AcquiredConns, AvailableConns, availVars, connVars,
                              TypeOK, ExclusiveOwnership
<1>7. ExclusiveOwnership'
  <2>1. \A u \in Thread : /\ AssignedTo(u)' = AssignedTo(u) /\ hold'[u] = hold[u]
                          /\ Possession(u)' = Possession(u)
    BY <1>1 DEF AssignedTo, Possession, waitVars, threadVars
  <2> QED BY <1>1, <1>6, <2>1 DEF ExclusiveOwnership, availVars
<1>8. SinglePrimary'
  BY <1>6 DEF SinglePrimary, availVars
<1> QED BY <1>2, <1>3, <1>4, <1>5, <1>7, <1>8

\* The finalizer of a leaked connection (471-498) preserves the invariant.
LEMMA FinalizeStep ==
  ASSUME PoolInvariant, NEW c \in Conn, Finalize(c)
  PROVE  PoolInvariant'
<1> USE DEF PoolInvariant
<1>1. /\ c \in garbage /\ acquired[c] = "none"
      /\ connectionLeaked' = TRUE
      /\ live' = live \ {c} /\ garbage' = garbage \ {c}
      /\ UNCHANGED <<poolVars, availVars, acquired, primary, configOf, waitVars,
                     wake, threadVars, cancelVars>>
  BY DEF Finalize
<1>2. TypeOK'
  BY <1>1 DEF TypeOK, poolVars, availVars, waitVars, threadVars, cancelVars,
              MaxPoolSizeFor
<1>3. WaitersInUse'
  BY <1>1 DEF WaitersInUse, waitVars, threadVars, cancelVars, NotWaking
<1>4. ClosedDrains'
  BY <1>1, DrainFrame DEF poolVars, waitVars
<1>5. QueueInOrder'
  BY <1>1, QueueFrame DEF waitVars, threadVars
<1>6. /\ AcquiredConns' = AcquiredConns /\ AvailableConns' = AvailableConns
      /\ c \notin AcquiredConns /\ availVars' = availVars
  BY <1>1 DEF AcquiredConns, AvailableConns, availVars
<1>7. ExclusiveOwnership'
  <2>1. \A u \in Thread : /\ AssignedTo(u)' = AssignedTo(u) /\ hold'[u] = hold[u]
                          /\ Possession(u)' = Possession(u)
    BY <1>1 DEF AssignedTo, Possession, waitVars, threadVars
  <2> QED BY <1>1, <1>6, <2>1 DEF ExclusiveOwnership, availVars
<1>8. SinglePrimary'
  BY <1>1, PrimaryFrame
<1> QED BY <1>2, <1>3, <1>4, <1>5, <1>7, <1>8

-----------------------------------------------------------------------------
(* The invariant.                                                          *)

\* It holds when the pool has been opened.
LEMMA InitInvariant == Init => PoolInvariant
<1> SUFFICES ASSUME Init PROVE PoolInvariant
  OBVIOUS
<1> USE PoolAssumption DEF Init
<1>1. TypeOK
  <2>1. NoTicket \in [waiter : Waiter \cup {None}, nonce : 0..MaxNonce]
    BY DEF NoTicket
  <2>2. NotWaking \in [at : Nat, noPrimary : BOOLEAN, noNonPrimary : BOOLEAN]
    BY DEF NotWaking
  <2>3. waiter \in [Waiter -> ConnectionWaiter]
    BY DEF ConnectionWaiter
  <2>4. waiterQueue \in Seq(Waiter)
    BY EmptySeq
  <2> HIDE DEF NotWaking, NoTicket
  <2> QED BY <2>1, <2>2, <2>3, <2>4 DEF TypeOK, WaitingPcs, MaxPoolSizeFor
<1>2. WaitersInUse
  BY DEF WaitersInUse, WaitingPcs
<1>3. ClosedDrains
  BY DEF ClosedDrains
<1>4. QueueInOrder
  BY DEF QueueInOrder, Range
<1>5. AvailableConns = {availablePrimary} /\ AcquiredConns = {}
  BY DEF AvailableConns, AcquiredConns
<1>6. \A t \in Thread : /\ hold[t] = None /\ AssignedTo(t) = None
                        /\ Possession(t) = {}
  BY DEF AssignedTo, Possession, WaitingPcs
<1>7. ExclusiveOwnership
  BY <1>5, <1>6 DEF ExclusiveOwnership
<1>8. SinglePrimary
  BY <1>5 DEF SinglePrimary
<1> QED BY <1>1, <1>2, <1>3, <1>4, <1>7, <1>8 DEF PoolInvariant

\* Every step preserves it.
LEMMA NextInvariant == PoolInvariant /\ [Next]_vars => PoolInvariant'
<1> SUFFICES ASSUME PoolInvariant, [Next]_vars PROVE PoolInvariant'
  OBVIOUS
<1>1. CASE WakeStep
  BY <1>1, WakeClosedStep, WakeAssignStep, WakeThrowStep, WakeSkipStep DEF WakeStep
<1>2. ASSUME NEW t \in Thread, ThreadStep(t)
      PROVE  PoolInvariant'
  <2>1. CASE \E r \in Requests : AcquireNow(t, r) \/ AcquireWaits(t, r)
    BY <2>1, AcquireNowStep, AcquireWaitsStep
  <2>2. CASE Proceed(t)
    BY <2>2, SetListenerStep, SelfCancelStep, PollLeakFlagStep, RecoverFromLeakStep,
       UnparkStep, CheckClosedStep, CheckDoneStep, CheckAgainStep, ClearListenerStep
       DEF Proceed, Check
  <2>3. CASE Release(t)
    BY <2>3, ReleaseStep
  <2>4. CASE Leak(t)
    BY <2>4, LeakStep
  <2> QED BY <1>2, <2>1, <2>2, <2>3, <2>4 DEF ThreadStep
<1>3. ASSUME NEW t \in Thread, Cancel(t) \/ OnCancel(t)
      PROVE  PoolInvariant'
  BY <1>3, CancelStep, OnCancelStep
<1>4. CASE Close
  BY <1>4, CloseStep
<1>5. ASSUME NEW k \in Configs, Reconfigure(k)
      PROVE  PoolInvariant'
  BY <1>5, ReconfigureInPlaceStep, ReconfigureReopeningStep, ReconfigureFailsStep
     DEF Reconfigure
<1>6. ASSUME NEW c \in Conn, ClearWeakEntry(c) \/ Finalize(c)
      PROVE  PoolInvariant'
  BY <1>6, ClearWeakEntryStep, FinalizeStep
<1>7. CASE UNCHANGED vars
  <2>1. UNCHANGED <<poolVars, availVars, acquired, connectionLeaked, connVars,
                    garbage, waitVars, wake, threadVars, cancelVars>>
    BY <1>7 DEF vars
  <2>2. TypeOK' /\ WaitersInUse'
    BY <2>1 DEF PoolInvariant, TypeOK, WaitersInUse, poolVars, availVars, connVars,
                waitVars, threadVars, cancelVars, MaxPoolSizeFor, NotWaking
  <2>3. ClosedDrains' /\ QueueInOrder' /\ SinglePrimary'
    BY <2>1, DrainFrame, QueueFrame, PrimaryFrame
       DEF PoolInvariant, poolVars, waitVars, threadVars, connVars
  <2>4. \A u \in Thread : AssignedTo(u)' = AssignedTo(u)
    BY <2>1 DEF AssignedTo, waitVars, threadVars
  <2>5. ExclusiveOwnership'
    BY <2>1, <2>4, OwnershipFrame DEF PoolInvariant, connVars, threadVars
  <2> QED BY <2>2, <2>3, <2>5 DEF PoolInvariant
<1> QED BY <1>1, <1>2, <1>3, <1>4, <1>5, <1>6, <1>7 DEF Next

\* The invariant of the pool: state is typed, waiters and queue are in order,
\* connections have one owner each and one of them is primary.
THEOREM PoolInvariantHolds == Spec => []PoolInvariant
<1>1. Init => PoolInvariant
  BY InitInvariant
<1>2. PoolInvariant /\ [Next]_vars => PoolInvariant'
  BY NextInvariant
<1> QED BY <1>1, <1>2, PTL DEF Spec

\* Every variable of the pool keeps its type.
THEOREM TypesHold == Spec => []TypeOK
<1>1. PoolInvariant => TypeOK
  BY DEF PoolInvariant
<1> QED BY <1>1, PoolInvariantHolds, PTL

\* No connection is ever in the hands of two sessions, nor of a session and the
\* pool, and none that is open is lost sight of (acquireConnection,
\* releaseConnection, close, reconfigure and the wake loop between them).
THEOREM OwnershipIsExclusive == Spec => []ExclusiveOwnership
<1>1. PoolInvariant => ExclusiveOwnership
  BY DEF PoolInvariant
<1> QED BY <1>1, PoolInvariantHolds, PTL

\* There is at most one primary connection that is not being phased out.
THEOREM PrimaryIsSingle == Spec => []SinglePrimary
<1>1. PoolInvariant => SinglePrimary
  BY DEF PoolInvariant
<1> QED BY <1>1, PoolInvariantHolds, PTL

\* The waiter queue is ordered by priority, and holds live waiters only, each
\* once (waitForConnection's insertion, the wake loop's and onCancel's removal).
THEOREM QueueStaysInOrder == Spec => []QueueInOrder
<1>1. PoolInvariant => QueueInOrder
  BY DEF PoolInvariant
<1> QED BY <1>1, PoolInvariantHolds, PTL
=============================================================================
