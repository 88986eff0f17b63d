----------------------- MODULE SQLiteConnectionProofs -----------------------
(***************************************************************************)
(* Proofs about SQLiteConnection, for any number of statements, signals,   *)
(* nested operations and log entries and any combination of faults: native *)
(* statements are accounted for, a cancellation hits the operation it is   *)
(* for, and the log is never entered for another operation.                *)
(***************************************************************************)
EXTENDS SQLiteConnection, SequenceTheorems, FiniteSetTheorems, TLAPS

-----------------------------------------------------------------------------
(* Sequences without duplicates, as the cache is.                          *)

\* What is in a sequence, by position and as a set.
LEMMA SequenceFacts ==
  ASSUME NEW S, NEW c \in Seq(S)
  PROVE  /\ Len(c) \in Nat /\ DOMAIN c = 1 .. Len(c)
         /\ c = <<>> <=> Len(c) = 0
         /\ \A i \in 1 .. Len(c) : c[i] \in S /\ c[i] \in Range(c)
         /\ Range(c) \subseteq S
         /\ \A x \in Range(c) : \E i \in 1 .. Len(c) : c[i] = x
  BY LenProperties, ElementOfSeq, EmptySeq, RangeOfSeq, RangeEquality

\* Appending what is not there keeps a cache without repetitions.
LEMMA AppendFacts ==
  ASSUME NEW c \in Seq(Stmt), NEW s \in Stmt, s \notin Range(c), IsInjective(c)
  PROVE  /\ Append(c, s) \in Seq(Stmt) /\ Len(Append(c, s)) = Len(c) + 1
         /\ IsInjective(Append(c, s))
         /\ Range(Append(c, s)) = Range(c) \cup {s}
  <1> DEFINE d == Append(c, s)
  <1>1. /\ d \in Seq(Stmt) /\ Len(d) = Len(c) + 1
        /\ \A i \in 1 .. Len(c) : d[i] = c[i]
        /\ d[Len(c) + 1] = s
    BY AppendProperties
  <1> HIDE DEF d
  <1>2. Len(c) \in Nat /\ DOMAIN c = 1 .. Len(c) /\ DOMAIN d = 1 .. Len(c) + 1
    BY <1>1, SequenceFacts
  <1>3. \A i \in 1 .. Len(c) : c[i] # s
    BY SequenceFacts
  <1>4. IsInjective(d)
    BY <1>1, <1>2, <1>3 DEF IsInjective
  <1>5. \A x \in Range(c) \cup {s} : x \in Range(d)
    BY <1>1, <1>2 DEF Range
  <1>6. \A i \in DOMAIN d : d[i] \in Range(c) \cup {s}
    BY <1>1, <1>2 DEF Range
  <1> QED  BY <1>1, <1>4, <1>5, <1>6 DEF d, Range

\* Removing one entry of a cache removes its statement.
LEMMA RemoveAtFacts ==
  ASSUME NEW c \in Seq(Stmt), NEW k \in 1 .. Len(c), IsInjective(c)
  PROVE  /\ RemoveAt(c, k) \in Seq(Stmt) /\ Len(RemoveAt(c, k)) = Len(c) - 1
         /\ IsInjective(RemoveAt(c, k))
         /\ Range(RemoveAt(c, k)) = Range(c) \ {c[k]}
  <1> DEFINE front == SubSeq(c, 1, k - 1)
             back == SubSeq(c, k + 1, Len(c))
             d == RemoveAt(c, k)
  <1>0. /\ Len(c) \in Nat /\ DOMAIN c = 1 .. Len(c)
        /\ \A i \in 1 .. Len(c) : c[i] \in Stmt
    BY SequenceFacts
  <1>1. /\ front \in Seq(Stmt) /\ Len(front) = k - 1
        /\ \A j \in 1 .. k - 1 : front[j] = c[j]
    <2>1. /\ front \in Seq(Stmt) /\ Len(front) = IF 1 <= k - 1 THEN (k - 1) - 1 + 1 ELSE 0
          /\ \A j \in 1 .. (k - 1) - 1 + 1 : front[j] = c[1 + j - 1]
      BY <1>0, SubSeqProperties
    <2> QED  BY <1>0, <2>1
  <1>2. /\ back \in Seq(Stmt) /\ Len(back) = Len(c) - k
        /\ \A j \in 1 .. Len(c) - k : back[j] = c[k + j]
    <2>1. /\ back \in Seq(Stmt)
          /\ Len(back) = IF k + 1 <= Len(c) THEN Len(c) - (k + 1) + 1 ELSE 0
          /\ \A j \in 1 .. Len(c) - (k + 1) + 1 : back[j] = c[(k + 1) + j - 1]
      BY <1>0, SubSeqProperties
    <2> QED  BY <1>0, <2>1
  <1>3. d = front \o back
    BY DEF RemoveAt
  <1> HIDE DEF front, back, d
  <1>4. /\ d \in Seq(Stmt) /\ Len(d) = Len(front) + Len(back)
        /\ \A j \in 1 .. Len(front) + Len(back) :
             d[j] = IF j <= Len(front) THEN front[j] ELSE back[j - Len(front)]
    BY <1>1, <1>2, <1>3, ConcatProperties
  <1>5. /\ d \in Seq(Stmt) /\ Len(d) = Len(c) - 1 /\ DOMAIN d = 1 .. Len(c) - 1
        /\ \A j \in 1 .. Len(c) - 1 : d[j] = IF j < k THEN c[j] ELSE c[j + 1]
    <2>1. Len(d) = Len(c) - 1 /\ DOMAIN d = 1 .. Len(c) - 1
      BY <1>0, <1>1, <1>2, <1>4, SequenceFacts
    <2>2. ASSUME NEW j \in 1 .. Len(c) - 1
          PROVE  d[j] = IF j < k THEN c[j] ELSE c[j + 1]
      <3>1. d[j] = IF j <= k - 1 THEN front[j] ELSE back[j - (k - 1)]
        BY <1>0, <1>1, <1>2, <1>4, SMTT(30)
      <3>2. CASE j < k
        BY <1>0, <1>1, <3>1, <3>2
      <3>3. CASE ~(j < k)
        <4>1. j - (k - 1) \in 1 .. Len(c) - k /\ k + (j - (k - 1)) = j + 1
          BY <1>0, <3>3
        <4> QED  BY <1>0, <1>2, <3>1, <3>3, <4>1
      <3> QED  BY <3>2, <3>3
    <2> QED  BY <1>4, <2>1, <2>2
  <1>6. IsInjective(d)
    BY <1>0, <1>5, SMTT(30) DEF IsInjective
  <1>7. \A j \in DOMAIN d : d[j] \in Range(c) \ {c[k]}
    <2> TAKE j \in DOMAIN d
    <2>1. \E i \in DOMAIN c : i # k /\ d[j] = c[i]
      <3>1. CASE j < k
        BY <1>0, <1>5, <3>1
      <3>2. CASE ~(j < k)
        <4>1. j + 1 \in DOMAIN c /\ j + 1 # k /\ d[j] = c[j + 1]
          BY <1>0, <1>5, <3>2
        <4> QED  BY <4>1
      <3> QED  BY <3>1, <3>2
    <2> QED  BY <1>0, <2>1 DEF Range, IsInjective
  <1>8. \A i \in DOMAIN c : i # k => c[i] \in Range(d)
    <2> SUFFICES ASSUME NEW i \in DOMAIN c, i # k PROVE \E j \in DOMAIN d : d[j] = c[i]
      BY DEF Range
    <2>1. CASE i < k
      BY <1>0, <1>5, <2>1
    <2>2. CASE ~(i < k)
      <3>1. i - 1 \in DOMAIN d /\ d[i - 1] = c[i]
        BY <1>0, <1>5, <2>2
      <3> QED  BY <3>1
    <2> QED  BY <2>1, <2>2
  <1>9. Range(d) = Range(c) \ {c[k]}
    BY <1>7, <1>8 DEF Range
  <1> QED  BY <1>5, <1>6, <1>9 DEF d

\* So does removing the eldest.
LEMMA TailFacts ==
  ASSUME NEW c \in Seq(Stmt), c # <<>>, IsInjective(c)
  PROVE  /\ Tail(c) \in Seq(Stmt) /\ Len(Tail(c)) = Len(c) - 1
         /\ IsInjective(Tail(c))
         /\ Range(Tail(c)) = Range(c) \ {Head(c)}
  <1> DEFINE d == Tail(c)
  <1>0. Len(c) \in Nat \ {0} /\ DOMAIN c = 1 .. Len(c)
    BY SequenceFacts
  <1>1. /\ d \in Seq(Stmt) /\ Len(d) = Len(c) - 1
        /\ \A i \in 1 .. Len(d) : d[i] = c[i + 1]
    BY HeadTailProperties
  <1>2. DOMAIN d = 1 .. Len(c) - 1 /\ Head(c) = c[1]
    BY <1>1, SequenceFacts
  <1> HIDE DEF d
  <1>3. \A j \in DOMAIN d :
          j + 1 \in DOMAIN c /\ j + 1 # 1 /\ 1 \in DOMAIN c /\ d[j] = c[j + 1]
    BY <1>0, <1>1, <1>2
  <1>4. IsInjective(d)
    <2> SUFFICES ASSUME NEW i \in DOMAIN d, NEW j \in DOMAIN d, d[i] = d[j] PROVE i = j
      BY DEF IsInjective
    <2>1. i + 1 = j + 1
      BY <1>3, Zenon DEF IsInjective
    <2> QED  BY <2>1, <1>2
  <1>5. \A j \in DOMAIN d : d[j] \in Range(c) \ {Head(c)}
    BY <1>1, <1>2, <1>3 DEF Range, IsInjective
  <1>6. \A i \in DOMAIN c : i # 1 => i - 1 \in DOMAIN d /\ d[i - 1] = c[i]
    BY <1>0, <1>1, <1>2
  <1>7. Range(d) = Range(c) \ {Head(c)}
    BY <1>2, <1>5, <1>6 DEF Range
  <1> QED  BY <1>1, <1>4, <1>7 DEF d

-----------------------------------------------------------------------------
(* The cache.                                                              *)

\* A statement that is taken out of the cache is out.
LEMMA WithoutFacts ==
  ASSUME cache \in Seq(Stmt), IsInjective(cache), NEW s \in Range(cache)
  PROVE  /\ Without(s) \in Seq(Stmt) /\ Len(Without(s)) = Len(cache) - 1
         /\ IsInjective(Without(s))
         /\ Range(Without(s)) = Range(cache) \ {s}
  <1> DEFINE k == CHOOSE i \in DOMAIN cache : cache[i] = s
  <1>1. k \in 1 .. Len(cache) /\ cache[k] = s
    BY SequenceFacts
  <1>2. Without(s) = RemoveAt(cache, k)
    BY DEF Without
  <1> HIDE DEF k
  <1> QED  BY <1>1, <1>2, RemoveAtFacts

\* Looking a statement up reorders the cache and no more.
LEMMA TouchedFacts ==
  ASSUME cache \in Seq(Stmt), IsInjective(cache), NEW q
  PROVE  /\ Touched(q) \in Seq(Stmt) /\ Len(Touched(q)) = Len(cache)
         /\ IsInjective(Touched(q))
         /\ Range(Touched(q)) = Range(cache)
  <1> DEFINE found == CHOOSE s \in CachedFor(q) : TRUE
  <1>1. CASE CachedFor(q) = {}
    BY <1>1 DEF Touched
  <1>2. CASE CachedFor(q) # {}
    <2>1. found \in Range(cache)
      BY <1>2 DEF CachedFor
    <2>2. Touched(q) = Append(Without(found), found)
      BY <1>2 DEF Touched
    <2> HIDE DEF found
    <2>3. /\ Without(found) \in Seq(Stmt) /\ Len(Without(found)) = Len(cache) - 1
          /\ IsInjective(Without(found))
          /\ Range(Without(found)) = Range(cache) \ {found}
      BY <2>1, WithoutFacts
    <2>4. found \in Stmt /\ Len(cache) \in Nat
      BY <2>1, SequenceFacts
    <2>5. /\ Append(Without(found), found) \in Seq(Stmt)
          /\ Len(Append(Without(found), found)) = Len(Without(found)) + 1
          /\ IsInjective(Append(Without(found), found))
          /\ Range(Append(Without(found), found)) = Range(Without(found)) \cup {found}
      BY <2>3, <2>4, AppendFacts
    <2> QED  BY <2>1, <2>2, <2>3, <2>4, <2>5
  <1> QED  BY <1>1, <1>2

\* The cache after trimToSize has its size, and has lost what was pushed out.
LEMMA TrimmedFacts ==
  ASSUME NEW c \in Seq(Stmt), IsInjective(c), Len(c) <= CacheSize + 1
  PROVE  /\ Trimmed(c) \in Seq(Stmt) /\ Len(Trimmed(c)) <= CacheSize
         /\ IsInjective(Trimmed(c))
         /\ Range(Trimmed(c)) = Range(c) \ PushedOut(c)
         /\ PushedOut(c) \subseteq Range(c)
  <1>1. Len(c) \in Nat /\ CacheSize \in Nat
    BY SequenceFacts, ConnectionAssumption
  <1>2. CASE Len(c) > CacheSize
    <2>1. c # <<>> /\ 1 \in 1 .. Len(c)
      BY <1>1, <1>2, SequenceFacts
    <2>2. Head(c) = c[1]
      BY <2>1
    <2>3. Head(c) \in Range(c)
      BY <2>1, <2>2, SequenceFacts
    <2>4. Trimmed(c) = Tail(c) /\ PushedOut(c) = {Head(c)}
      BY <1>2 DEF Trimmed, PushedOut
    <2> QED  BY <1>1, <2>1, <2>3, <2>4, TailFacts
  <1>3. CASE ~(Len(c) > CacheSize)
    BY <1>1, <1>3 DEF Trimmed, PushedOut
  <1> QED  BY <1>2, <1>3

\* The cache holds each statement, and one for each SQL text, once.
LEMMA CacheFacts ==
  ASSUME ConnectionInvariant, ~Corrupt
  PROVE  /\ cache \in Seq(Stmt) /\ Range(cache) \subseteq Stmt
         /\ IsInjective(cache)
         /\ \A a, b \in Range(cache) : sqlOf[a] = sqlOf[b] => a = b
  <1>1. /\ cache \in Seq(Stmt)
        /\ \A i, j \in DOMAIN cache : sqlOf[cache[i]] = sqlOf[cache[j]] => i = j
    BY DEF ConnectionInvariant, TypeOK, StatementsAccounted
  <1>2. IsInjective(cache)
    BY <1>1 DEF IsInjective
  <1>3. \A a, b \in Range(cache) : sqlOf[a] = sqlOf[b] => a = b
    BY <1>1 DEF Range
  <1> QED  BY <1>1, <1>2, <1>3, SequenceFacts

\* Conversely, for the cache of the next state.
LEMMA OneForEachText ==
  ASSUME IsInjective(cache'), \A a, b \in Range(cache') : sqlOf'[a] = sqlOf'[b] => a = b
  PROVE  \A i, j \in DOMAIN cache' : sqlOf'[cache'[i]] = sqlOf'[cache'[j]] => i = j
  BY DEF IsInjective, Range

-----------------------------------------------------------------------------
(* Operations in progress.                                                 *)

Pcs == {"bind", "listen", "running", "detach", "release"}
Outcomes == {"none", "unstarted", "done", "failed", "failedReset", "interrupted"}

\* Positions below the last one.
LEMMA BelowLast == \A n \in Nat : \A i \in 1 .. n : i <= n /\ (i # n <=> i < n)
  OBVIOUS

\* The innermost operation, and those around it.
LEMMA TopFacts ==
  ASSUME ConnectionInvariant, ops # <<>>
  PROVE  /\ Len(ops) \in Nat \ {0} /\ Len(ops) \in 1 .. Len(ops) /\ DOMAIN ops = 1 .. Len(ops)
         /\ ops \in Seq(OperationRecord) /\ Top = ops[Len(ops)]
         /\ \A i \in 1 .. Len(ops) : ops[i] \in OperationRecord
         /\ Top \in OperationRecord /\ Top.statement \in Stmt /\ Top.signal \in Signal \cup {None}
         /\ Top.pc \in Pcs /\ Top.outcome \in Outcomes
         /\ \A i \in 1 .. Len(ops) : i # Len(ops) => ops[i].pc = "running"
  <1>1. ops \in Seq(OperationRecord)
    BY DEF ConnectionInvariant, TypeOK
  <1>2. /\ Len(ops) \in Nat /\ DOMAIN ops = 1 .. Len(ops) /\ Len(ops) # 0
        /\ \A i \in 1 .. Len(ops) : ops[i] \in OperationRecord
    BY <1>1, SequenceFacts
  <1>3. Top = ops[Len(ops)]
    BY DEF Top, Last
  <1>4. \A i \in DOMAIN ops : i < Len(ops) => ops[i].pc = "running"
    BY DEF ConnectionInvariant, OperationsNest
  <1>5. Len(ops) \in 1 .. Len(ops)
    BY <1>2
  <1>6. /\ Top \in OperationRecord /\ Top.statement \in Stmt /\ Top.signal \in Signal \cup {None}
        /\ Top.pc \in Pcs /\ Top.outcome \in Outcomes
    BY <1>2, <1>3, <1>5 DEF OperationRecord, Pcs, Outcomes
  <1>7. \A i \in 1 .. Len(ops) : i # Len(ops) => ops[i].pc = "running"
    <2> SUFFICES ASSUME NEW i \in 1 .. Len(ops), i # Len(ops) PROVE ops[i].pc = "running"
      OBVIOUS
    <2>1. i \in DOMAIN ops /\ i < Len(ops)
      BY <1>2, BelowLast, Zenon
    <2> QED  BY <2>1, <1>4
  <1> QED  BY <1>1, <1>2, <1>3, <1>5, <1>6, <1>7

\* The operation in progress goes on: only its pc and outcome change.
Moves ==
  /\ ops' \in Seq(OperationRecord) /\ ops' # <<>> /\ Len(ops') = Len(ops)
  /\ DOMAIN ops' = 1 .. Len(ops)
  /\ \A i \in 1 .. Len(ops) : /\ ops'[i].statement = ops[i].statement
                              /\ ops'[i].signal = ops[i].signal
                              /\ ops'[i].cookie = ops[i].cookie
                              /\ i # Len(ops) => ops'[i] = ops[i]

\* The end of a statement moves the innermost operation on.
LEMMA EndsFacts ==
  ASSUME ConnectionInvariant, ops # <<>>, NEW pc \in Pcs, NEW o \in Outcomes, Ends(pc, o)
  PROVE  Moves /\ ops'[Len(ops)].pc = pc
  <1> DEFINE e == [Top EXCEPT !.pc = pc, !.outcome = o]
  <1>1. /\ e \in OperationRecord /\ e.statement = Top.statement /\ e.signal = Top.signal
        /\ e.cookie = Top.cookie /\ e.pc = pc
    BY TopFacts DEF OperationRecord, Pcs, Outcomes
  <1>2. ops' = [ops EXCEPT ![Len(ops)] = e]
    BY TopFacts DEF Ends
  <1> HIDE DEF e
  <1>3. /\ ops' \in Seq(OperationRecord) /\ Len(ops') = Len(ops)
        /\ \A i \in 1 .. Len(ops) : ops'[i] = IF i = Len(ops) THEN e ELSE ops[i]
    BY <1>1, <1>2, TopFacts, ExceptSeq
  <1>4. ops' # <<>> /\ DOMAIN ops' = 1 .. Len(ops)
    BY <1>3, TopFacts, SequenceFacts
  <1> QED  BY <1>1, <1>3, <1>4, TopFacts DEF Moves

\* So does every other step of it.
LEMMA GotoFacts ==
  ASSUME ConnectionInvariant, ops # <<>>, NEW pc \in Pcs, Goto(pc)
  PROVE  Moves /\ ops'[Len(ops)].pc = pc
  <1> DEFINE e == [Top EXCEPT !.pc = pc]
  <1>1. /\ e \in OperationRecord /\ e.statement = Top.statement /\ e.signal = Top.signal
        /\ e.cookie = Top.cookie /\ e.pc = pc
    BY TopFacts DEF OperationRecord, Pcs, Outcomes
  <1>2. ops' = [ops EXCEPT ![Len(ops)] = e]
    BY TopFacts DEF Goto
  <1> HIDE DEF e
  <1>3. /\ ops' \in Seq(OperationRecord) /\ Len(ops') = Len(ops)
        /\ \A i \in 1 .. Len(ops) : ops'[i] = IF i = Len(ops) THEN e ELSE ops[i]
    BY <1>1, <1>2, TopFacts, ExceptSeq
  <1>4. ops' # <<>> /\ DOMAIN ops' = 1 .. Len(ops)
    BY <1>3, TopFacts, SequenceFacts
  <1> QED  BY <1>1, <1>3, <1>4, TopFacts DEF Moves

\* Statements are the same, and so is who has them.
LEMMA SameStatements ==
  ASSUME ConnectionInvariant, ~Corrupt, Moves, UNCHANGED <<open, statementVars>>
  PROVE  StatementsAccounted' /\ inUse' \subseteq Held'
  <1>1. DOMAIN ops = 1 .. Len(ops) /\ DOMAIN ops' = 1 .. Len(ops)
    BY SequenceFacts DEF ConnectionInvariant, TypeOK, Moves
  <1>2. \A i \in DOMAIN ops : ops'[i].statement = ops[i].statement
    BY <1>1 DEF Moves
  <1>3. Held' = Held
    BY <1>1, <1>2 DEF Held
  <1>4. Live' = Live
    BY DEF Live, statementVars
  <1>5. UNCHANGED <<open, inUse, inCache, cache, sqlOf>>
    BY DEF statementVars
  <1>6. Range(cache)' = Range(cache)
    BY <1>5
  <1> QED  BY <1>3, <1>4, <1>5, <1>6 DEF ConnectionInvariant, StatementsAccounted, OperationsNest

\* The same operations have a signal attached.
LEMMA SameAttachments ==
  ASSUME ConnectionInvariant, UNCHANGED cancelVars, Attached' = Attached,
         \A i \in Attached : /\ ops'[i].signal = ops[i].signal
                             /\ ops'[i].pc = "listen" => ops[i].pc = "listen"
  PROVE  AttachmentsCounted'
  <1>1. \A i : IsOutermost(i)' <=> IsOutermost(i)
    BY DEF IsOutermost
  <1>2. AttachmentsCounted
    BY DEF ConnectionInvariant
  <1>3. /\ attached' = attached /\ progress' = progress /\ canceled' = canceled
        /\ isCanceled' = isCanceled /\ listening' = listening /\ canceling' = canceling
    BY DEF cancelVars
  <1>4. \A i \in Attached' : ops'[i].pc = "listen" => IsOutermost(i)' /\ ~canceled'
    BY <1>1, <1>2, <1>3 DEF AttachmentsCounted
  <1>5. \A g \in listening' : \E i \in Attached' :
          IsOutermost(i)' /\ ops'[i].pc # "listen" /\ ops'[i].signal = g
    BY <1>1, <1>2, <1>3 DEF AttachmentsCounted
  <1>6. progress' /\ canceled' =>
          \E i \in Attached' : IsOutermost(i)' /\ ops'[i].signal \in isCanceled'
    BY <1>1, <1>2, <1>3 DEF AttachmentsCounted
  <1>7. attached' = Cardinality(Attached') /\ (progress' <=> Attached' # {})
    BY <1>2, <1>3 DEF AttachmentsCounted
  <1>8. canceling' \subseteq listening' \cap isCanceled'
    BY <1>2, <1>3 DEF AttachmentsCounted
  <1> QED  BY <1>4, <1>5, <1>6, <1>7, <1>8 DEF AttachmentsCounted

\* An operation that goes on keeps its place among the others.
LEMMA NestKept ==
  ASSUME ConnectionInvariant, ops # <<>>, ~Corrupt, Moves, UNCHANGED <<open, statementVars>>,
         ops'[Len(ops)].pc \in {"listen", "detach"} => Top.signal # None
  PROVE  OperationsNest'
  <1>1. inUse' \subseteq Held'
    BY SameStatements
  <1>2. /\ DOMAIN ops' = 1 .. Len(ops) /\ Len(ops') = Len(ops) /\ Len(ops) \in Nat
        /\ \A i \in 1 .. Len(ops) : i # Len(ops) => ops'[i] = ops[i]
        /\ ops'[Len(ops)].signal = Top.signal
    BY TopFacts DEF Moves
  <1>3. open' /\ Len(ops') <= MaxDepth
    BY <1>2 DEF ConnectionInvariant, OperationsNest
  <1>4. \A i \in DOMAIN ops' : i < Len(ops') => ops'[i].pc = "running"
    <2> SUFFICES ASSUME NEW i \in DOMAIN ops', i < Len(ops') PROVE ops'[i].pc = "running"
      OBVIOUS
    <2>1. i \in 1 .. Len(ops) /\ i # Len(ops)
      BY <1>2, BelowLast, Zenon
    <2> QED  BY <2>1, <1>2, TopFacts
  <1>5. \A i \in DOMAIN ops' : ops'[i].pc \in {"listen", "detach"} => ops'[i].signal # None
    BY <1>2, TopFacts
  <1> QED  BY <1>1, <1>3, <1>4, <1>5 DEF OperationsNest

\* Which operations have a signal attached if only the innermost one changes.
LEMMA AttachedMoves ==
  ASSUME ConnectionInvariant, ops # <<>>, Moves
  PROVE  Attached' = (Attached \ {Len(ops)})
                       \cup (IF Top.signal # None
                                /\ ops'[Len(ops)].pc \in {"listen", "running", "detach"}
                             THEN {Len(ops)} ELSE {})
  <1>1. DOMAIN ops' = 1 .. Len(ops) /\ DOMAIN ops = 1 .. Len(ops) /\ Len(ops) \in 1 .. Len(ops)
    BY TopFacts DEF Moves
  <1>2. \A i \in 1 .. Len(ops) : i # Len(ops) => ops'[i] = ops[i]
    BY DEF Moves
  <1>3. ops'[Len(ops)].signal = Top.signal
    BY TopFacts DEF Moves
  <1> QED  BY <1>1, <1>2, <1>3 DEF Attached

\* Attached signals: how many, and the outermost.
LEMMA AttachedFacts ==
  ASSUME ConnectionInvariant
  PROVE  /\ Attached \subseteq 1 .. Len(ops) /\ IsFiniteSet(Attached) /\ attached \in Nat
         /\ attached = Cardinality(Attached)
         /\ attached = 0 <=> Attached = {}
         /\ attached = 1 <=> \E i : Attached = {i}
         /\ \A i, j : IsOutermost(i) /\ IsOutermost(j) => i = j
  <1>1. DOMAIN ops = 1 .. Len(ops) /\ Len(ops) \in Nat
    BY SequenceFacts DEF ConnectionInvariant, TypeOK
  <1>2. Attached \subseteq 1 .. Len(ops) /\ IsFiniteSet(1 .. Len(ops))
    BY <1>1, FS_Interval DEF Attached
  <1>3. IsFiniteSet(Attached)
    BY <1>2, FS_Subset
  <1>4. attached = Cardinality(Attached) /\ Cardinality(Attached) \in Nat
    BY <1>3, FS_CardinalityType DEF ConnectionInvariant, AttachmentsCounted
  <1>5. \A i, j : IsOutermost(i) /\ IsOutermost(j) => i = j
    BY <1>1, <1>2 DEF IsOutermost
  <1> QED  BY <1>2, <1>3, <1>4, <1>5, FS_EmptySet, FS_Singleton

\* What an operation that goes on leaves of the types.
LEMMA TypesMoved ==
  ASSUME TypeOK, Moves, UNCHANGED <<open, statementVars, logVars>>,
         progress' \in BOOLEAN, canceled' \in BOOLEAN,
         isCanceled' \subseteq Signal, listening' \subseteq Signal, canceling' \subseteq Signal
  PROVE  TypeOK'
  BY DEF TypeOK, Moves, statementVars, logVars

\* The step of an operation that touches neither statements nor signals.
LEMMA QuietStep ==
  ASSUME ConnectionInvariant, ops # <<>>, ~Corrupt, Moves,
         UNCHANGED <<open, statementVars, cancelVars, logVars>>,
         ops'[Len(ops)].pc \in {"listen", "detach"} => Top.signal # None,
         ops'[Len(ops)].pc # "listen",
         Top.signal # None => (Top.pc \in {"listen", "running", "detach"}
                                <=> ops'[Len(ops)].pc \in {"listen", "running", "detach"})
  PROVE  ConnectionInvariant'
  <1>1. TypeOK'
    BY TypesMoved DEF ConnectionInvariant, TypeOK, cancelVars
  <1>2. StatementsAccounted'
    BY SameStatements
  <1>3. OperationsNest'
    BY NestKept
  <1>4. Attached' = Attached
    BY AttachedMoves, TopFacts DEF Attached
  <1>5. \A i \in Attached : /\ ops'[i].signal = ops[i].signal
                            /\ ops'[i].pc = "listen" => ops[i].pc = "listen"
    <2>1. Attached \subseteq 1 .. Len(ops)
      BY TopFacts DEF Attached
    <2> QED  BY <2>1 DEF Moves
  <1>6. AttachmentsCounted'
    BY <1>4, <1>5, SameAttachments
  <1> QED  BY <1>1, <1>2, <1>3, <1>6 DEF ConnectionInvariant

\* Binding that throws goes on to the release, before any signal is attached.
LEMMA BindThrowsKeeps ==
  ASSUME ConnectionInvariant, ~Corrupt, BindThrows  PROVE ConnectionInvariant'
  <1>1. ops # <<>> /\ Top.pc = "bind" /\ Ends("release", "unstarted")
    BY DEF BindThrows, At
  <1>2. Moves /\ ops'[Len(ops)].pc = "release"
    BY <1>1, EndsFacts DEF Pcs, Outcomes
  <1> QED  BY <1>1, <1>2, QuietStep DEF BindThrows

\* An operation without a signal is not counted.
LEMMA AttachNothingKeeps ==
  ASSUME ConnectionInvariant, ~Corrupt, AttachNothing  PROVE ConnectionInvariant'
  <1>1. ops # <<>> /\ Top.pc = "bind" /\ Top.signal = None /\ Goto("running")
    BY DEF AttachNothing, At
  <1>2. Moves /\ ops'[Len(ops)].pc = "running"
    BY <1>1, GotoFacts DEF Pcs
  <1> QED  BY <1>1, <1>2, QuietStep DEF AttachNothing

\* A signal that is canceled already throws before it is counted.
LEMMA AttachThrowsKeeps ==
  ASSUME ConnectionInvariant, ~Corrupt, AttachThrows  PROVE ConnectionInvariant'
  <1>1. ops # <<>> /\ Top.pc = "bind" /\ Ends("release", "unstarted")
    BY DEF AttachThrows, At
  <1>2. Moves /\ ops'[Len(ops)].pc = "release"
    BY <1>1, EndsFacts DEF Pcs, Outcomes
  <1> QED  BY <1>1, <1>2, QuietStep DEF AttachThrows

\* The statement ends, with outcome o.
LEMMA StepOver ==
  ASSUME ConnectionInvariant, ~Corrupt, At("running"), NEW o \in Outcomes, Ends(AfterStep, o),
         UNCHANGED <<open, statementVars, cancelVars, logVars>>
  PROVE  ConnectionInvariant'
  <1>1. ops # <<>> /\ Top.pc = "running"
    BY DEF At
  <1>2. AfterStep \in Pcs /\ AfterStep = IF Top.signal = None THEN "release" ELSE "detach"
    BY DEF AfterStep, Pcs
  <1>3. Moves /\ ops'[Len(ops)].pc = AfterStep
    BY <1>1, <1>2, EndsFacts
  <1> QED  BY <1>1, <1>2, <1>3, QuietStep

\* However the statement ends, what is attached stays attached.
LEMMA StatementEndsKeeps ==
  ASSUME ConnectionInvariant, ~Corrupt, Finish \/ StepFails \/ Interrupt
  PROVE  ConnectionInvariant'
  <1>1. \E o \in Outcomes : Ends(AfterStep, o)
    BY DEF Finish, StepFails, Interrupt, Outcomes
  <1>2. At("running") /\ UNCHANGED <<open, statementVars, cancelVars, logVars>>
    BY DEF Finish, StepFails, Interrupt
  <1> QED  BY <1>1, <1>2, StepOver

-----------------------------------------------------------------------------
(* Cancellation.                                                           *)

\* The first to attach finds the flag reset and becomes the outermost; any other is
\* inside.
LEMMA AttachKeeps ==
  ASSUME ConnectionInvariant, ~Corrupt, Attach  PROVE ConnectionInvariant'
  <1>1. /\ ops # <<>> /\ Top.pc = "bind" /\ Top.signal \in Signal \ isCanceled
        /\ attached' = attached + 1
        /\ UNCHANGED <<open, statementVars, isCanceled, listening, canceling, logVars>>
    BY DEF Attach, At
  <1>2. Top.signal # None
    BY <1>1, ConnectionAssumption
  <1>3. CASE attached = 0
    <2>1. canceled' = FALSE /\ progress' = TRUE /\ Goto("listen")
      BY <1>3 DEF Attach
    <2>2. Moves /\ ops'[Len(ops)].pc = "listen"
      BY <1>1, <2>1, GotoFacts DEF Pcs
    <2>3. TypeOK'
      BY <1>1, <2>1, <2>2, TypesMoved DEF ConnectionInvariant, TypeOK
    <2>4. StatementsAccounted' /\ OperationsNest'
      BY <1>1, <1>2, <2>2, SameStatements, NestKept
    <2>5. Attached = {}
      BY <1>3, AttachedFacts
    <2>6. Attached' = {Len(ops)}
      BY <1>1, <1>2, <2>2, <2>5, AttachedMoves
    <2>7. attached' = Cardinality(Attached') /\ (progress' <=> Attached' # {})
      <3>1. attached' = 1
        BY <1>1, <1>3
      <3>2. Cardinality({Len(ops)}) = 1
        BY FS_Singleton, Zenon
      <3> QED  BY <2>1, <2>6, <3>1, <3>2
    <2>8. \A i \in Attached' : IsOutermost(i)'
      <3>1. Len(ops) \in Nat
        BY TopFacts, <1>1
      <3>2. \A i, j \in Attached' : i = j /\ i \in Nat
        BY <2>6, <3>1
      <3>3. \A i, j \in Nat : i = j => i <= j
        OBVIOUS
      <3> QED  BY <3>2, <3>3, Zenon DEF IsOutermost
    <2>9. listening = {} /\ canceling = {}
      BY <2>5 DEF ConnectionInvariant, AttachmentsCounted
    <2>10. AttachmentsCounted'
      <3>1. listening' = {} /\ canceling' = {} /\ ~canceled'
        BY <1>1, <2>1, <2>9
      <3> QED  BY <2>7, <2>8, <3>1 DEF AttachmentsCounted
    <2> QED  BY <2>3, <2>4, <2>10 DEF ConnectionInvariant
  <1>4. CASE attached # 0
    <2>1. UNCHANGED <<canceled, progress>> /\ Goto("running")
      BY <1>4 DEF Attach
    <2>2. Moves /\ ops'[Len(ops)].pc = "running"
      BY <1>1, <2>1, GotoFacts DEF Pcs
    <2>3. TypeOK'
      BY <1>1, <2>1, <2>2, TypesMoved DEF ConnectionInvariant, TypeOK
    <2>4. StatementsAccounted' /\ OperationsNest'
      BY <1>1, <2>2, SameStatements, NestKept
    <2>5. Attached # {} /\ Len(ops) \notin Attached /\ IsFiniteSet(Attached)
      BY <1>1, <1>4, AttachedFacts, TopFacts DEF Attached
    <2>6. Attached' = Attached \cup {Len(ops)}
      BY <1>1, <1>2, <2>2, <2>5, AttachedMoves
    <2>7. attached' = Cardinality(Attached')
      BY <1>1, <2>5, <2>6, AttachedFacts, FS_AddElement
    <2>8. \A i \in Attached : /\ i \in 1 .. Len(ops) /\ i # Len(ops)
                              /\ ops'[i] = ops[i] /\ i <= Len(ops)
      BY <2>2, <2>5, AttachedFacts, TopFacts, <1>1, BelowLast, Zenon DEF Moves
    <2>9. \A i \in Attached : IsOutermost(i) => IsOutermost(i)'
      BY <2>6, <2>8 DEF IsOutermost
    <2>10. AttachmentsCounted
      BY DEF ConnectionInvariant
    <2>11. \A i \in Attached' : ops'[i].pc = "listen" => IsOutermost(i)' /\ ~canceled'
      BY <2>1, <2>2, <2>6, <2>8, <2>9, <2>10 DEF AttachmentsCounted
    <2>12. \A g \in listening' : \E i \in Attached' :
             IsOutermost(i)' /\ ops'[i].pc # "listen" /\ ops'[i].signal = g
      BY <1>1, <2>6, <2>8, <2>9, <2>10 DEF AttachmentsCounted
    <2>13. progress' /\ canceled' =>
             \E i \in Attached' : IsOutermost(i)' /\ ops'[i].signal \in isCanceled'
      BY <1>1, <2>1, <2>6, <2>8, <2>9, <2>10 DEF AttachmentsCounted
    <2>14. /\ progress' <=> Attached' # {}
           /\ canceling' \subseteq listening' \cap isCanceled'
      BY <1>1, <2>1, <2>5, <2>6, <2>10 DEF AttachmentsCounted
    <2>15. AttachmentsCounted'
      BY <2>7, <2>11, <2>12, <2>13, <2>14 DEF AttachmentsCounted
    <2> QED  BY <2>3, <2>4, <2>15 DEF ConnectionInvariant
  <1> QED  BY <1>3, <1>4

\* The outermost listens once it is past setOnCancelListener.
LEMMA ListenKeeps ==
  ASSUME ConnectionInvariant, ~Corrupt, Listen  PROVE ConnectionInvariant'
  <1>1. /\ ops # <<>> /\ Top.pc = "listen" /\ Top.signal \notin canceling /\ Goto("running")
        /\ listening' = listening \cup {Top.signal}
        /\ canceled' = (canceled \/ Top.signal \in isCanceled)
        /\ UNCHANGED <<open, statementVars, attached, progress, isCanceled, canceling, logVars>>
    BY DEF Listen, At, OnCancelAtOnce
  <1>2. Moves /\ ops'[Len(ops)].pc = "running" /\ ops'[Len(ops)].signal = Top.signal
    BY <1>1, GotoFacts, TopFacts DEF Pcs, Moves
  <1>3. AttachmentsCounted /\ OperationsNest
    BY DEF ConnectionInvariant
  <1>4. Top.signal \in Signal \ {None} /\ Len(ops) \in Attached
    <2>1. Top.signal # None
      BY <1>1, <1>3, TopFacts DEF OperationsNest
    <2> QED  BY <1>1, <2>1, TopFacts DEF Attached
  <1>5. IsOutermost(Len(ops)) /\ ~canceled
    BY <1>1, <1>3, <1>4, TopFacts DEF AttachmentsCounted
  <1>6. listening = {} /\ canceling = {}
    <2>1. \A i \in Attached : IsOutermost(i) => ops[i].pc = "listen"
      BY <1>1, <1>5, AttachedFacts, TopFacts
    <2> QED  BY <1>3, <2>1 DEF AttachmentsCounted
  <1>7. Attached = {Len(ops)}
    <2>1. \A i \in Attached : i \in 1 .. Len(ops) /\ Len(ops) <= i
      BY <1>5, AttachedFacts DEF IsOutermost
    <2>2. \A n \in Nat : \A i \in 1 .. n : n <= i => i = n
      OBVIOUS
    <2>3. \A i \in Attached : i = Len(ops)
      BY <1>1, <2>1, <2>2, TopFacts, Zenon
    <2> QED  BY <1>4, <2>3
  <1>8. Attached' = Attached
    BY <1>1, <1>2, <1>4, <1>7, AttachedMoves
  <1>9. \A i : IsOutermost(i)' <=> IsOutermost(i)
    BY <1>8 DEF IsOutermost
  <1>10. TypeOK'
    <2>1. listening' \subseteq Signal /\ canceled' \in BOOLEAN /\ progress' \in BOOLEAN
          /\ isCanceled' \subseteq Signal /\ canceling' \subseteq Signal
      BY <1>1, <1>4 DEF ConnectionInvariant, TypeOK
    <2> QED  BY <1>1, <1>2, <2>1, TypesMoved DEF ConnectionInvariant
  <1>11. StatementsAccounted' /\ OperationsNest'
    BY <1>1, <1>2, SameStatements, NestKept
  <1>12. \A i \in Attached' : /\ IsOutermost(i)' /\ ops'[i].pc # "listen"
                              /\ ops'[i].signal = Top.signal
    BY <1>2, <1>5, <1>7, <1>8, <1>9
  <1>13. listening' = {Top.signal} /\ canceling' = {} /\ (canceled' => Top.signal \in isCanceled')
    BY <1>1, <1>5, <1>6
  <1>14. Attached' # {} /\ attached' = Cardinality(Attached') /\ progress'
    BY <1>1, <1>3, <1>7, <1>8 DEF AttachmentsCounted
  <1>15. AttachmentsCounted'
    BY <1>12, <1>13, <1>14 DEF AttachmentsCounted
  <1> QED  BY <1>10, <1>11, <1>15 DEF ConnectionInvariant

\* The innermost detaches; when it was the last, the handler is gone and nobody listens.
LEMMA DetachKeeps ==
  ASSUME ConnectionInvariant, ~Corrupt, Detach  PROVE ConnectionInvariant'
  <1>1. /\ ops # <<>> /\ Top.pc = "detach" /\ Goto("release") /\ attached' = attached - 1
        /\ UNCHANGED <<open, statementVars, isCanceled, canceling, logVars>>
    BY DEF Detach, At
  <1>2. Moves /\ ops'[Len(ops)].pc = "release"
    BY <1>1, GotoFacts DEF Pcs
  <1>3. AttachmentsCounted /\ OperationsNest
    BY DEF ConnectionInvariant
  <1>4. Top.signal \in Signal \ {None} /\ Len(ops) \in Attached
    <2>1. Top.signal # None
      BY <1>1, <1>3, TopFacts DEF OperationsNest
    <2> QED  BY <1>1, <2>1, TopFacts DEF Attached
  <1>5. Attached' = Attached \ {Len(ops)}
    BY <1>1, <1>2, AttachedMoves
  <1>6. attached' = Cardinality(Attached') /\ attached \in Nat \ {0}
    BY <1>1, <1>4, <1>5, AttachedFacts, FS_RemoveElement
  <1>7. StatementsAccounted' /\ OperationsNest'
    BY <1>1, <1>2, SameStatements, NestKept
  <1>8. CASE attached = 1
    <2>1. /\ Top.signal \notin canceling /\ listening' = listening \ {Top.signal}
          /\ canceled' = FALSE /\ progress' = FALSE
      BY <1>8 DEF Detach, MayDetach
    <2>2. TypeOK'
      <3>1. listening' \subseteq Signal /\ canceled' \in BOOLEAN /\ progress' \in BOOLEAN
            /\ isCanceled' \subseteq Signal /\ canceling' \subseteq Signal
        BY <1>1, <2>1 DEF ConnectionInvariant, TypeOK
      <3> QED  BY <1>1, <1>2, <3>1, TypesMoved DEF ConnectionInvariant
    <2>3. Attached = {Len(ops)} /\ Attached' = {}
      BY <1>4, <1>5, <1>8, AttachedFacts
    <2>4. listening \subseteq {Top.signal}
      BY <1>3, <2>3, TopFacts, <1>1 DEF AttachmentsCounted
    <2>5. listening' = {} /\ canceling' = {}
      BY <1>1, <1>3, <2>1, <2>4 DEF AttachmentsCounted
    <2>6. AttachmentsCounted'
      BY <1>6, <2>1, <2>3, <2>5 DEF AttachmentsCounted
    <2> QED  BY <1>7, <2>2, <2>6 DEF ConnectionInvariant
  <1>9. CASE attached # 1
    <2>1. UNCHANGED <<listening, canceled, progress>>
      BY <1>9 DEF Detach
    <2>2. TypeOK'
      <3>1. listening' \subseteq Signal /\ canceled' \in BOOLEAN /\ progress' \in BOOLEAN
            /\ isCanceled' \subseteq Signal /\ canceling' \subseteq Signal
        BY <1>1, <2>1 DEF ConnectionInvariant, TypeOK
      <3> QED  BY <1>1, <1>2, <3>1, TypesMoved DEF ConnectionInvariant
    <2>3. Attached' # {}
      BY <1>4, <1>5, <1>9, AttachedFacts
    <2>4. ~IsOutermost(Len(ops))
      <3>1. PICK j \in Attached : j # Len(ops)
        BY <1>5, <2>3
      <3>2. \A n \in Nat : \A i \in 1 .. n : i # n => ~(n <= i)
        OBVIOUS
      <3>3. ~(Len(ops) <= j)
        BY <1>1, <3>1, <3>2, AttachedFacts, TopFacts, Zenon
      <3> QED  BY <3>1, <3>3 DEF IsOutermost
    <2>5. \A i \in Attached : IsOutermost(i) => i \in Attached' /\ IsOutermost(i)'
      BY <1>5, <2>4 DEF IsOutermost
    <2>6. \A i \in Attached' : ops'[i] = ops[i]
      BY <1>2, <1>5, AttachedFacts DEF Moves
    <2>7. \A i \in Attached' : ops'[i].pc = "listen" => IsOutermost(i)' /\ ~canceled'
      BY <1>3, <1>5, <2>1, <2>5, <2>6 DEF AttachmentsCounted
    <2>8. \A g \in listening' : \E i \in Attached' :
            IsOutermost(i)' /\ ops'[i].pc # "listen" /\ ops'[i].signal = g
      BY <1>3, <2>1, <2>5, <2>6 DEF AttachmentsCounted
    <2>9. progress' /\ canceled' =>
            \E i \in Attached' : IsOutermost(i)' /\ ops'[i].signal \in isCanceled'
      BY <1>1, <1>3, <2>1, <2>5, <2>6 DEF AttachmentsCounted
    <2>10. (progress' <=> Attached' # {}) /\ canceling' \subseteq listening' \cap isCanceled'
      BY <1>1, <1>3, <1>4, <2>1, <2>3 DEF AttachmentsCounted
    <2>11. AttachmentsCounted'
      BY <1>6, <2>7, <2>8, <2>9, <2>10 DEF AttachmentsCounted
    <2> QED  BY <1>7, <2>2, <2>11 DEF ConnectionInvariant
  <1> QED  BY <1>8, <1>9

\* Canceling a signal changes no flag before the listener runs.
LEMMA CancelKeeps ==
  ASSUME ConnectionInvariant, ~Corrupt, NEW g \in Signal, Cancel(g)  PROVE ConnectionInvariant'
  <1>1. /\ isCanceled' = isCanceled \cup {g} /\ canceling' = canceling \cup ({g} \cap listening)
        /\ UNCHANGED <<open, sqlOf, inUse, inCache, cache, ops, attached, progress, canceled,
                       listening, log, generation>>
    BY DEF Cancel, statementVars, logVars
  <1>2. TypeOK'
    BY <1>1 DEF ConnectionInvariant, TypeOK
  <1>3. StatementsAccounted' /\ OperationsNest'
    BY <1>1 DEF ConnectionInvariant, StatementsAccounted, OperationsNest, Live, Held, Corrupt
  <1>4. Attached' = Attached
    BY <1>1 DEF Attached
  <1>5. \A i : IsOutermost(i)' <=> IsOutermost(i)
    BY <1>4 DEF IsOutermost
  <1>6. AttachmentsCounted'
    BY <1>1, <1>4, <1>5 DEF ConnectionInvariant, AttachmentsCounted
  <1> QED  BY <1>2, <1>3, <1>6 DEF ConnectionInvariant

\* The listener sets the flag for the outermost operation, whose signal was canceled.
LEMMA OnCancelKeeps ==
  ASSUME ConnectionInvariant, ~Corrupt, NEW g \in Signal, OnCancel(g)  PROVE ConnectionInvariant'
  <1>1. /\ g \in canceling /\ canceled' = TRUE /\ canceling' = canceling \ {g}
        /\ UNCHANGED <<open, sqlOf, inUse, inCache, cache, ops, attached, progress, isCanceled,
                       listening, log, generation>>
    BY DEF OnCancel, statementVars, logVars
  <1>2. TypeOK'
    BY <1>1 DEF ConnectionInvariant, TypeOK
  <1>3. StatementsAccounted' /\ OperationsNest'
    BY <1>1 DEF ConnectionInvariant, StatementsAccounted, OperationsNest, Live, Held, Corrupt
  <1>4. Attached' = Attached
    BY <1>1 DEF Attached
  <1>5. \A i : IsOutermost(i)' <=> IsOutermost(i)
    BY <1>4 DEF IsOutermost
  <1>6. PICK i \in Attached : IsOutermost(i) /\ ops[i].pc # "listen" /\ ops[i].signal = g
    BY <1>1 DEF ConnectionInvariant, AttachmentsCounted
  <1>7. g \in isCanceled
    BY <1>1 DEF ConnectionInvariant, AttachmentsCounted
  <1>8. \A j \in Attached : ops[j].pc # "listen"
    BY <1>6, AttachedFacts DEF ConnectionInvariant, AttachmentsCounted
  <1>9. AttachmentsCounted'
    BY <1>1, <1>4, <1>5, <1>6, <1>7, <1>8 DEF ConnectionInvariant, AttachmentsCounted
  <1> QED  BY <1>2, <1>3, <1>9 DEF ConnectionInvariant

-----------------------------------------------------------------------------
(* The log.                                                                *)

\* A cookie gives an entry of the ring.
LEMMA IndexInLog == \A c \in Nat : IndexOf(c) \in 0 .. RecentOps - 1
  BY ConnectionAssumption DEF IndexOf

\* The beginning of an operation writes one entry, its own.
LEMMA LoggedFacts ==
  ASSUME ConnectionInvariant, generation < MaxOperations,
         NEW f \in BOOLEAN, NEW h \in BOOLEAN, Logged(f, h)
  PROVE  /\ log' \in [0 .. RecentOps - 1 -> LogEntry]
         /\ generation' \in 0 .. MaxOperations
         /\ generation \in 0 .. MaxOperations
         /\ \A i \in 0 .. RecentOps - 1 : log'[i] # log[i] => log'[i].cookie = generation
  <1>1. /\ generation \in 0 .. MaxOperations /\ log \in [0 .. RecentOps - 1 -> LogEntry]
        /\ MaxOperations \in Nat
    BY ConnectionAssumption DEF ConnectionInvariant, TypeOK
  <1>2. generation' \in 0 .. MaxOperations
    BY <1>1 DEF Logged
  <1>3. IndexOf(generation) \in 0 .. RecentOps - 1
    BY <1>1, IndexInLog
  <1> DEFINE e == [cookie |-> generation, finished |-> f, failed |-> h]
  <1>4. e \in LogEntry /\ e.cookie = generation
    BY <1>1 DEF LogEntry
  <1>5. log' = [log EXCEPT ![IndexOf(generation)] = e]
    BY DEF Logged
  <1> HIDE DEF e
  <1> QED  BY <1>1, <1>2, <1>3, <1>4, <1>5

\* Its end writes an entry with its cookie or none.
LEMMA LogEndFacts ==
  ASSUME ConnectionInvariant, NEW c \in 0 .. MaxOperations, NEW t \in BOOLEAN, LogEnd(c, t)
  PROVE  /\ log' \in [0 .. RecentOps - 1 -> LogEntry] /\ generation' = generation
         /\ \A i \in 0 .. RecentOps - 1 : log'[i] # log[i] => log'[i].cookie = c
  <1>1. log \in [0 .. RecentOps - 1 -> LogEntry]
    BY DEF ConnectionInvariant, TypeOK
  <1>2. IndexOf(c) \in 0 .. RecentOps - 1
    BY IndexInLog, ConnectionAssumption
  <1>3. CASE IsEntryOf(c)
    <2> DEFINE old == log[IndexOf(c)]
               e == [old EXCEPT !.finished = TRUE, !.failed = t]
    <2>1. old \in LogEntry /\ old.cookie = c
      BY <1>1, <1>2, <1>3 DEF IsEntryOf
    <2>2. e \in LogEntry /\ e.cookie = c
      BY <2>1 DEF LogEntry
    <2>3. log' = [log EXCEPT ![IndexOf(c)] = e]
      BY <1>1, <1>2, <1>3 DEF LogEnd
    <2> HIDE DEF e, old
    <2>4. generation' = generation
      BY DEF LogEnd
    <2> QED  BY <1>1, <1>2, <2>2, <2>3, <2>4
  <1>4. CASE ~IsEntryOf(c)
    BY <1>1, <1>4 DEF LogEnd
  <1> QED  BY <1>3, <1>4

-----------------------------------------------------------------------------
(* Operations begin and end.                                               *)

\* A new operation is innermost and not attached.
LEMMA BeginFacts ==
  ASSUME ConnectionInvariant, ~Corrupt, MayBegin, NEW s \in Stmt, NEW g \in Signal \cup {None},
         ops' = Append(ops, Operation(s, g)), UNCHANGED <<open, cancelVars>>
  PROVE  /\ ops' \in Seq(OperationRecord)
         /\ Held' = Held \cup {s}
         /\ Held' \subseteq Stmt
         /\ inUse' \subseteq Held \cup {s} => OperationsNest'
         /\ AttachmentsCounted'
         /\ ~Corrupt' => s \notin Held /\ \A x \in Held' : sqlOf'[x] # None
  <1> DEFINE n == Len(ops)
             e == Operation(s, g)
  <1>1. /\ ops \in Seq(OperationRecord) /\ generation \in 0 .. MaxOperations
        /\ n \in Nat /\ DOMAIN ops = 1 .. n /\ n < MaxDepth /\ MaxDepth \in Nat
        /\ open /\ (ops = <<>> \/ At("running"))
    BY SequenceFacts, ConnectionAssumption DEF ConnectionInvariant, TypeOK, MayBegin
  <1>2. e \in OperationRecord /\ e.statement = s /\ e.pc = "bind"
    BY <1>1 DEF Operation, OperationRecord
  <1> HIDE DEF e
  <1>3. /\ ops' \in Seq(OperationRecord) /\ ops' # <<>> /\ Len(ops') = n + 1
        /\ \A i \in 1 .. n : ops'[i] = ops[i]
        /\ ops'[n + 1] = e /\ DOMAIN ops' = 1 .. n + 1
    <2>1. ops' = Append(ops, e)
      BY DEF e
    <2>2. /\ Append(ops, e) \in Seq(OperationRecord) /\ Append(ops, e) # <<>>
          /\ Len(Append(ops, e)) = n + 1
          /\ \A i \in 1 .. n : Append(ops, e)[i] = ops[i]
          /\ Append(ops, e)[n + 1] = e
      BY <1>1, <1>2, AppendProperties
    <2> QED  BY <2>1, <2>2, SequenceFacts
  <1>4. n \in Nat /\ Len(ops) = n
    BY <1>1
  <1> HIDE DEF n
  <1>5. /\ \A i \in DOMAIN ops' : (i \in DOMAIN ops /\ ops'[i] = ops[i]) \/ i = n + 1
        /\ \A i \in DOMAIN ops : i \in DOMAIN ops' /\ i # n + 1
        /\ n + 1 \in DOMAIN ops'
    BY <1>1, <1>3
  <1>6. \A i \in DOMAIN ops : ops[i].pc = "running"
    <2>1. CASE ops = <<>>
      BY <2>1
    <2>2. CASE ops # <<>> /\ At("running")
      BY <2>2, TopFacts DEF At
    <2> QED  BY <1>1, <2>1, <2>2
  <1>8. Held' = Held \cup {s}
    <2>1. \A x \in Held : x \in Held'
      BY <1>3, <1>5 DEF Held
    <2>2. s \in Held'
      BY <1>2, <1>3, <1>5 DEF Held
    <2>3. \A x \in Held' : x \in Held \cup {s}
      BY <1>2, <1>3, <1>5 DEF Held
    <2> QED  BY <2>1, <2>2, <2>3
  <1>9. Held \subseteq Stmt
    <2>1. \A i \in DOMAIN ops : ops[i] \in OperationRecord
      BY <1>1, SequenceFacts
    <2> QED  BY <2>1 DEF Held, OperationRecord
  <1>10. ASSUME inUse' \subseteq Held \cup {s} PROVE OperationsNest'
    <2>1. \A i \in DOMAIN ops' : i < Len(ops') => ops'[i].pc = "running"
      <3>1. \A i \in DOMAIN ops' : i < n + 1 => i # n + 1
        BY <1>3, <1>4
      <3> QED  BY <3>1, <1>3, <1>5, <1>6, Zenon
    <2>2. \A i \in DOMAIN ops' : ops'[i].pc \in {"listen", "detach"} => ops'[i].signal # None
      BY <1>2, <1>3, <1>5, <1>6
    <2>3. open' /\ Len(ops') <= MaxDepth
      BY <1>1, <1>3
    <2> QED  BY <1>10, <1>8, <2>1, <2>2, <2>3 DEF OperationsNest
  <1>11. Attached' = Attached
    BY <1>2, <1>3, <1>5 DEF Attached
  <1>12. \A i \in Attached : /\ ops'[i].signal = ops[i].signal
                             /\ ops'[i].pc = "listen" => ops[i].pc = "listen"
    BY <1>1, <1>3 DEF Attached
  <1>13. AttachmentsCounted'
    BY <1>11, <1>12, SameAttachments
  <1>14. ASSUME ~Corrupt' PROVE s \notin Held /\ \A x \in Held' : sqlOf'[x] # None
    <2>1. \A i \in DOMAIN ops' : sqlOf'[ops'[i].statement] # None
      BY <1>14 DEF Corrupt
    <2>2. \A i, j \in DOMAIN ops' : i # j => ops'[i].statement # ops'[j].statement
      BY <1>14 DEF Corrupt
    <2>3. \A i \in DOMAIN ops : ops[i].statement # s
      BY <2>2, <1>1, <1>2, <1>3, <1>5
    <2> QED  BY <2>1, <2>3 DEF Held
  <1> QED  BY <1>3, <1>8, <1>9, <1>10, <1>13, <1>14

\* A statement from the cache is taken, without being marked.
LEMMA UseCachedKeeps ==
  ASSUME ConnectionInvariant, ~Corrupt, NEW q \in Sql, NEW g \in Signal \cup {None}, UseCached(q, g)
  PROVE  ConnectionInvariant'
  <1>1. PICK s \in CachedFor(q) \ inUse : ops' = Append(ops, Operation(s, g))
    BY DEF UseCached
  <1>2. /\ MayBegin /\ cache' = Touched(q) /\ Logged(FALSE, FALSE)
        /\ UNCHANGED <<open, sqlOf, inUse, inCache, cancelVars>>
    BY DEF UseCached
  <1>3. /\ TypeOK /\ StatementsAccounted /\ OperationsNest
        /\ generation < MaxOperations
    BY <1>2 DEF ConnectionInvariant, MayBegin
  <1>4. s \in Range(cache) /\ s \in Stmt
    BY <1>1, CacheFacts DEF CachedFor
  <1>5. /\ ops' \in Seq(OperationRecord) /\ Held' = Held \cup {s} /\ AttachmentsCounted'
        /\ inUse' \subseteq Held \cup {s} => OperationsNest'
    BY <1>1, <1>2, <1>4, BeginFacts
  <1>6. /\ cache' \in Seq(Stmt) /\ Len(cache') = Len(cache) /\ IsInjective(cache')
        /\ Range(cache') = Range(cache)
    BY <1>2, CacheFacts, TouchedFacts
  <1>7. log' \in [0 .. RecentOps - 1 -> LogEntry] /\ generation' \in 0 .. MaxOperations
    BY <1>2, <1>3, LoggedFacts
  <1>8. TypeOK'
    BY <1>2, <1>3, <1>5, <1>6, <1>7 DEF TypeOK, cancelVars
  <1>9. \A i, j \in DOMAIN cache' : sqlOf'[cache'[i]] = sqlOf'[cache'[j]] => i = j
    BY <1>2, <1>6, CacheFacts, OneForEachText
  <1>10. Live' = Live
    BY <1>2 DEF Live
  <1>11. StatementsAccounted'
    BY <1>2, <1>3, <1>4, <1>5, <1>6, <1>9, <1>10 DEF StatementsAccounted
  <1>12. OperationsNest'
    BY <1>2, <1>3, <1>5 DEF OperationsNest
  <1> QED  BY <1>5, <1>8, <1>11, <1>12 DEF ConnectionInvariant

\* A new statement is marked, and cached if it may be, which may push out another.
LEMMA UsePreparedKeeps ==
  ASSUME ConnectionInvariant, ~Corrupt, NEW q \in Sql, NEW g \in Signal \cup {None}, UsePrepared(q, g)
  PROVE  ConnectionInvariant'
  <1> DEFINE kept(s) == IF CachedFor(q) = {} /\ q \in Cacheable THEN <<s>> ELSE <<>>
             full(s) == Touched(q) \o kept(s)
             out(s) == PushedOut(full(s))
  <1>1. PICK s \in Stmt \ Live :
          /\ cache' = Trimmed(full(s))
          /\ sqlOf' = [Unprepared(Finalizes(out(s))) EXCEPT ![s] = q]
          /\ inCache' = FlagsWithout(out(s)) \cup Range(kept(s))
          /\ inUse' = inUse \cup {s}
          /\ ops' = Append(ops, Operation(s, g))
    BY DEF UsePrepared
  <1>2. /\ MayBegin /\ CachedFor(q) \subseteq inUse /\ Logged(FALSE, FALSE)
        /\ UNCHANGED <<open, cancelVars>>
    BY DEF UsePrepared
  <1>3. /\ TypeOK /\ StatementsAccounted /\ OperationsNest
        /\ generation < MaxOperations /\ q # None /\ open
    BY <1>2, ConnectionAssumption DEF ConnectionInvariant, MayBegin
  <1>4. /\ ops' \in Seq(OperationRecord) /\ Held' = Held \cup {s} /\ AttachmentsCounted'
        /\ inUse' \subseteq Held \cup {s} => OperationsNest'
        /\ ~Corrupt' => \A x \in Held' : sqlOf'[x] # None
    BY <1>1, <1>2, BeginFacts
  <1>5. s \notin Range(cache) /\ s \in Stmt
    BY <1>1, <1>3 DEF StatementsAccounted
  \* What the cache is before the eldest is pushed out of it.
  <1>6. /\ full(s) \in Seq(Stmt) /\ Len(full(s)) <= CacheSize + 1 /\ IsInjective(full(s))
        /\ Range(full(s)) = Range(cache) \cup Range(kept(s))
        /\ Range(kept(s)) \subseteq {s}
        /\ Range(kept(s)) # {} => CachedFor(q) = {}
        /\ out(s) \subseteq Range(cache)

    <2> DEFINE d == Touched(q)
    <2>1. /\ d \in Seq(Stmt) /\ Len(d) = Len(cache) /\ IsInjective(d) /\ Range(d) = Range(cache)
          /\ Len(d) \in Nat /\ CacheSize \in Nat \ {0} /\ Len(d) <= CacheSize
      <3>1. d \in Seq(Stmt) /\ Len(d) = Len(cache) /\ IsInjective(d) /\ Range(d) = Range(cache)
        BY CacheFacts, TouchedFacts
      <3>2. Len(d) \in Nat
        BY <3>1, SequenceFacts
      <3> QED  BY <1>3, <3>1, <3>2, ConnectionAssumption DEF TypeOK
    <2> HIDE DEF d
    <2>2. CASE CachedFor(q) = {} /\ q \in Cacheable
      <3>1. kept(s) = <<s>> /\ Range(<<s>>) = {s}
        BY <2>2 DEF Range
      <3>2. full(s) = Append(d, s)
        BY <1>5, <2>1, <3>1, AppendIsConcat DEF d
      <3>3. /\ Append(d, s) \in Seq(Stmt) /\ Len(Append(d, s)) = Len(d) + 1
            /\ IsInjective(Append(d, s)) /\ Range(Append(d, s)) = Range(d) \cup {s}
        BY <1>5, <2>1, AppendFacts
      <3>4. out(s) \subseteq Range(cache)
        <4>1. CASE d = <<>>
          <5>1. ~(Len(Append(d, s)) > CacheSize)
            BY <2>1, <3>3, <4>1
          <5> QED  BY <3>2, <5>1 DEF PushedOut
        <4>2. CASE d # <<>>
          <5>1. Head(Append(d, s)) = Head(d)
            BY <2>1, <4>2, HeadTailAppend
          <5>2. 1 \in 1 .. Len(d) /\ Head(d) = d[1]
            BY <2>1, <4>2, SequenceFacts
          <5>3. Head(d) \in Range(cache)
            BY <2>1, <5>2, SequenceFacts
          <5> QED  BY <3>2, <5>1, <5>3 DEF PushedOut
        <4> QED  BY <4>1, <4>2
      <3> HIDE DEF kept, full, out
      <3> QED  BY <2>1, <2>2, <3>1, <3>2, <3>3, <3>4
    <2>3. CASE ~(CachedFor(q) = {} /\ q \in Cacheable)
      <3>1. kept(s) = <<>> /\ Range(<<>>) = {}
        BY <2>3 DEF Range
      <3>2. full(s) = d
        BY <2>1, <3>1, ConcatEmptySeq DEF d
      <3>3. PushedOut(d) \subseteq Range(d)
        BY <2>1, TrimmedFacts
      <3>4. out(s) \subseteq Range(cache)
        BY <2>1, <3>2, <3>3
      <3> HIDE DEF kept, full, out
      <3> QED  BY <2>1, <3>1, <3>2, <3>4
    <2> QED  BY <2>2, <2>3
  <1> HIDE DEF kept, full, out
  <1>7. /\ cache' \in Seq(Stmt) /\ Len(cache') <= CacheSize /\ IsInjective(cache')
        /\ Range(cache') = (Range(cache) \cup Range(kept(s))) \ out(s)
    BY <1>1, <1>6, TrimmedFacts DEF out
  <1>8. /\ sqlOf' \in [Stmt -> Sql \cup {None}]
        /\ \A x \in Stmt : sqlOf'[x] = IF x = s THEN q
                                       ELSE IF x \in out(s) \ inUse THEN None ELSE sqlOf[x]
    BY <1>1, <1>3 DEF Unprepared, Finalizes, TypeOK
  <1>9. Live' = (Live \ (out(s) \ inUse)) \cup {s}
    BY <1>3, <1>5, <1>8 DEF Live
  <1>10. TypeOK'
    <2>1. log' \in [0 .. RecentOps - 1 -> LogEntry] /\ generation' \in 0 .. MaxOperations
      BY <1>2, <1>3, LoggedFacts
    <2>2. inUse' \subseteq Stmt /\ inCache' \subseteq Stmt
      BY <1>1, <1>3, <1>5, <1>6 DEF TypeOK, FlagsWithout
    <2> QED  BY <1>2, <1>3, <1>4, <1>7, <1>8, <2>1, <2>2 DEF TypeOK, cancelVars
  <1>11. inUse \subseteq Live /\ Live = Range(cache) \cup Held /\ inCache = Range(cache)
         /\ inUse \subseteq Held
    BY <1>3 DEF StatementsAccounted, OperationsNest
  <1>12. inUse' \subseteq Live'
    BY <1>1, <1>9, <1>11
  <1>13. ASSUME ~Corrupt' PROVE Live' = Range(cache') \cup Held'
    <2>1. \A x \in Held : x \in Stmt /\ x # s /\ sqlOf'[x] # None
      BY <1>1, <1>4, <1>11, <1>13 DEF Live
    <2>2. \A x \in Held : x \notin out(s) \ inUse
      BY <1>8, <2>1
    <2> QED  BY <1>4, <1>6, <1>7, <1>9, <1>11, <2>2
  <1>14. inCache' = Range(cache')
    BY <1>1, <1>5, <1>6, <1>7, <1>11 DEF FlagsWithout
  <1>15. \A i, j \in DOMAIN cache' : sqlOf'[cache'[i]] = sqlOf'[cache'[j]] => i = j
    <2>1. \A x \in Range(cache) \ out(s) : x \in Stmt /\ x # s /\ sqlOf'[x] = sqlOf[x]
      BY <1>5, <1>8, CacheFacts
    <2>2. sqlOf'[s] = q
      BY <1>5, <1>8
    <2>3. Range(kept(s)) # {} => \A x \in Range(cache) : sqlOf[x] # q
      BY <1>6 DEF CachedFor
    <2>4. \A a, b \in Range(cache') : sqlOf'[a] = sqlOf'[b] => a = b
      <3> SUFFICES ASSUME NEW a \in Range(cache'), NEW b \in Range(cache'),
                          sqlOf'[a] = sqlOf'[b]
                   PROVE  a = b
        OBVIOUS
      <3>1. \A x \in Range(cache') : x \in Range(cache) \ out(s) \/ (x = s /\ Range(kept(s)) # {})
        BY <1>6, <1>7
      <3> QED  BY <2>1, <2>2, <2>3, <3>1, CacheFacts
    <2> QED  BY <1>7, <2>4, OneForEachText
  <1>16. StatementsAccounted'
    BY <1>2, <1>3, <1>12, <1>13, <1>14, <1>15 DEF StatementsAccounted
  <1>17. OperationsNest'
    BY <1>1, <1>4, <1>11
  <1> QED  BY <1>4, <1>10, <1>16, <1>17 DEF ConnectionInvariant

\* Only the cache and the log change, the cache by LruCache.get alone.
LEMMA TouchKeeps ==
  ASSUME ConnectionInvariant, ~Corrupt, NEW q \in Sql, cache' = Touched(q),
         UNCHANGED <<open, sqlOf, inUse, inCache, ops, cancelVars>>,
         log' \in [0 .. RecentOps - 1 -> LogEntry], generation' \in 0 .. MaxOperations
  PROVE  ConnectionInvariant'
  <1>1. TypeOK /\ StatementsAccounted /\ OperationsNest
    BY DEF ConnectionInvariant
  <1>2. /\ cache' \in Seq(Stmt) /\ Len(cache') = Len(cache) /\ IsInjective(cache')
        /\ Range(cache') = Range(cache)
    BY CacheFacts, TouchedFacts
  <1>3. TypeOK'
    BY <1>1, <1>2 DEF TypeOK, cancelVars
  <1>4. \A i, j \in DOMAIN cache' : sqlOf'[cache'[i]] = sqlOf'[cache'[j]] => i = j
    BY <1>2, CacheFacts, OneForEachText
  <1>5. Live' = Live /\ Held' = Held /\ Attached' = Attached
    BY DEF Live, Held, Attached
  <1>6. StatementsAccounted'
    BY <1>1, <1>2, <1>4, <1>5 DEF StatementsAccounted
  <1>7. OperationsNest'
    BY <1>1, <1>5 DEF OperationsNest
  <1>8. AttachmentsCounted'
    BY <1>5, SameAttachments
  <1> QED  BY <1>3, <1>6, <1>7, <1>8 DEF ConnectionInvariant

\* Preparing that throws leaves the log's entry and nothing else.
LEMMA PrepareThrowsKeeps ==
  ASSUME ConnectionInvariant, ~Corrupt, NEW q \in Sql, PrepareThrows(q)
  PROVE  ConnectionInvariant'
  <1>1. generation < MaxOperations /\ Logged(TRUE, TRUE)
    BY DEF PrepareThrows, MayBegin
  <1>2. log' \in [0 .. RecentOps - 1 -> LogEntry] /\ generation' \in 0 .. MaxOperations
    BY <1>1, LoggedFacts
  <1> QED  BY <1>2, TouchKeeps DEF PrepareThrows

\* A question asked of the cache reorders it.
LEMMA IsInCacheKeeps ==
  ASSUME ConnectionInvariant, ~Corrupt, NEW q \in Sql, IsPreparedStatementInCache(q)
  PROVE  ConnectionInvariant'
  <1>1. log' \in [0 .. RecentOps - 1 -> LogEntry] /\ generation' \in 0 .. MaxOperations
    BY DEF IsPreparedStatementInCache, logVars, ConnectionInvariant, TypeOK
  <1> QED  BY <1>1, TouchKeeps DEF IsPreparedStatementInCache

\* Without the innermost operation, the others are as they were.
LEMMA PoppedFacts ==
  ASSUME ConnectionInvariant, ~Corrupt, ops # <<>>, ops' = Front(ops)
  PROVE  /\ ops' \in Seq(OperationRecord)
         /\ Held' = Held \ {Top.statement}
         /\ DOMAIN ops' = 1 .. Len(ops) - 1 /\ Len(ops') = Len(ops) - 1
         /\ \A i \in 1 .. Len(ops) - 1 :
              i \in 1 .. Len(ops) /\ i # Len(ops) /\ ops'[i] = ops[i] /\ ops[i].pc = "running"
         /\ Attached' = Attached \ {Len(ops)}
  <1> DEFINE n == Len(ops)
  <1>1. /\ ops \in Seq(OperationRecord) /\ n \in Nat \ {0} /\ DOMAIN ops = 1 .. n
        /\ \A i \in 1 .. n : ops[i] \in OperationRecord
        /\ Top = ops[n]
        /\ \A i \in 1 .. n : i # n => ops[i].pc = "running"
    BY TopFacts
  <1>2. ops' = SubSeq(ops, 1, n - 1)
    BY DEF Front
  <1> HIDE DEF n
  <1>3. \A i \in 1 .. n - 1 : i \in 1 .. n /\ i # n
    BY <1>1
  <1>4. /\ ops' \in Seq(OperationRecord) /\ Len(ops') = n - 1
        /\ \A i \in 1 .. n - 1 : ops'[i] = ops[i]
    <2>1. /\ ops' \in Seq(OperationRecord)
          /\ Len(ops') = IF 1 <= n - 1 THEN (n - 1) - 1 + 1 ELSE 0
          /\ \A i \in 1 .. (n - 1) - 1 + 1 : ops'[i] = ops[1 + i - 1]
      BY <1>1, <1>2, <1>3, SubSeqProperties
    <2> QED  BY <1>1, <2>1
  <1>5. DOMAIN ops' = 1 .. n - 1
    BY <1>4, SequenceFacts
  <1>6. \A i \in 1 .. n : i # n => i \in 1 .. n - 1
    BY <1>1
  <1>7. n \in 1 .. n
    BY <1>1
  <1>8. \A i \in 1 .. n : i # n => ops[i].statement # ops[n].statement
    BY <1>1, <1>7 DEF Corrupt
  <1>9. Held' = Held \ {Top.statement}
    <2>1. \A i \in DOMAIN ops' : ops'[i].statement \in Held /\ ops'[i].statement # Top.statement
      BY <1>1, <1>3, <1>4, <1>5, <1>8 DEF Held
    <2>2. \A i \in DOMAIN ops : i = n \/ (i \in DOMAIN ops' /\ ops'[i] = ops[i])
      BY <1>1, <1>4, <1>5, <1>6
    <2>3. \A x \in Held \ {Top.statement} : x \in Held'
      BY <1>1, <2>2 DEF Held
    <2>4. \A x \in Held' : x \in Held \ {Top.statement}
      BY <2>1 DEF Held
    <2> QED  BY <2>3, <2>4
  <1>10. Attached' = Attached \ {n}
    <2>1. \A i : i \in DOMAIN ops' <=> i \in DOMAIN ops /\ i # n
      BY <1>1, <1>3, <1>5, <1>6
    <2>2. \A i \in DOMAIN ops' : ops'[i] = ops[i]
      BY <1>4, <1>5
    <2> QED  BY <2>1, <2>2 DEF Attached
  <1> QED  BY <1>1, <1>3, <1>4, <1>5, <1>9, <1>10 DEF n

\* A released statement stays cached or is finalized, and is held by nobody.
LEMMA ReleaseKeeps ==
  ASSUME ConnectionInvariant, ~Corrupt, Release  PROVE ConnectionInvariant'
  <1> DEFINE s == Top.statement
             D == Discarded(s)
  <1>1. /\ ops # <<>> /\ Top.pc = "release"
        /\ inUse' = inUse \ {s} /\ inCache' = inCache \ D
        /\ cache' = IF s \in D THEN Without(s) ELSE cache
        /\ sqlOf' = Unprepared(D)
        /\ LogEnd(Top.cookie, Top.outcome # "done")
        /\ ops' = Front(ops) /\ UNCHANGED <<open, cancelVars>>
    BY DEF Release, At
  <1>2. D = (IF s \notin inCache \/ Top.outcome = "failed" THEN {s} ELSE {})
    BY DEF Discarded
  <1>3. s \in Stmt /\ Top.cookie \in 0 .. MaxOperations
    BY <1>1, TopFacts DEF OperationRecord
  <1>4. s \in Held
    BY <1>1, TopFacts DEF Held
  <1> HIDE DEF s, D
  <1>5. /\ ops' \in Seq(OperationRecord) /\ Held' = Held \ {s}
        /\ Attached' = Attached \ {Len(ops)}
        /\ DOMAIN ops' = 1 .. Len(ops) - 1 /\ Len(ops') = Len(ops) - 1
        /\ \A i \in 1 .. Len(ops) - 1 :
             i \in 1 .. Len(ops) /\ i # Len(ops) /\ ops'[i] = ops[i] /\ ops[i].pc = "running"
    BY <1>1, PoppedFacts DEF s
  <1>6. TypeOK /\ StatementsAccounted /\ OperationsNest /\ open
    BY <1>1 DEF ConnectionInvariant, OperationsNest
  <1>7. /\ cache' \in Seq(Stmt) /\ Len(cache') <= CacheSize /\ IsInjective(cache')
        /\ Range(cache') = Range(cache) \ D
    <2>1. Len(cache) \in Nat /\ CacheSize \in Nat /\ Len(cache) <= CacheSize /\ D \subseteq {s}
      BY <1>2, <1>6, CacheFacts, SequenceFacts, ConnectionAssumption DEF TypeOK
    <2>2. CASE s \in D /\ s \in Range(cache)
      BY <1>1, <2>1, <2>2, CacheFacts, WithoutFacts
    <2>3. CASE s \in D /\ s \notin Range(cache)
      <3>1. cache' = cache
        BY <1>1, <2>3 DEF Without
      <3> QED  BY <2>1, <2>3, <3>1, CacheFacts
    <2>4. CASE s \notin D
      BY <1>1, <2>1, <2>4, CacheFacts
    <2> QED  BY <2>2, <2>3, <2>4
  <1>8. /\ sqlOf' \in [Stmt -> Sql \cup {None}]
        /\ \A x \in Stmt : sqlOf'[x] = IF x \in D THEN None ELSE sqlOf[x]
    BY <1>1, <1>6 DEF Unprepared, TypeOK
  <1>9. Live' = Live \ D
    BY <1>8 DEF Live
  <1>10. log' \in [0 .. RecentOps - 1 -> LogEntry] /\ generation' = generation
    <2>1. (Top.outcome # "done") \in BOOLEAN
      OBVIOUS
    <2> QED  BY <1>1, <1>3, <2>1, LogEndFacts
  <1>11. TypeOK'
    BY <1>1, <1>5, <1>6, <1>7, <1>8, <1>10 DEF TypeOK, cancelVars
  <1>12. /\ Live = Range(cache) \cup Held /\ inCache = Range(cache)
         /\ inUse \subseteq Live /\ inUse \subseteq Held
    BY <1>6 DEF StatementsAccounted, OperationsNest
  <1>13. inUse' \subseteq Live' /\ Live' = Range(cache') \cup Held' /\ inCache' = Range(cache')
    BY <1>1, <1>2, <1>5, <1>7, <1>9, <1>12
  <1>14. \A i, j \in DOMAIN cache' : sqlOf'[cache'[i]] = sqlOf'[cache'[j]] => i = j
    <2>1. \A x \in Range(cache') : x \in Range(cache) /\ sqlOf'[x] = sqlOf[x]
      BY <1>7, <1>8, CacheFacts
    <2>2. \A a, b \in Range(cache') : sqlOf'[a] = sqlOf'[b] => a = b
      BY <2>1, CacheFacts
    <2> QED  BY <1>7, <2>2, OneForEachText
  <1>15. StatementsAccounted'
    BY <1>1, <1>6, <1>13, <1>14 DEF StatementsAccounted
  <1>16. OperationsNest'
    <2>1. Len(ops') <= MaxDepth
      BY <1>1, <1>5, <1>6, TopFacts, ConnectionAssumption DEF OperationsNest
    <2>2. \A i \in DOMAIN ops' : ops'[i].pc = "running"
      BY <1>5
    <2>3. inUse' \subseteq Held' /\ open'
      BY <1>1, <1>5, <1>6, <1>12
    <2> QED  BY <2>1, <2>2, <2>3 DEF OperationsNest
  <1>17. AttachmentsCounted'
    <2>1. Len(ops) \notin Attached
      BY <1>1, TopFacts DEF Attached
    <2>2. Attached' = Attached
      BY <1>5, <2>1
    <2>3. \A i \in Attached : ops'[i] = ops[i]
      BY <1>5, <2>2 DEF Attached
    <2> QED  BY <1>1, <2>2, <2>3, SameAttachments
  <1> QED  BY <1>11, <1>15, <1>16, <1>17 DEF ConnectionInvariant

\* Closing evicts the cache when no operation is under way.
LEMMA CloseKeeps ==
  ASSUME ConnectionInvariant, ~Corrupt, Close  PROVE ConnectionInvariant'
  <1> DEFINE gone == Finalizes(Range(cache))
  <1>1. /\ open /\ ops = <<>> /\ generation < MaxOperations
        /\ cache' = <<>> /\ inCache' = FlagsWithout(Range(cache)) /\ sqlOf' = Unprepared(gone)
        /\ open' = (Live # gone) /\ Logged(TRUE, FALSE)
        /\ inUse' = inUse /\ ops' = ops /\ UNCHANGED cancelVars
    BY DEF Close
  <1>2. TypeOK /\ StatementsAccounted /\ OperationsNest
    BY DEF ConnectionInvariant
  <1>3. Held = {} /\ Held' = {}
    BY <1>1 DEF Held
  <1>4. inUse = {} /\ Live = Range(cache) /\ inCache = Range(cache)
    BY <1>2, <1>3 DEF StatementsAccounted, OperationsNest
  <1>5. gone = Live
    BY <1>4 DEF Finalizes
  <1>6. \A x \in Stmt : sqlOf'[x] = None
    BY <1>1, <1>5 DEF Unprepared, Live
  <1>7. sqlOf' \in [Stmt -> Sql \cup {None}]
    BY <1>1, <1>2 DEF Unprepared, TypeOK
  <1>8. Live' = {} /\ Range(cache') = {} /\ inCache' = {} /\ DOMAIN cache' = {}
    BY <1>1, <1>4, <1>6 DEF Live, Range, FlagsWithout
  <1>9. log' \in [0 .. RecentOps - 1 -> LogEntry] /\ generation' \in 0 .. MaxOperations
    BY <1>1, LoggedFacts
  <1>10. cache' \in Seq(Stmt) /\ Len(cache') <= CacheSize
    BY <1>1, ConnectionAssumption
  <1>11. TypeOK'
    BY <1>1, <1>2, <1>4, <1>7, <1>8, <1>9, <1>10 DEF TypeOK, cancelVars
  <1>12. StatementsAccounted'
    BY <1>1, <1>3, <1>4, <1>8 DEF StatementsAccounted
  <1>13. OperationsNest'
    BY <1>1, <1>2, <1>3, <1>4 DEF OperationsNest
  <1>14. Attached' = Attached
    BY <1>1 DEF Attached
  <1>15. AttachmentsCounted'
    BY <1>1, <1>14, SameAttachments
  <1> QED  BY <1>11, <1>12, <1>13, <1>15 DEF ConnectionInvariant

-----------------------------------------------------------------------------
(* The invariant.                                                          *)

\* A new connection has nothing cached, attached or under way.
LEMMA InvariantInitially == Init => ConnectionInvariant
  <1> SUFFICES ASSUME Init PROVE ConnectionInvariant
    OBVIOUS
  <1>1. /\ ops = <<>> /\ cache = <<>> /\ DOMAIN ops = {} /\ DOMAIN cache = {}
        /\ Range(cache) = {}
    BY DEF Init, Range
  <1>2. Held = {} /\ Attached = {} /\ Live = {}
    BY <1>1 DEF Init, Held, Attached, Live
  <1>3. log \in [0 .. RecentOps - 1 -> LogEntry]
    BY DEF Init, LogEntry
  <1>4. TypeOK
    <2>1. /\ <<>> \in Seq(Stmt) /\ <<>> \in Seq(OperationRecord)
          /\ Len(<<>>) <= CacheSize /\ 0 \in 0 .. MaxOperations
      BY ConnectionAssumption, EmptySeq
    <2>2. cache \in Seq(Stmt) /\ Len(cache) <= CacheSize /\ ops \in Seq(OperationRecord)
      BY <1>1, <2>1
    <2>3. sqlOf \in [Stmt -> Sql \cup {None}]
      BY DEF Init
    <2> QED  BY <1>3, <2>1, <2>2, <2>3 DEF Init, TypeOK
  <1>5. StatementsAccounted
    BY <1>1, <1>2 DEF Init, StatementsAccounted
  <1>6. OperationsNest
    BY <1>1, ConnectionAssumption DEF Init, OperationsNest
  <1>7. AttachmentsCounted
    BY <1>2, FS_EmptySet DEF Init, AttachmentsCounted
  <1> QED  BY <1>4, <1>5, <1>6, <1>7 DEF ConnectionInvariant

\* Every step keeps the invariant of the connection.
LEMMA InvariantKept == ConnectionInvariant /\ [Next]_vars => ConnectionInvariant'
  <1> SUFFICES ASSUME ConnectionInvariant, [Next]_vars PROVE ConnectionInvariant'
    OBVIOUS
  <1>1. CASE UNCHANGED vars
    <2>1. UNCHANGED <<open, sqlOf, inUse, inCache, cache, ops, attached, progress, canceled,
                      isCanceled, listening, canceling, log, generation>>
      BY <1>1 DEF vars, statementVars, cancelVars, logVars
    <2> QED
      BY <2>1 DEF ConnectionInvariant, TypeOK, StatementsAccounted, OperationsNest,
           AttachmentsCounted, Live, Held, Corrupt, Attached, IsOutermost
  <1>2. CASE Next
    <2>1. ~Corrupt
      BY <1>2 DEF Next
    <2>2. CASE \E q \in Sql, g \in Signal \cup {None} : UseCached(q, g) \/ UsePrepared(q, g)
      BY <2>1, <2>2, UseCachedKeeps, UsePreparedKeeps
    <2>3. CASE \E q \in Sql : PrepareThrows(q)
      BY <2>1, <2>3, PrepareThrowsKeeps
    <2>4. CASE BindThrows \/ AttachNothing \/ AttachThrows \/ Attach \/ Listen
      BY <2>1, <2>4, BindThrowsKeeps, AttachNothingKeeps, AttachThrowsKeeps, AttachKeeps, ListenKeeps
    <2>5. CASE Finish \/ StepFails \/ Interrupt
      BY <2>1, <2>5, StatementEndsKeeps
    <2>6. CASE Detach \/ Release
      BY <2>1, <2>6, DetachKeeps, ReleaseKeeps
    <2>7. CASE \E q \in Sql : IsPreparedStatementInCache(q)
      BY <2>1, <2>7, IsInCacheKeeps
    <2>8. CASE Close
      BY <2>1, <2>8, CloseKeeps
    <2>9. CASE \E g \in Signal : Cancel(g) \/ OnCancel(g)
      BY <2>1, <2>9, CancelKeeps, OnCancelKeeps
    <2> QED
      BY <1>2, <2>2, <2>3, <2>4, <2>5, <2>6, <2>7, <2>8, <2>9 DEF Next, OperationStep
  <1> QED  BY <1>1, <1>2

\* The inductive invariant of the connection holds in every reachable state, with
\* whatever fails and however operations nest.
THEOREM ConnectionInvariantHolds == Spec => []ConnectionInvariant
  BY InvariantInitially, InvariantKept, PTL DEF Spec

\* Native statements are neither lost nor forgotten: none is finalized in use, those
\* that exist are cached or in use, and none is left of a connection that is closed.
THEOREM StatementsStayAccounted == Spec => []StatementsAccounted
  <1>1. ConnectionInvariant => StatementsAccounted
    BY DEF ConnectionInvariant
  <1> QED  BY <1>1, ConnectionInvariantHolds, PTL

\* A cancellation hits an operation whose signal was canceled, and onCancel only ever
\* touches a connection that is open.
THEOREM CancelHitsOwnOperationAlways == Spec => []CancelHitsOwnOperation
  <1>1. ConnectionInvariant => CancelHitsOwnOperation
    <2> SUFFICES ASSUME ConnectionInvariant PROVE CancelHitsOwnOperation
      OBVIOUS
    <2>1. AttachmentsCounted /\ OperationsNest
      BY DEF ConnectionInvariant
    <2>2. Attached \subseteq DOMAIN ops
      BY DEF Attached
    <2>3. progress /\ canceled => \E i \in DOMAIN ops : ops[i].signal \in isCanceled
      BY <2>1, <2>2 DEF AttachmentsCounted
    <2>4. ASSUME NEW g \in canceling PROVE open /\ \E i \in DOMAIN ops : ops[i].signal \in canceling
      <3>1. PICK i \in Attached : ops[i].signal = g
        BY <2>1, <2>4 DEF AttachmentsCounted
      <3>2. ops # <<>>
        BY <2>2, <3>1
      <3> QED  BY <2>1, <2>2, <2>4, <3>1, <3>2 DEF OperationsNest
    <2> QED  BY <2>3, <2>4 DEF CancelHitsOwnOperation
  <1> QED  BY <1>1, ConnectionInvariantHolds, PTL

-----------------------------------------------------------------------------
(* The log.                                                                *)

OnlyOwnEntries ==
  \A i \in DOMAIN log : log'[i] # log[i] =>
    log'[i].cookie \in {generation} \cup {ops[j].cookie : j \in DOMAIN ops}

\* Every step writes entries of the log for its own operation only.
LEMMA StepEntersOwn == ConnectionInvariant /\ [Next]_vars => [OnlyOwnEntries]_log
  <1> SUFFICES ASSUME ConnectionInvariant, Next PROVE OnlyOwnEntries \/ UNCHANGED log
    BY DEF vars, logVars
  <1>1. DOMAIN log = 0 .. RecentOps - 1
    BY DEF ConnectionInvariant, TypeOK
  <1>2. ASSUME NEW f \in BOOLEAN, NEW h \in BOOLEAN, generation < MaxOperations, Logged(f, h)
        PROVE  OnlyOwnEntries
    BY <1>1, <1>2, LoggedFacts DEF OnlyOwnEntries
  <1>3. CASE Release
    <2>1. ops # <<>> /\ LogEnd(Top.cookie, Top.outcome # "done") /\ (Top.outcome # "done") \in BOOLEAN
      BY <1>3 DEF Release, At
    <2>2. Top.cookie \in 0 .. MaxOperations /\ Top = ops[Len(ops)] /\ Len(ops) \in DOMAIN ops
      BY <2>1, TopFacts DEF OperationRecord
    <2>3. \A i \in 0 .. RecentOps - 1 : log'[i] # log[i] => log'[i].cookie = Top.cookie
      BY <2>1, <2>2, LogEndFacts
    <2>4. Top.cookie \in {ops[j].cookie : j \in DOMAIN ops}
      BY <2>2
    <2> QED  BY <1>1, <2>3, <2>4 DEF OnlyOwnEntries
  <1>4. CASE \E q \in Sql, g \in Signal \cup {None} : UseCached(q, g) \/ UsePrepared(q, g)
    BY <1>2, <1>4 DEF UseCached, UsePrepared, MayBegin
  <1>5. CASE \E q \in Sql : PrepareThrows(q)
    BY <1>2, <1>5 DEF PrepareThrows, MayBegin
  <1>6. CASE Close
    BY <1>2, <1>6 DEF Close
  <1>7. CASE BindThrows \/ AttachNothing \/ AttachThrows \/ Attach \/ Listen
    BY <1>7 DEF BindThrows, AttachNothing, AttachThrows, Attach, Listen, logVars
  <1>8. CASE Finish \/ StepFails \/ Interrupt \/ Detach
    BY <1>8 DEF Finish, StepFails, Interrupt, Detach, logVars
  <1>9. CASE \E q \in Sql : IsPreparedStatementInCache(q)
    BY <1>9 DEF IsPreparedStatementInCache, logVars
  <1>10. CASE \E g \in Signal : Cancel(g) \/ OnCancel(g)
    BY <1>10 DEF Cancel, OnCancel, logVars
  <1> QED
    BY <1>3, <1>4, <1>5, <1>6, <1>7, <1>8, <1>9, <1>10 DEF Next, OperationStep

\* Every entry of the log that changes becomes or stays that of the operation that
\* begins or of one in progress, never of another one.
THEOREM EndsOwnEntryAlways == Spec => EndsOwnEntry
  <1>1. ConnectionInvariant /\ [Next]_vars => [OnlyOwnEntries]_log
    BY StepEntersOwn
  <1> QED  BY <1>1, ConnectionInvariantHolds, PTL DEF Spec, EndsOwnEntry, OnlyOwnEntries
=============================================================================
