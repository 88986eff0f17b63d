------------------------ MODULE SQLiteSessionProofs ------------------------
(***************************************************************************)
(* Proofs about SQLiteSession, for any number of sessions and connections, *)
(* nests of any depth and any combination of faults: sessions hold         *)
(* connections as long as they need them, and nested transactions are all  *)
(* or nothing.                                                             *)
(***************************************************************************)
EXTENDS SQLiteSession, SequenceTheorems, TLAPS

Phases == {"ready", "waiting", "begin", "onBegin", "unbegin", "special", "onEnd", "finish", "sleep"}
Calls == [mode : Modes \cup {"none"}, listener : BOOLEAN, primary : BOOLEAN]
Endings == [successful : BOOLEAN, yielding : BOOLEAN, thrown : BOOLEAN]
Natives == [open : BOOLEAN, lock : BOOLEAN, writes : SUBSET Data]

\* What SessionInvariant says of one session, types aside.
Local(s) ==
  /\ useCount[s] = running[s] + (IF UsesForTransaction(s) THEN 1 ELSE 0)
  /\ useCount[s] = 0 <=> connection[s] = None
  /\ phase[s] = "waiting" => connection[s] = None
  /\ phase[s] \in {"waiting", "begin", "unbegin", "finish", "sleep"} => stack[s] = <<>>
  /\ phase[s] \in {"special", "onEnd"} => stack[s] # <<>>
  /\ phase[s] = "onBegin" => Len(stack[s]) < MaxNesting
  /\ phase[s] \in {"begin", "onBegin", "sleep"} \/ ending[s].yielding => call[s].mode \in Modes
  /\ phase[s] = "waiting" /\ call[s].mode = "none" => running[s] < MaxRunning
  /\ phase[s] \notin {"onEnd", "finish"} => ending[s] = NotEnding
  /\ phase[s] = "onEnd" =>
       /\ ending[s].successful = Successful(Top(s), ending[s].yielding)
       /\ ending[s].yielding => MayYield(s)
  /\ UsesForTransaction(s) /\ phase[s] # "begin" => native[connection[s]].open

\* Nothing changes of any other session, nor of the transaction on its connection.
OnlyMoves(s) ==
  \A u \in Session \ {s} :
    /\ connection'[u] = connection[u] /\ useCount'[u] = useCount[u]
    /\ flags'[u] = flags[u] /\ stack'[u] = stack[u]
    /\ phase'[u] = phase[u] /\ call'[u] = call[u]
    /\ ending'[u] = ending[u] /\ running'[u] = running[u]
    /\ connection[u] # None => native'[connection[u]] = native[connection[u]]

-----------------------------------------------------------------------------
(* The invariant, session by session.                                      *)

\* All parts of the invariant but two are about one session.
LEMMA InvariantBySession ==
  SessionInvariant <=> TypeOK /\ ConnectionsApart /\ \A s \in Session : Local(s)
  BY DEF SessionInvariant, ConnectionWhileNeeded, WaitsEmptyHanded, PhaseMatchesStack,
         CallMatchesPhase, EndingMatchesTop, BegunIsOpen, Local

\* A step of one session that leaves it in order keeps the invariant.
LEMMA OneSessionMoves ==
  ASSUME SessionInvariant, NEW s \in Session,
         TypeOK', ConnectionsApart', OnlyMoves(s), Local(s)'
  PROVE  SessionInvariant'
  <1>1. \A u \in Session : Local(u)
    BY InvariantBySession
  <1>2. ASSUME NEW u \in Session \ {s} PROVE Local(u)'
    <2>1. Local(u)
      BY <1>1
    <2>2. /\ connection'[u] = connection[u] /\ useCount'[u] = useCount[u]
          /\ flags'[u] = flags[u] /\ stack'[u] = stack[u]
          /\ phase'[u] = phase[u] /\ call'[u] = call[u]
          /\ ending'[u] = ending[u] /\ running'[u] = running[u]
          /\ connection[u] # None => native'[connection[u]] = native[connection[u]]
      BY DEF OnlyMoves
    <2>3. UsesForTransaction(u)' <=> UsesForTransaction(u)
      BY <2>2 DEF UsesForTransaction, HasTransaction
    <2>4. Top(u)' = Top(u) /\ MayYield(u)' = MayYield(u)
      BY <2>2, Zenon DEF Top, Last, MayYield, Unmarked, HasTransaction, HasNestedTransaction
    <2>5. UsesForTransaction(u) => connection[u] # None
      BY <2>1, InvariantBySession DEF Local, TypeOK
    <2>6. phase'[u] = "onEnd" =>
            /\ ending'[u].successful = Successful(Top(u), ending[u].yielding)'
            /\ ending'[u].yielding => MayYield(u)'
      BY <2>1, <2>2, <2>4, Zenon DEF Local, Successful
    <2>7. UsesForTransaction(u)' /\ phase'[u] # "begin" => native'[connection'[u]].open
      BY <2>1, <2>2, <2>3, <2>5 DEF Local
    <2>8. /\ useCount'[u] = running'[u] + (IF UsesForTransaction(u)' THEN 1 ELSE 0)
          /\ useCount'[u] = 0 <=> connection'[u] = None
          /\ phase'[u] = "waiting" => connection'[u] = None
          /\ phase'[u] \in {"waiting", "begin", "unbegin", "finish", "sleep"} => stack'[u] = <<>>
          /\ phase'[u] \in {"special", "onEnd"} => stack'[u] # <<>>
          /\ phase'[u] = "onBegin" => Len(stack'[u]) < MaxNesting
          /\ phase'[u] \in {"begin", "onBegin", "sleep"} \/ ending'[u].yielding
               => call'[u].mode \in Modes
          /\ phase'[u] = "waiting" /\ call'[u].mode = "none" => running'[u] < MaxRunning
          /\ phase'[u] \notin {"onEnd", "finish"} => ending'[u] = NotEnding
      BY <2>1, <2>2, <2>3 DEF Local
    <2> QED  BY <2>6, <2>7, <2>8, Zenon DEF Local
  <1>3. \A u \in Session : Local(u)'
    BY <1>2
  <1> QED
    BY <1>3, InvariantBySession DEF SessionInvariant, ConnectionWhileNeeded, WaitsEmptyHanded,
         PhaseMatchesStack, CallMatchesPhase, EndingMatchesTop, BegunIsOpen, Local

-----------------------------------------------------------------------------
(* Stacks.                                                                 *)

\* Entries of a stack, and its top.
LEMMA EmptyStack ==
  ASSUME NEW ts \in Seq(StackEntry)
  PROVE  /\ Len(ts) \in Nat /\ DOMAIN ts = 1..Len(ts)
         /\ ts = <<>> <=> Len(ts) = 0
         /\ \A i \in 1..Len(ts) : ts[i] \in StackEntry
         /\ ts # <<>> => Last(ts) = ts[Len(ts)] /\ Last(ts) \in StackEntry
  BY EmptySeq, LenProperties, ElementOfSeq DEF Last

\* A stack with one more transaction.
LEMMA PushedStack ==
  ASSUME NEW ts \in Seq(StackEntry), NEW e \in StackEntry
  PROVE  /\ Append(ts, e) \in Seq(StackEntry)
         /\ Len(Append(ts, e)) = Len(ts) + 1
         /\ Append(ts, e) # <<>>
         /\ Append(ts, e)[Len(ts) + 1] = e
         /\ \A i \in 1..Len(ts) : Append(ts, e)[i] = ts[i]
  BY AppendProperties, EmptySeq

\* A stack whose top is marked successful.
LEMMA MarkedStack ==
  ASSUME NEW ts \in Seq(StackEntry), ts # <<>>
  PROVE  LET us == [ts EXCEPT ![Len(ts)].marked = TRUE] IN
         /\ us \in Seq(StackEntry) /\ us # <<>>
         /\ Len(us) = Len(ts)
         /\ us[Len(ts)] = [ts[Len(ts)] EXCEPT !.marked = TRUE]
         /\ \A i \in 1..Len(ts) - 1 : us[i] = ts[i]
  <1> DEFINE us == [ts EXCEPT ![Len(ts)].marked = TRUE]
  <1>1. Len(ts) \in 1..Len(ts) /\ ts[Len(ts)] \in StackEntry
    BY EmptyStack
  <1>2. [ts[Len(ts)] EXCEPT !.marked = TRUE] \in StackEntry
    BY <1>1 DEF StackEntry
  <1>3. us = [ts EXCEPT ![Len(ts)] = [ts[Len(ts)] EXCEPT !.marked = TRUE]]
    BY <1>1
  <1>4. us \in Seq(StackEntry) /\ Len(us) = Len(ts)
    BY <1>1, <1>2, <1>3, ExceptSeq
  <1>5. us[Len(ts)] = [ts[Len(ts)] EXCEPT !.marked = TRUE]
    BY <1>1, <1>3, EmptyStack
  <1>6. \A i \in 1..Len(ts) - 1 : us[i] = ts[i]
    BY <1>1, <1>3, EmptyStack
  <1>7. us # <<>>
    BY <1>1, <1>4, EmptyStack
  <1> QED  BY <1>4, <1>5, <1>6, <1>7

\* A stack without its top, whose failure its parent learns.
LEMMA PoppedStack ==
  ASSUME NEW ts \in Seq(StackEntry), ts # <<>>, NEW e
  PROVE  /\ Popped(ts, e) \in Seq(StackEntry)
         /\ Len(Popped(ts, e)) = Len(ts) - 1
         /\ \A i \in 1..Len(ts) - 1 :
              Popped(ts, e)[i] =
                IF i = Len(ts) - 1 /\ ~e.successful THEN [ts[i] EXCEPT !.childFailed = TRUE] ELSE ts[i]
  <1> DEFINE fs == Front(ts)
             n == Len(ts) - 1
             t == [fs[n] EXCEPT !.childFailed = TRUE]
             us == [fs EXCEPT ![n].childFailed = TRUE]
  <1>1. n \in Nat /\ Len(ts) \in Nat /\ DOMAIN ts = 1..Len(ts)
    BY EmptyStack
  <1>2. fs \in Seq(StackEntry) /\ Len(fs) = n /\ \A i \in 1..n : fs[i] = ts[i]
    BY <1>1, SubSeqProperties DEF Front
  <1>3. CASE Len(ts) > 1 /\ ~e.successful
    <2>1. n \in 1..n /\ fs[n] = ts[n] /\ ts[n] \in StackEntry
      BY <1>1, <1>2, <1>3, EmptyStack
    <2>2. t \in StackEntry
      BY <2>1 DEF StackEntry
    <2>3. us = [fs EXCEPT ![n] = t]
      BY <2>1
    <2>4. us \in Seq(StackEntry) /\ Len(us) = n /\ \A i \in 1..n : us[i] = IF i = n THEN t ELSE fs[i]
      BY <1>2, <2>1, <2>2, <2>3, ExceptSeq
    <2>5. Popped(ts, e) = us
      BY <1>3 DEF Popped
    <2>6. \A i \in 1..n : us[i] = IF i = n /\ ~e.successful THEN [ts[i] EXCEPT !.childFailed = TRUE] ELSE ts[i]
      <3>1. t = [ts[n] EXCEPT !.childFailed = TRUE]
        BY <2>1, Zenon
      <3> HIDE DEF us, t, fs
      <3> QED  BY <1>2, <1>3, <2>4, <3>1
    <2> QED  BY <2>4, <2>5, <2>6, Zenon
  <1>4. CASE Len(ts) > 1 /\ e.successful
    BY <1>1, <1>2, <1>4 DEF Popped
  <1>5. CASE ~(Len(ts) > 1)
    <2>1. Popped(ts, e) = fs
      BY <1>5 DEF Popped
    <2>2. \A i \in 1..n : FALSE
      BY <1>1, <1>5
    <2> QED  BY <1>2, <2>1, <2>2
  <1> QED  BY <1>3, <1>4, <1>5

-----------------------------------------------------------------------------
(* Steps that several actions share.                                       *)

\* What the invariant says of one session.
LEMMA SessionFacts ==
  ASSUME SessionInvariant, NEW s \in Session
  PROVE  /\ Local(s)
         /\ connection[s] \in Conn \cup {None} /\ useCount[s] \in 0..MaxRunning + 1
         /\ stack[s] \in Seq(StackEntry) /\ Len(stack[s]) <= MaxNesting
         /\ phase[s] \in Phases /\ call[s] \in Calls /\ ending[s] \in Endings
         /\ running[s] \in 0..MaxRunning /\ MaxRunning \in Nat
         /\ connection[s] # None => connection[s] \in Conn /\ native[connection[s]] \in Natives
         /\ UsesForTransaction(s) \/ running[s] > 0 => connection[s] # None /\ useCount[s] > 0
  <1>1. Local(s) /\ TypeOK
    BY InvariantBySession
  <1>2. /\ connection[s] \in Conn \cup {None} /\ useCount[s] \in 0..MaxRunning + 1
        /\ stack[s] \in Seq(StackEntry) /\ Len(stack[s]) <= MaxNesting
        /\ phase[s] \in Phases /\ call[s] \in Calls /\ ending[s] \in Endings
        /\ running[s] \in 0..MaxRunning /\ MaxRunning \in Nat
        /\ connection[s] # None => connection[s] \in Conn /\ native[connection[s]] \in Natives
    BY <1>1, SessionAssumption DEF TypeOK, Phases, Calls, Endings, Natives
  <1>3. UsesForTransaction(s) \/ running[s] > 0 => connection[s] # None /\ useCount[s] > 0
    BY <1>1, <1>2 DEF Local
  <1> QED  BY <1>1, <1>2, <1>3, Zenon

\* The values that stand for nothing have their types.
LEMMA NullValues ==
  NoCall \in Calls /\ NotEnding \in Endings /\ NoTransaction \in Natives
  BY DEF NoCall, Calls, NotEnding, Endings, NoTransaction, Natives

\* releaseConnection: one use less, and the connection is let go of with the last.
LEMMA Releasing ==
  ASSUME SessionInvariant, NEW s \in Session, NEW n \in Natives,
         UsesForTransaction(s) \/ running[s] > 0, Release(s, n)
  PROVE  /\ connection' \in [Session -> Conn \cup {None}]
         /\ useCount' \in [Session -> 0..MaxRunning + 1]
         /\ flags' = flags /\ poolOpen' = poolOpen /\ idle' \subseteq Conn
         /\ native' \in [Conn -> Natives]
         /\ useCount'[s] = useCount[s] - 1
         /\ useCount'[s] = 0 <=> connection'[s] = None
         /\ connection'[s] # None => connection'[s] = connection[s] /\ native'[connection[s]] = n
         /\ \A u \in Session \ {s} :
              /\ connection'[u] = connection[u] /\ useCount'[u] = useCount[u]
              /\ connection[u] # None => native'[connection[u]] = native[connection[u]]
         /\ native'[connection[s]] \in {n, NoTransaction}
         /\ \A d \in Conn \ {connection[s]} : native'[d] = native[d]
         /\ ConnectionsApart'
  <1> DEFINE c == connection[s]
  <1>1. c \in Conn /\ useCount[s] \in 1..MaxRunning + 1
    BY SessionFacts
  <1>2. TypeOK /\ ConnectionsApart
    BY DEF SessionInvariant
  <1>3. \A u \in Session \ {s} : connection[u] # c
    BY <1>1, <1>2, SessionAssumption DEF ConnectionsApart
  <1>4. /\ useCount' \in [Session -> 0..MaxRunning + 1] /\ useCount'[s] = useCount[s] - 1
        /\ \A u \in Session \ {s} : useCount'[u] = useCount[u]
    BY <1>1, <1>2, SessionAssumption DEF Release, TypeOK
  <1>5. NoTransaction \in Natives
    BY DEF Natives, NoTransaction
  <1>6. CASE LastUse(s)
    <2>1. /\ connection' = [connection EXCEPT ![s] = None]
          /\ idle' = IF poolOpen THEN idle \cup {c} ELSE idle
          /\ native' = [native EXCEPT ![c] = IF poolOpen THEN n ELSE NoTransaction]
          /\ flags' = flags /\ poolOpen' = poolOpen
      BY <1>6 DEF Release
    <2>2. /\ connection' \in [Session -> Conn \cup {None}] /\ connection'[s] = None
          /\ \A u \in Session \ {s} : connection'[u] = connection[u]
      BY <2>1, <1>2 DEF TypeOK
    <2>3. /\ native' \in [Conn -> Natives]
          /\ native'[c] \in {n, NoTransaction}
          /\ \A d \in Conn \ {c} : native'[d] = native[d]
      BY <2>1, <1>1, <1>2, <1>5 DEF TypeOK, Natives
    <2>4. \A u \in Session \ {s} : connection[u] # None => native'[connection[u]] = native[connection[u]]
      BY <1>2, <1>3, <2>3 DEF TypeOK
    <2>5. ConnectionsApart'
      BY <1>1, <1>2, <1>3, <2>1, <2>2, SessionAssumption DEF ConnectionsApart, TypeOK
    <2>6. useCount'[s] = 0
      BY <1>4, <1>6 DEF LastUse
    <2> QED  BY <1>1, <1>2, <1>4, <2>1, <2>2, <2>3, <2>4, <2>5, <2>6 DEF TypeOK
  <1>7. CASE ~LastUse(s)
    <2>1. /\ connection' = connection /\ idle' = idle
          /\ native' = [native EXCEPT ![c] = n]
          /\ flags' = flags /\ poolOpen' = poolOpen
      BY <1>7 DEF Release
    <2>2. /\ native' \in [Conn -> Natives] /\ native'[c] = n
          /\ \A d \in Conn \ {c} : native'[d] = native[d]
      BY <2>1, <1>1, <1>2 DEF TypeOK, Natives
    <2>3. \A u \in Session \ {s} : connection[u] # None => native'[connection[u]] = native[connection[u]]
      BY <1>2, <1>3, <2>2 DEF TypeOK
    <2>4. ConnectionsApart'
      BY <1>2, <2>1 DEF ConnectionsApart
    <2>5. useCount'[s] # 0 /\ c # None
      BY <1>1, <1>4, <1>7, SessionAssumption DEF LastUse
    <2> QED  BY <1>2, <1>4, <2>1, <2>2, <2>3, <2>4, <2>5 DEF TypeOK
  <1> QED  BY <1>6, <1>7

-----------------------------------------------------------------------------
(* Every step keeps the invariant and touches one session.                 *)

\* A session that waited gets a connection for the transaction or statement it waited
\* for.
LEMMA AcquireKeeps ==
  ASSUME SessionInvariant, NEW s \in Session, Acquire(s)
  PROVE  SessionInvariant' /\ OnlyMoves(s)
  <1>1. TypeOK /\ ConnectionsApart /\ Local(s)
    BY InvariantBySession
  <1>2. PICK c \in idle : /\ connection' = [connection EXCEPT ![s] = c]
                          /\ idle' = idle \ {c}
    BY DEF Acquire, Suitable
  <1>3. c \in Conn /\ \A u \in Session : connection[u] # c
    BY <1>1 DEF TypeOK, ConnectionsApart
  <1>4. /\ phase[s] = "waiting" /\ connection[s] = None /\ useCount[s] = 0 /\ running[s] = 0
        /\ stack[s] = <<>> /\ ending[s] = NotEnding /\ ~ending[s].yielding
    BY <1>1, SessionFacts DEF Acquire, Local, NotEnding, UsesForTransaction, HasTransaction
  <1>5. /\ useCount' = [useCount EXCEPT ![s] = @ + 1]
        /\ flags' = [flags EXCEPT ![s] = call[s].primary]
        /\ stack' = stack /\ ending' = ending /\ poolOpen' = poolOpen /\ native' = native /\ disk' = disk
        /\ \/ /\ call[s].mode = "none" /\ phase' = [phase EXCEPT ![s] = "ready"]
              /\ running' = [running EXCEPT ![s] = @ + 1] /\ call' = [call EXCEPT ![s] = NoCall]
           \/ /\ call[s].mode # "none" /\ phase' = [phase EXCEPT ![s] = "begin"]
              /\ running' = running /\ call' = call
    BY DEF Acquire, nativeVars
  <1>6. TypeOK'
    <2>1. /\ useCount' \in [Session -> 0..MaxRunning + 1]
          /\ connection' \in [Session -> Conn \cup {None}] /\ idle' \subseteq Conn
          /\ flags' \in [Session -> BOOLEAN]
      BY <1>1, <1>2, <1>3, <1>4, <1>5, SessionAssumption DEF TypeOK
    <2>2. running' \in [Session -> 0..MaxRunning]
      BY <1>1, <1>4, <1>5, SessionAssumption DEF TypeOK, Local
    <2>3. phase' \in [Session -> Phases]
      BY <1>1, <1>5 DEF TypeOK, Phases
    <2>4. call' \in [Session -> Calls]
      <3>1. call \in [Session -> Calls]
        BY <1>1 DEF TypeOK, Calls
      <3> QED  BY <1>5, <3>1, NullValues
    <2> QED  BY <1>1, <1>5, <2>1, <2>2, <2>3, <2>4 DEF TypeOK, Phases, Calls
  <1>7. OnlyMoves(s)
    BY <1>1, <1>2, <1>5 DEF OnlyMoves, TypeOK
  <1>8. Local(s)'
    BY <1>1, <1>2, <1>3, <1>4, <1>5, SessionAssumption
       DEF TypeOK, Local, UsesForTransaction, HasTransaction, NoCall
  <1>9. ConnectionsApart'
    BY <1>1, <1>2, <1>3, <1>5, SessionAssumption DEF ConnectionsApart, TypeOK, Acquire
  <1> QED  BY <1>6, <1>7, <1>8, <1>9, OneSessionMoves

\* One whose wait throws has nothing, and nothing to give back.
LEMMA AcquireThrowsKeeps ==
  ASSUME SessionInvariant, NEW s \in Session, AcquireThrows(s)
  PROVE  SessionInvariant' /\ OnlyMoves(s)
  <1>1. TypeOK /\ ConnectionsApart /\ Local(s)
    BY InvariantBySession
  <1>2. /\ phase[s] = "waiting" /\ stack[s] = <<>> /\ ending[s] = NotEnding /\ ~ending[s].yielding
        /\ phase' = [phase EXCEPT ![s] = "ready"] /\ call' = [call EXCEPT ![s] = NoCall]
    BY <1>1 DEF AcquireThrows, Local, NotEnding
  <1>3. UNCHANGED <<fieldVars, ending, running, poolVars, nativeVars>>
    BY DEF AcquireThrows
  <1>4. TypeOK'
    BY <1>1, <1>2, <1>3 DEF TypeOK, NoCall, fieldVars, poolVars, nativeVars
  <1>5. OnlyMoves(s)
    BY <1>1, <1>2, <1>3 DEF OnlyMoves, TypeOK, fieldVars, nativeVars
  <1>6. Local(s)'
    BY <1>1, <1>2, <1>3 DEF TypeOK, Local, UsesForTransaction, HasTransaction, fieldVars, nativeVars
  <1>7. ConnectionsApart'
    BY <1>1, <1>3 DEF ConnectionsApart, fieldVars, poolVars
  <1> QED  BY <1>4, <1>5, <1>6, <1>7, OneSessionMoves

\* acquireConnection for a call that begins with nothing on the stack.
LEMMA AcquiringKeeps ==
  ASSUME SessionInvariant, NEW s \in Session, NEW r \in Calls, NEW next \in {"begin", "ready"},
         phase[s] \in {"ready", "sleep"}, stack[s] = <<>> \/ (next = "ready" /\ phase[s] = "ready"),
         r.mode = "none" <=> next = "ready", r.mode = "none" => running[s] < MaxRunning,
         AcquireFor(s, r, next), call' \in [Session -> Calls],
         \A u \in Session \ {s} : call'[u] = call[u],
         call'[s] = r \/ (r.mode = "none" /\ connection[s] # None),
         UNCHANGED <<ending, poolVars, nativeVars>>
  PROVE  SessionInvariant' /\ OnlyMoves(s)
  <1>1. TypeOK /\ ConnectionsApart /\ Local(s)
    BY InvariantBySession
  <1>2. ending[s] = NotEnding /\ ~ending[s].yielding /\ (UsesForTransaction(s) <=> HasTransaction(s))
    BY <1>1 DEF Local, NotEnding, UsesForTransaction
  <1>3. CASE connection[s] = None
    <2>1. phase' = [phase EXCEPT ![s] = "waiting"] /\ UNCHANGED <<fieldVars, running>>
      BY <1>3 DEF AcquireFor, NeedsConnection
    <2>2. stack[s] = <<>>
      BY <1>2, <1>3, SessionFacts DEF HasTransaction
    <2>3. TypeOK'
      BY <1>1, <2>1 DEF TypeOK, Calls, fieldVars, poolVars, nativeVars
    <2>4. OnlyMoves(s)
      BY <1>1, <2>1 DEF OnlyMoves, TypeOK, fieldVars, nativeVars
    <2>5. Local(s)'
      BY <1>1, <1>2, <1>3, <2>1, <2>2
         DEF TypeOK, Local, UsesForTransaction, HasTransaction, fieldVars, nativeVars, Calls
    <2>6. ConnectionsApart'
      BY <1>1, <2>1 DEF ConnectionsApart, fieldVars, poolVars
    <2> QED  BY <2>3, <2>4, <2>5, <2>6, OneSessionMoves
  <1>4. CASE connection[s] # None
    <2>1. /\ useCount' = [useCount EXCEPT ![s] = @ + 1]
          /\ phase' = [phase EXCEPT ![s] = next]
          /\ running' = IF r.mode = "none" THEN [running EXCEPT ![s] = @ + 1] ELSE running
          /\ UNCHANGED <<connection, flags, stack>>
      BY <1>4 DEF AcquireFor, NeedsConnection
    <2>2. useCount[s] + 1 \in 0..MaxRunning + 1
      BY <1>1, <1>2, SessionFacts, SessionAssumption DEF Local, HasTransaction
    <2>3. TypeOK'
      <3>1. useCount' \in [Session -> 0..MaxRunning + 1]
        BY <1>1, <2>1, <2>2 DEF TypeOK
      <3>2. running' \in [Session -> 0..MaxRunning]
        BY <1>1, <2>1, SessionAssumption DEF TypeOK
      <3> QED  BY <1>1, <2>1, <3>1, <3>2 DEF TypeOK, Calls, poolVars, nativeVars
    <2>4. OnlyMoves(s)
      BY <1>1, <2>1 DEF OnlyMoves, TypeOK, nativeVars
    <2>5. Local(s)'
      BY <1>1, <1>2, <1>4, <2>1
         DEF TypeOK, Local, UsesForTransaction, HasTransaction, nativeVars, Calls
    <2>6. ConnectionsApart'
      BY <1>1, <2>1 DEF ConnectionsApart, poolVars
    <2> QED  BY <2>3, <2>4, <2>5, <2>6, OneSessionMoves
  <1> QED  BY <1>3, <1>4

\* The outermost transaction needs a connection, or uses that of a statement in
\* progress.
LEMMA BeginOutermostKeeps ==
  ASSUME SessionInvariant, NEW s \in Session, NEW r \in Begins, BeginOutermost(s, r)
  PROVE  SessionInvariant' /\ OnlyMoves(s)
  <1>1. r \in Calls /\ r.mode # "none"
    BY SessionAssumption DEF Calls, Modes
  <1>2. call' \in [Session -> Calls] /\ call'[s] = r /\ \A u \in Session \ {s} : call'[u] = call[u]
    BY <1>1 DEF BeginOutermost, SessionInvariant, TypeOK, Calls
  <1> QED  BY <1>1, <1>2, AcquiringKeeps DEF BeginOutermost, HasTransaction

\* A yield asks for a connection again, for the transaction it is to begin.
LEMMA ResumeKeeps ==
  ASSUME SessionInvariant, NEW s \in Session, Resume(s)
  PROVE  SessionInvariant' /\ OnlyMoves(s)
  <1>1. phase[s] = "sleep" /\ stack[s] = <<>> /\ call[s] \in Calls /\ call[s].mode # "none"
    BY SessionFacts DEF Resume, Local, Modes
  <1>2. call' \in [Session -> Calls] /\ call' = call
    BY DEF Resume, SessionInvariant, TypeOK, Calls
  <1> QED  BY <1>1, <1>2, AcquiringKeeps DEF Resume

\* A statement is one more use.
LEMMA StatementBeginsKeeps ==
  ASSUME SessionInvariant, NEW s \in Session, NEW p \in BOOLEAN, StatementBegins(s, p)
  PROVE  SessionInvariant' /\ OnlyMoves(s)
  <1> DEFINE r == [NoCall EXCEPT !.primary = p]
  <1>1. r \in Calls /\ r.mode = "none" /\ NoCall \in Calls
    BY DEF Calls, NoCall
  <1>2. /\ phase[s] = "ready" /\ running[s] < MaxRunning
        /\ call' = [call EXCEPT ![s] = IF NeedsConnection(s) THEN r ELSE NoCall]
        /\ AcquireFor(s, r, "ready") /\ UNCHANGED <<ending, poolVars, nativeVars>>
    BY DEF StatementBegins
  <1>3. /\ call' \in [Session -> Calls] /\ \A u \in Session \ {s} : call'[u] = call[u]
        /\ call'[s] = IF NeedsConnection(s) THEN r ELSE NoCall
    BY <1>1, <1>2 DEF SessionInvariant, TypeOK, Calls
  <1> HIDE DEF r
  <1> QED  BY <1>1, <1>2, <1>3, AcquiringKeeps DEF NeedsConnection

\* beginTransactionUnchecked pushes the transaction that was begun.
LEMMA PushingKeeps ==
  ASSUME SessionInvariant, NEW s \in Session, NEW r \in Calls, r.mode \in Modes,
         phase[s] \in {"ready", "begin", "onBegin"}, UsesForTransaction(s),
         Len(stack[s]) < MaxNesting, Push(s, r),
         native' \in [Conn -> Natives], native'[connection[s]].open,
         \A c \in Conn \ {connection[s]} : native'[c] = native[c],
         UNCHANGED <<connection, useCount, flags, ending, running, poolVars, disk>>
  PROVE  SessionInvariant' /\ OnlyMoves(s)
  <1> DEFINE t == Obtained(r)
  <1>1. TypeOK /\ ConnectionsApart /\ Local(s)
    BY InvariantBySession
  <1>2. /\ stack' = [stack EXCEPT ![s] = Append(stack[s], t)]
        /\ phase' = [phase EXCEPT ![s] = "ready"]
        /\ call' = [call EXCEPT ![s] = NoCall]
    BY DEF Push
  <1>3. t \in StackEntry
    BY DEF Obtained, StackEntry, Calls
  <1>4. /\ stack' \in [Session -> Seq(StackEntry)] /\ stack'[s] # <<>>
        /\ \A u \in Session : Len(stack'[u]) <= MaxNesting
        /\ \A u \in Session \ {s} : stack'[u] = stack[u]
    <2> HIDE DEF t
    <2>1. /\ Append(stack[s], t) \in Seq(StackEntry) /\ Append(stack[s], t) # <<>>
          /\ Len(Append(stack[s], t)) <= MaxNesting
      <3>1. stack[s] \in Seq(StackEntry) /\ Len(stack[s]) \in Nat /\ MaxNesting \in Nat
        BY EmptyStack, SessionFacts, SessionAssumption
      <3> QED  BY <1>3, <3>1, PushedStack
    <2> QED  BY <1>1, <1>2, <2>1 DEF TypeOK
  <1>5. call \in [Session -> Calls] /\ call' \in [Session -> Calls]
    BY <1>1, <1>2, NullValues DEF TypeOK, Calls
  <1>6. ending[s] = NotEnding /\ ~ending[s].yielding
    BY <1>1 DEF Local, NotEnding
  <1>7. TypeOK'
    BY <1>1, <1>2, <1>4, <1>5 DEF TypeOK, Calls, Natives, poolVars
  <1>8. OnlyMoves(s)
    BY <1>1, <1>2, <1>4, SessionFacts DEF OnlyMoves, TypeOK, ConnectionsApart
  <1>9. Local(s)'
    BY <1>1, <1>2, <1>4, <1>6 DEF TypeOK, Local, UsesForTransaction, HasTransaction
  <1>10. ConnectionsApart'
    BY <1>1 DEF ConnectionsApart, poolVars
  <1> QED  BY <1>7, <1>8, <1>9, <1>10, OneSessionMoves

\* beginTransactionUnchecked is about to call the listener.
LEMMA OnBeginAheadKeeps ==
  ASSUME SessionInvariant, NEW s \in Session, call' \in [Session -> Calls], call'[s].mode \in Modes,
         \A u \in Session \ {s} : call'[u] = call[u],
         phase[s] \in {"ready", "begin"}, UsesForTransaction(s), Len(stack[s]) < MaxNesting,
         phase' = [phase EXCEPT ![s] = "onBegin"],
         native' \in [Conn -> Natives], native'[connection[s]].open,
         \A c \in Conn \ {connection[s]} : native'[c] = native[c],
         UNCHANGED <<connection, useCount, flags, stack, ending, running, poolVars, disk>>
  PROVE  SessionInvariant' /\ OnlyMoves(s)
  <1>1. TypeOK /\ ConnectionsApart /\ Local(s)
    BY InvariantBySession
  <1>2. ending[s] = NotEnding /\ ~ending[s].yielding
    BY <1>1 DEF Local, NotEnding
  <1>3. TypeOK'
    BY <1>1 DEF TypeOK, Calls, Natives, poolVars
  <1>4. OnlyMoves(s)
    BY <1>1, SessionFacts DEF OnlyMoves, TypeOK, ConnectionsApart
  <1>5. Local(s)'
    BY <1>1, <1>2 DEF TypeOK, Local, UsesForTransaction, HasTransaction
  <1>6. ConnectionsApart'
    BY <1>1 DEF ConnectionsApart, poolVars
  <1> QED  BY <1>3, <1>4, <1>5, <1>6, OneSessionMoves

\* A nested transaction uses the connection of the one around it.
LEMMA BeginNestedKeeps ==
  ASSUME SessionInvariant, NEW s \in Session, NEW r \in Begins, BeginNested(s, r)
  PROVE  SessionInvariant' /\ OnlyMoves(s)
  <1>1. r \in Calls /\ r.mode \in Modes
    BY SessionAssumption DEF Calls, Modes
  <1>2. /\ phase[s] = "ready" /\ UsesForTransaction(s) /\ Len(stack[s]) < MaxNesting
        /\ UNCHANGED <<connection, useCount, flags, ending, running, poolVars, nativeVars>>
    BY DEF BeginNested, Unmarked, UsesForTransaction
  <1>3. native' = native /\ native \in [Conn -> Natives] /\ native[connection[s]].open
    BY <1>2, InvariantBySession DEF Local, TypeOK, Natives, nativeVars
  <1>4. CASE r.listener
    <2>1. /\ phase' = [phase EXCEPT ![s] = "onBegin"] /\ call' = [call EXCEPT ![s] = r] /\ stack' = stack
      BY <1>4 DEF BeginNested
    <2>2. call' \in [Session -> Calls] /\ call'[s] = r /\ \A u \in Session \ {s} : call'[u] = call[u]
      BY <1>1, <2>1 DEF SessionInvariant, TypeOK, Calls
    <2> QED  BY <1>1, <1>2, <1>3, <2>1, <2>2, OnBeginAheadKeeps DEF nativeVars
  <1>5. CASE ~r.listener
    BY <1>1, <1>2, <1>3, <1>5, PushingKeeps DEF BeginNested, nativeVars
  <1> QED  BY <1>4, <1>5

\* BEGIN opens a transaction on the session's connection.
LEMMA ExecuteBeginKeeps ==
  ASSUME SessionInvariant, NEW s \in Session, ExecuteBegin(s)
  PROVE  SessionInvariant' /\ OnlyMoves(s)
  <1>1. /\ phase[s] = "begin" /\ native' = [native EXCEPT ![connection[s]] = Begun(call[s].mode)]
        /\ UNCHANGED <<connection, useCount, flags, ending, running, poolVars, disk>>
    BY DEF ExecuteBegin
  <1>2. /\ UsesForTransaction(s) /\ connection[s] \in Conn /\ stack[s] = <<>> /\ call[s] \in Calls
        /\ call[s].mode \in Modes
    BY <1>1, SessionFacts DEF UsesForTransaction, Local
  <1>3. Len(stack[s]) < MaxNesting
    BY <1>2, SessionAssumption, EmptyStack, SessionFacts
  <1>4. Begun(call[s].mode) \in Natives /\ Begun(call[s].mode).open
    BY DEF Begun, Natives
  <1>5. native \in [Conn -> Natives] /\ call \in [Session -> Calls]
    BY DEF SessionInvariant, TypeOK, Natives, Calls
  <1>6. /\ native' \in [Conn -> Natives] /\ native'[connection[s]].open
        /\ \A c \in Conn \ {connection[s]} : native'[c] = native[c]
    BY <1>1, <1>2, <1>4, <1>5
  <1>7. CASE call[s].listener
    <2>1. phase' = [phase EXCEPT ![s] = "onBegin"] /\ call' = call /\ stack' = stack
      BY <1>7 DEF ExecuteBegin
    <2> QED  BY <1>1, <1>2, <1>3, <1>5, <1>6, <2>1, OnBeginAheadKeeps
  <1>8. CASE ~call[s].listener
    BY <1>1, <1>2, <1>3, <1>6, <1>8, PushingKeeps DEF ExecuteBegin
  <1> QED  BY <1>7, <1>8

\* onBegin returns, and the transaction is pushed.
LEMMA OnBeginKeeps ==
  ASSUME SessionInvariant, NEW s \in Session, OnBegin(s)
  PROVE  SessionInvariant' /\ OnlyMoves(s)
  <1>1. /\ phase[s] = "onBegin" /\ Push(s, call[s])
        /\ UNCHANGED <<connection, useCount, flags, ending, running, poolVars, nativeVars>>
    BY DEF OnBegin
  <1>2. /\ UsesForTransaction(s) /\ call[s] \in Calls /\ call[s].mode \in Modes
        /\ Len(stack[s]) < MaxNesting
    BY <1>1, SessionFacts DEF UsesForTransaction, Local
  <1>3. native' = native /\ native \in [Conn -> Natives] /\ native[connection[s]].open
    BY <1>1, <1>2, InvariantBySession DEF Local, TypeOK, Natives, nativeVars
  <1> QED  BY <1>1, <1>2, <1>3, PushingKeeps DEF nativeVars

\* onBegin throws: inside a nest nothing was counted, else ROLLBACK is next.
LEMMA OnBeginThrowsKeeps ==
  ASSUME SessionInvariant, NEW s \in Session, OnBeginThrows(s)
  PROVE  SessionInvariant' /\ OnlyMoves(s)
  <1>1. TypeOK /\ ConnectionsApart /\ Local(s)
    BY InvariantBySession
  <1>2. /\ phase[s] = "onBegin" /\ call' = [call EXCEPT ![s] = NoCall]
        /\ \/ HasTransaction(s) /\ phase' = [phase EXCEPT ![s] = "ready"]
           \/ ~HasTransaction(s) /\ phase' = [phase EXCEPT ![s] = "unbegin"]
        /\ UNCHANGED <<fieldVars, ending, running, poolVars, nativeVars>>
    BY DEF OnBeginThrows
  <1>3. ending[s] = NotEnding /\ ~ending[s].yielding
    BY <1>1, <1>2 DEF Local, NotEnding
  <1>4. call \in [Session -> Calls] /\ call' \in [Session -> Calls]
    BY <1>1, <1>2, NullValues DEF TypeOK, Calls
  <1>5. TypeOK'
    BY <1>1, <1>2, <1>4 DEF TypeOK, Calls, fieldVars, poolVars, nativeVars
  <1>6. OnlyMoves(s)
    BY <1>1, <1>2 DEF OnlyMoves, TypeOK, fieldVars, nativeVars
  <1>7. Local(s)'
    BY <1>1, <1>2, <1>3 DEF TypeOK, Local, UsesForTransaction, HasTransaction, fieldVars, nativeVars
  <1>8. ConnectionsApart'
    BY <1>1, <1>2 DEF ConnectionsApart, fieldVars, poolVars
  <1> QED  BY <1>5, <1>6, <1>7, <1>8, OneSessionMoves

\* A transaction is over, or could not be begun, and lets go of the connection.
LEMMA LettingGoKeeps ==
  ASSUME SessionInvariant, NEW s \in Session, NEW n \in Natives, NEW next \in {"ready", "sleep"},
         phase[s] \in {"begin", "unbegin", "finish"}, Release(s, n),
         phase' = [phase EXCEPT ![s] = next],
         call' \in [Session -> Calls], next = "sleep" => call'[s].mode \in Modes,
         \A u \in Session \ {s} : call'[u] = call[u],
         ending' \in [Session -> Endings], ending'[s] = NotEnding,
         \A u \in Session \ {s} : ending'[u] = ending[u],
         disk' \subseteq Data, UNCHANGED <<stack, running>>
  PROVE  SessionInvariant' /\ OnlyMoves(s)
  <1>1. TypeOK /\ Local(s)
    BY InvariantBySession
  <1>2. UsesForTransaction(s) /\ stack[s] = <<>>
    BY <1>1 DEF Local, UsesForTransaction
  <1>3. /\ connection' \in [Session -> Conn \cup {None}]
        /\ useCount' \in [Session -> 0..MaxRunning + 1]
        /\ flags' = flags /\ poolOpen' = poolOpen /\ idle' \subseteq Conn
        /\ native' \in [Conn -> Natives]
        /\ useCount'[s] = useCount[s] - 1
        /\ useCount'[s] = 0 <=> connection'[s] = None
        /\ \A u \in Session \ {s} :
             /\ connection'[u] = connection[u] /\ useCount'[u] = useCount[u]
             /\ connection[u] # None => native'[connection[u]] = native[connection[u]]
        /\ ConnectionsApart'
    BY <1>2, Releasing
  <1>4. TypeOK'
    BY <1>1, <1>3 DEF TypeOK, Calls, Endings, Natives
  <1>5. OnlyMoves(s)
    BY <1>1, <1>3 DEF OnlyMoves, TypeOK
  <1>6. useCount'[s] = running'[s]
    BY <1>1, <1>2, <1>3, SessionFacts DEF Local
  <1>7. ~UsesForTransaction(s)' /\ phase'[s] = next /\ stack'[s] = <<>> /\ ~ending'[s].yielding
    BY <1>1, <1>2 DEF UsesForTransaction, HasTransaction, TypeOK, NotEnding
  <1>8. Local(s)'
    BY <1>1, <1>3, <1>6, <1>7, SessionFacts DEF Local
  <1> QED  BY <1>3, <1>4, <1>5, <1>8, OneSessionMoves

\* BEGIN throws, and the use counted for it is taken back.
LEMMA ExecuteBeginThrowsKeeps ==
  ASSUME SessionInvariant, NEW s \in Session, ExecuteBeginThrows(s)
  PROVE  SessionInvariant' /\ OnlyMoves(s)
  <1>1. /\ phase[s] = "begin" /\ Release(s, native[connection[s]])
        /\ phase' = [phase EXCEPT ![s] = "ready"] /\ call' = [call EXCEPT ![s] = NoCall]
        /\ UNCHANGED <<stack, ending, running, disk>>
    BY DEF ExecuteBeginThrows
  <1>2. native[connection[s]] \in Natives /\ ending[s] = NotEnding
    BY <1>1, SessionFacts DEF UsesForTransaction, Local
  <1>3. call \in [Session -> Calls] /\ ending \in [Session -> Endings] /\ disk \subseteq Data
    BY DEF SessionInvariant, TypeOK, Calls, Endings
  <1>4. call' \in [Session -> Calls] /\ \A u \in Session \ {s} : call'[u] = call[u]
    BY <1>1, <1>3, NullValues
  <1> QED  BY <1>1, <1>2, <1>3, <1>4, LettingGoKeeps

\* After the ROLLBACK, or its failure, the connection is released once.
LEMMA UnbeginKeeps ==
  ASSUME SessionInvariant, NEW s \in Session, Unbegin(s)
  PROVE  SessionInvariant' /\ OnlyMoves(s)
  <1>1. /\ phase[s] = "unbegin" /\ phase' = [phase EXCEPT ![s] = "ready"]
        /\ UNCHANGED <<stack, call, ending, running, disk>>
    BY DEF Unbegin
  <1>2. native[connection[s]] \in Natives /\ ending[s] = NotEnding
    BY <1>1, SessionFacts DEF UsesForTransaction, Local
  <1>3. call \in [Session -> Calls] /\ ending \in [Session -> Endings] /\ disk \subseteq Data
    BY DEF SessionInvariant, TypeOK, Calls, Endings
  <1>4. PICK n \in Natives : Release(s, n)
    BY <1>2, NullValues DEF Unbegin
  <1> QED  BY <1>1, <1>2, <1>3, <1>4, LettingGoKeeps

\* Commit, CommitThrows and Rollback.
LEMMA FinishKeeps ==
  ASSUME SessionInvariant, NEW s \in Session, NEW n \in Natives, NEW thrown \in BOOLEAN,
         phase[s] = "finish", Release(s, n), Finish(s, thrown), disk' \subseteq Data
  PROVE  SessionInvariant' /\ OnlyMoves(s)
  <1>1. call \in [Session -> Calls] /\ ending \in [Session -> Endings]
    BY DEF SessionInvariant, TypeOK, Calls, Endings
  <1>2. /\ ending' = [ending EXCEPT ![s] = NotEnding] /\ UNCHANGED <<stack, running>>
        /\ \/ /\ ending[s].yielding
              /\ phase' = [phase EXCEPT ![s] = "sleep"] /\ call' = call
           \/ phase' = [phase EXCEPT ![s] = "ready"] /\ call' = [call EXCEPT ![s] = NoCall]
    BY DEF Finish
  <1>3. /\ ending' \in [Session -> Endings] /\ ending'[s] = NotEnding
        /\ \A u \in Session \ {s} : ending'[u] = ending[u]
    BY <1>1, <1>2, NullValues
  <1>4. CASE ending[s].yielding /\ phase' = [phase EXCEPT ![s] = "sleep"] /\ call' = call
    <2>1. call[s].mode \in Modes
      BY <1>4, SessionFacts DEF Local
    <2> QED  BY <1>1, <1>2, <1>3, <1>4, <2>1, LettingGoKeeps
  <1>5. CASE phase' = [phase EXCEPT ![s] = "ready"] /\ call' = [call EXCEPT ![s] = NoCall]
    <2>1. call' \in [Session -> Calls] /\ \A u \in Session \ {s} : call'[u] = call[u]
      BY <1>1, <1>5, NullValues
    <2> QED  BY <1>2, <1>3, <1>5, <2>1, LettingGoKeeps
  <1> QED  BY <1>2, <1>4, <1>5

\* After COMMIT or ROLLBACK, or its failure, the connection is released once.
LEMMA CommitOrRollbackKeeps ==
  ASSUME SessionInvariant, NEW s \in Session, Commit(s) \/ CommitThrows(s) \/ Rollback(s)
  PROVE  SessionInvariant' /\ OnlyMoves(s)
  <1>1. phase[s] = "finish" /\ native[connection[s]] \in Natives /\ ending[s].thrown \in BOOLEAN
    BY SessionFacts DEF Commit, CommitThrows, Rollback, UsesForTransaction, Endings
  <1>2. disk' \subseteq Data
    BY <1>1 DEF Commit, CommitThrows, Rollback, SessionInvariant, TypeOK, Natives
  <1>3. PICK n \in Natives, thrown \in BOOLEAN : Release(s, n) /\ Finish(s, thrown)
    BY <1>1, NullValues DEF Commit, CommitThrows, Rollback
  <1> QED  BY <1>1, <1>2, <1>3, FinishKeeps

\* setTransactionSuccessful marks the top of the stack.
LEMMA MarkingKeeps ==
  ASSUME SessionInvariant, NEW s \in Session, NEW next \in {"ready", "special"}, Mark(s),
         phase' = [phase EXCEPT ![s] = next],
         UNCHANGED <<connection, useCount, flags, call, ending, running, poolVars, nativeVars>>
  PROVE  SessionInvariant' /\ OnlyMoves(s)
  <1> DEFINE us == [stack[s] EXCEPT ![Len(stack[s])].marked = TRUE]
  <1>1. TypeOK /\ ConnectionsApart /\ Local(s)
    BY InvariantBySession
  <1>2. phase[s] = "ready" /\ stack[s] # <<>> /\ stack[s] \in Seq(StackEntry) /\ Len(stack[s]) <= MaxNesting
    BY SessionFacts DEF Mark, Unmarked, HasTransaction
  <1>3. us \in Seq(StackEntry) /\ us # <<>> /\ Len(us) <= MaxNesting
    BY <1>2, MarkedStack
  <1>4. stack' = [stack EXCEPT ![s] = us]
    BY <1>1 DEF Mark, TypeOK
  <1> HIDE DEF us
  <1>5. /\ stack' \in [Session -> Seq(StackEntry)] /\ stack'[s] # <<>>
        /\ \A u \in Session : Len(stack'[u]) <= MaxNesting
        /\ \A u \in Session \ {s} : stack'[u] = stack[u]
    BY <1>1, <1>3, <1>4 DEF TypeOK
  <1>6. TypeOK'
    BY <1>1, <1>5 DEF TypeOK, poolVars, nativeVars
  <1>7. OnlyMoves(s)
    BY <1>1, <1>5 DEF OnlyMoves, TypeOK, nativeVars
  <1>8. Local(s)'
    BY <1>1, <1>2, <1>5 DEF TypeOK, Local, UsesForTransaction, HasTransaction, nativeVars, NotEnding
  <1>9. ConnectionsApart'
    BY <1>1 DEF ConnectionsApart, poolVars
  <1> QED  BY <1>6, <1>7, <1>8, <1>9, OneSessionMoves

\* endTransactionUnchecked pops the transaction that ends.
LEMMA PoppingKeeps ==
  ASSUME SessionInvariant, NEW s \in Session, NEW e \in Endings, Pop(s, e),
         phase[s] \in {"ready", "special", "onEnd"}, HasTransaction(s),
         call' \in [Session -> Calls], e.yielding => call'[s].mode \in Modes,
         e.yielding => ~HasNestedTransaction(s),
         \A u \in Session \ {s} : call'[u] = call[u],
         UNCHANGED <<connection, useCount, flags, running, poolVars, nativeVars>>
  PROVE  SessionInvariant' /\ OnlyMoves(s)
  <1> DEFINE ts == stack[s]
  <1>1. TypeOK /\ ConnectionsApart /\ Local(s)
    BY InvariantBySession
  <1>2. ts # <<>> /\ ts \in Seq(StackEntry) /\ Len(ts) <= MaxNesting /\ Len(ts) \in Nat
    BY SessionFacts, EmptyStack DEF HasTransaction
  <1>3. /\ Popped(ts, e) \in Seq(StackEntry) /\ Len(Popped(ts, e)) = Len(ts) - 1
        /\ Popped(ts, e) # <<>> <=> HasNestedTransaction(s)
    <2>1. Popped(ts, e) \in Seq(StackEntry) /\ Len(Popped(ts, e)) = Len(ts) - 1
      BY <1>2, PoppedStack
    <2>2. Popped(ts, e) # <<>> <=> Len(ts) - 1 # 0
      BY <2>1, EmptyStack
    <2> QED  BY <1>2, <2>1, <2>2, EmptyStack DEF HasNestedTransaction
  <1>4. stack' = [stack EXCEPT ![s] = Popped(ts, e)]
    BY <1>1 DEF Pop, TypeOK
  <1>5. /\ stack' \in [Session -> Seq(StackEntry)] /\ (stack'[s] # <<>> <=> HasNestedTransaction(s))
        /\ \A u \in Session : Len(stack'[u]) <= MaxNesting
        /\ \A u \in Session \ {s} : stack'[u] = stack[u]
    <2>1. Len(Popped(ts, e)) <= MaxNesting
      BY <1>2, <1>3, SessionAssumption
    <2> QED  BY <1>1, <1>3, <1>4, <2>1 DEF TypeOK
  <1>6. UsesForTransaction(s) /\ phase[s] # "begin"
    BY DEF UsesForTransaction
  <1>7. CASE HasNestedTransaction(s)
    <2>1. /\ phase' = [phase EXCEPT ![s] = "ready"]
          /\ ending' = [ending EXCEPT ![s] = NotEnding]
      BY <1>7 DEF Pop
    <2>2. ending \in [Session -> Endings] /\ ending' \in [Session -> Endings]
      BY <1>1, <2>1, NullValues DEF TypeOK, Endings
    <2>3. TypeOK'
      BY <1>1, <1>5, <2>1, <2>2 DEF TypeOK, Calls, Endings, poolVars, nativeVars
    <2>4. OnlyMoves(s)
      BY <1>1, <1>5, <2>1, <2>2 DEF OnlyMoves, TypeOK, nativeVars
    <2>5. phase'[s] = "ready" /\ ending'[s] = NotEnding /\ ~ending'[s].yielding
      BY <1>1, <2>1, <2>2 DEF NotEnding, TypeOK
    <2>6. UsesForTransaction(s)'
      BY <1>5, <1>7 DEF UsesForTransaction, HasTransaction
    <2>7. Local(s)'
      BY <1>1, <1>5, <1>6, <1>7, <2>5, <2>6 DEF Local, nativeVars
    <2>8. ConnectionsApart'
      BY <1>1 DEF ConnectionsApart, poolVars
    <2> QED  BY <2>3, <2>4, <2>7, <2>8, OneSessionMoves
  <1>8. CASE ~HasNestedTransaction(s)
    <2>1. /\ phase' = [phase EXCEPT ![s] = "finish"]
          /\ ending' = [ending EXCEPT ![s] = e]
      BY <1>8 DEF Pop
    <2>2. ending \in [Session -> Endings] /\ ending' \in [Session -> Endings]
      BY <1>1, <2>1 DEF TypeOK, Endings
    <2>3. TypeOK'
      BY <1>1, <1>5, <2>1, <2>2 DEF TypeOK, Calls, Endings, poolVars, nativeVars
    <2>4. OnlyMoves(s)
      BY <1>1, <1>5, <2>1, <2>2 DEF OnlyMoves, TypeOK, nativeVars
    <2>5. phase'[s] = "finish" /\ ending'[s] = e
      BY <1>1, <2>1, <2>2 DEF TypeOK
    <2>6. UsesForTransaction(s)'
      BY <2>5 DEF UsesForTransaction
    <2>7. Local(s)'
      BY <1>1, <1>5, <1>6, <1>8, <2>5, <2>6 DEF Local, nativeVars
    <2>8. ConnectionsApart'
      BY <1>1 DEF ConnectionsApart, poolVars
    <2> QED  BY <2>3, <2>4, <2>7, <2>8, OneSessionMoves
  <1> QED  BY <1>7, <1>8

\* endTransaction, and the end that a yield begins with.
LEMMA EndUncheckedKeeps ==
  ASSUME SessionInvariant, NEW s \in Session, NEW yielding \in BOOLEAN,
         phase[s] \in {"ready", "special"}, HasTransaction(s), EndUnchecked(s, Top(s), yielding),
         call' \in [Session -> Calls], \A u \in Session \ {s} : call'[u] = call[u],
         yielding => MayYield(s) /\ call'[s].mode \in Modes
  PROVE  SessionInvariant' /\ OnlyMoves(s)
  <1> DEFINE e == [NotEnding EXCEPT !.successful = Successful(Top(s), yielding), !.yielding = yielding]
  <1>1. TypeOK /\ ConnectionsApart /\ Local(s)
    BY InvariantBySession
  <1>2. UNCHANGED <<connection, useCount, flags, running, poolVars, nativeVars>>
    BY DEF EndUnchecked
  <1>3. Top(s) \in StackEntry
    BY SessionFacts, EmptyStack DEF HasTransaction, Top
  <1>4. /\ e \in Endings /\ e.yielding = yielding
        /\ e.successful = Successful(Top(s), yielding)
    BY <1>3 DEF Endings, NotEnding, Successful, StackEntry
  <1>5. CASE Top(s).listener
    <2>1. /\ phase' = [phase EXCEPT ![s] = "onEnd"]
          /\ ending' = [ending EXCEPT ![s] = e]
          /\ stack' = stack
      BY <1>5 DEF EndUnchecked
    <2> HIDE DEF e
    <2>2. ending \in [Session -> Endings] /\ ending' \in [Session -> Endings]
      BY <1>1, <1>4, <2>1 DEF TypeOK, Endings
    <2>3. TypeOK'
      BY <1>1, <1>2, <2>1, <2>2 DEF TypeOK, Calls, Endings, poolVars, nativeVars
    <2>4. OnlyMoves(s)
      BY <1>1, <1>2, <2>1, <2>2 DEF OnlyMoves, TypeOK, nativeVars
    <2>5. phase'[s] = "onEnd" /\ ending'[s] = e
      BY <1>1, <2>1, <2>2 DEF TypeOK
    <2>6. /\ UsesForTransaction(s) /\ phase[s] # "begin" /\ UsesForTransaction(s)'
          /\ stack'[s] # <<>>
      BY <2>1, <2>5 DEF UsesForTransaction, HasTransaction
    <2>7. /\ ending'[s].successful = Successful(Top(s)', ending'[s].yielding)
          /\ ending'[s].yielding => MayYield(s)'
      <3>1. Top(s)' = Top(s) /\ MayYield(s)' = MayYield(s)
        BY <2>1, Zenon DEF Top, MayYield, Unmarked, HasTransaction, HasNestedTransaction
      <3> QED  BY <1>4, <2>5, <3>1, Zenon
    <2>8. Local(s)'
      <3>1. /\ useCount'[s] = useCount[s] /\ running'[s] = running[s] /\ connection'[s] = connection[s]
            /\ native'[connection[s]] = native[connection[s]]
        BY <1>2 DEF nativeVars
      <3>2. /\ useCount'[s] = running'[s] + (IF UsesForTransaction(s)' THEN 1 ELSE 0)
            /\ useCount'[s] = 0 <=> connection'[s] = None
            /\ native'[connection'[s]].open
        BY <1>1, <2>6, <3>1 DEF Local
      <3>3. ending'[s].yielding => call'[s].mode \in Modes
        BY <1>4, <2>5
      <3> QED  BY <2>5, <2>6, <2>7, <3>2, <3>3 DEF Local
    <2>9. ConnectionsApart'
      BY <1>1, <1>2 DEF ConnectionsApart, poolVars
    <2> QED  BY <2>3, <2>4, <2>8, <2>9, OneSessionMoves
  <1>6. CASE ~Top(s).listener
    <2>1. Pop(s, e)
      BY <1>6 DEF EndUnchecked
    <2>2. e.yielding => call'[s].mode \in Modes /\ ~HasNestedTransaction(s)
      BY <1>4 DEF MayYield
    <2> HIDE DEF e
    <2> QED  BY <1>2, <1>4, <2>1, <2>2, PoppingKeeps
  <1> QED  BY <1>5, <1>6

\* endTransaction pops at once, or calls the listener first.
LEMMA EndTransactionKeeps ==
  ASSUME SessionInvariant, NEW s \in Session, EndTransaction(s)
  PROVE  SessionInvariant' /\ OnlyMoves(s)
  <1>1. call' = call /\ call \in [Session -> Calls]
    BY DEF EndTransaction, SessionInvariant, TypeOK, Calls
  <1> QED  BY <1>1, EndUncheckedKeeps DEF EndTransaction

\* So does a yield, which keeps what it is to begin again.
LEMMA YieldTransactionKeeps ==
  ASSUME SessionInvariant, NEW s \in Session, YieldTransaction(s)
  PROVE  SessionInvariant' /\ OnlyMoves(s)
  <1> DEFINE r == [mode |-> Top(s).mode, listener |-> Top(s).listener, primary |-> flags[s]]
  <1>1. /\ phase[s] = "ready" /\ MayYield(s) /\ EndUnchecked(s, Top(s), TRUE)
        /\ call' = [call EXCEPT ![s] = r]
    BY DEF YieldTransaction
  <1>2. HasTransaction(s) /\ Top(s) \in StackEntry
    BY <1>1, SessionFacts, EmptyStack DEF MayYield, Unmarked, HasTransaction, Top
  <1>3. flags[s] \in BOOLEAN /\ call \in [Session -> Calls]
    BY DEF SessionInvariant, TypeOK, Calls
  <1>4. r \in Calls /\ r.mode \in Modes
    BY <1>2, <1>3 DEF Calls, StackEntry
  <1> HIDE DEF r
  <1>5. call' \in [Session -> Calls] /\ call'[s] = r /\ \A u \in Session \ {s} : call'[u] = call[u]
    BY <1>1, <1>3, <1>4
  <1> QED  BY <1>1, <1>2, <1>4, <1>5, EndUncheckedKeeps

\* However the listener ends, the transaction is popped.
LEMMA OnEndKeeps ==
  ASSUME SessionInvariant, NEW s \in Session, OnEnd(s) \/ OnEndThrows(s)
  PROVE  SessionInvariant' /\ OnlyMoves(s)
  <1>1. phase[s] = "onEnd" /\ UNCHANGED <<connection, useCount, flags, call, running, poolVars, nativeVars>>
    BY DEF OnEnd, OnEndThrows
  <1>2. /\ HasTransaction(s) /\ ending[s] \in Endings
        /\ ending[s].yielding => call[s].mode \in Modes /\ ~HasNestedTransaction(s)
    BY <1>1, SessionFacts DEF Local, HasTransaction, MayYield
  <1>3. PICK e \in Endings : Pop(s, e) /\ e.yielding = ending[s].yielding
    <2>1. [ending[s] EXCEPT !.successful = FALSE, !.thrown = TRUE] \in Endings
      BY <1>2 DEF Endings
    <2>2. [ending[s] EXCEPT !.successful = FALSE, !.thrown = TRUE].yielding = ending[s].yielding
      BY <1>2 DEF Endings
    <2> QED  BY <1>2, <2>1, <2>2 DEF OnEnd, OnEndThrows
  <1>4. call \in [Session -> Calls]
    BY DEF SessionInvariant, TypeOK, Calls
  <1> QED  BY <1>1, <1>2, <1>3, <1>4, PoppingKeeps

\* What a statement writes to a connection, or commits by itself, keeps types.
LEMMA WrittenTyped ==
  ASSUME SessionInvariant, NEW c \in Conn, NEW w \in SUBSET Data
  PROVE  /\ Written(c, w) \in Natives /\ Written(c, w).open = native[c].open
         /\ DiskWith(c, w) \subseteq Data
  <1>1. native[c] \in Natives /\ disk \subseteq Data
    BY DEF SessionInvariant, TypeOK, Natives
  <1> QED  BY <1>1 DEF Written, DiskWith, Natives

\* The end of a statement is one use less, and the last lets go.
LEMMA StatementEndsKeeps ==
  ASSUME SessionInvariant, NEW s \in Session, NEW w \in SUBSET Data, StatementEnds(s, w)
  PROVE  SessionInvariant' /\ OnlyMoves(s)
  <1> DEFINE n == Written(connection[s], w)
  <1>1. TypeOK /\ Local(s)
    BY InvariantBySession
  <1>2. /\ phase[s] = "ready" /\ running[s] > 0 /\ running' = [running EXCEPT ![s] = @ - 1]
        /\ disk' = DiskWith(connection[s], w) /\ Release(s, n)
        /\ UNCHANGED <<stack, phase, call, ending>>
    BY DEF StatementEnds
  <1>3. connection[s] \in Conn /\ running[s] \in 1..MaxRunning /\ MaxRunning \in Nat
    BY <1>2, SessionFacts
  <1>4. n \in Natives /\ n.open = native[connection[s]].open /\ disk' \subseteq Data
    BY <1>2, <1>3, WrittenTyped
  <1> HIDE DEF n
  <1>5. /\ connection' \in [Session -> Conn \cup {None}]
        /\ useCount' \in [Session -> 0..MaxRunning + 1]
        /\ flags' = flags /\ poolOpen' = poolOpen /\ idle' \subseteq Conn
        /\ native' \in [Conn -> Natives]
        /\ useCount'[s] = useCount[s] - 1
        /\ useCount'[s] = 0 <=> connection'[s] = None
        /\ connection'[s] # None => connection'[s] = connection[s] /\ native'[connection[s]] = n
        /\ \A u \in Session \ {s} :
             /\ connection'[u] = connection[u] /\ useCount'[u] = useCount[u]
             /\ connection[u] # None => native'[connection[u]] = native[connection[u]]
        /\ ConnectionsApart'
    BY <1>2, <1>4, Releasing
  <1>6. running' \in [Session -> 0..MaxRunning] /\ running'[s] = running[s] - 1
    BY <1>1, <1>2, <1>3 DEF TypeOK
  <1>7. TypeOK'
    BY <1>1, <1>2, <1>4, <1>5, <1>6 DEF TypeOK, Natives
  <1>8. OnlyMoves(s)
    BY <1>1, <1>2, <1>5 DEF OnlyMoves, TypeOK
  <1>9. UsesForTransaction(s)' <=> UsesForTransaction(s)
    BY <1>2 DEF UsesForTransaction, HasTransaction
  <1>10. useCount'[s] = running'[s] + (IF UsesForTransaction(s)' THEN 1 ELSE 0)
    BY <1>1, <1>3, <1>5, <1>6, <1>9 DEF Local
  <1>11. UsesForTransaction(s)' => native'[connection'[s]].open
    <2> SUFFICES ASSUME UsesForTransaction(s)' PROVE native'[connection'[s]].open
      OBVIOUS
    <2>1. useCount'[s] # 0
      BY <1>6, <1>10, <1>3
    <2> QED  BY <1>1, <1>2, <1>4, <1>5, <1>9, <2>1 DEF Local
  <1>12. Local(s)'
    BY <1>1, <1>2, <1>5, <1>10, <1>11 DEF Local
  <1> QED  BY <1>5, <1>7, <1>8, <1>12, OneSessionMoves

\* A listener's statement runs on the connection its session has.
LEMMA ListenerWritesKeeps ==
  ASSUME SessionInvariant, NEW s \in Session, NEW w \in SUBSET Data, ListenerWrites(s, w)
  PROVE  SessionInvariant' /\ OnlyMoves(s)
  <1> DEFINE n == Written(connection[s], w)
  <1>1. TypeOK /\ ConnectionsApart /\ Local(s)
    BY InvariantBySession
  <1>2. /\ phase[s] \in {"onBegin", "onEnd"} /\ native' = [native EXCEPT ![connection[s]] = n]
        /\ disk' = DiskWith(connection[s], w) /\ UNCHANGED <<fieldVars, localVars, poolVars>>
    BY DEF ListenerWrites
  <1>3. UsesForTransaction(s) /\ connection[s] \in Conn
    BY <1>1, <1>2, SessionFacts DEF Local, UsesForTransaction, HasTransaction
  <1>4. n \in Natives /\ n.open = native[connection[s]].open /\ disk' \subseteq Data
    BY <1>2, <1>3, WrittenTyped
  <1> HIDE DEF n
  <1>5. /\ native' \in [Conn -> Natives] /\ native'[connection[s]] = n
        /\ \A c \in Conn \ {connection[s]} : native'[c] = native[c]
    BY <1>1, <1>2, <1>3, <1>4 DEF TypeOK, Natives
  <1>6. TypeOK'
    BY <1>1, <1>2, <1>4, <1>5 DEF TypeOK, Natives, fieldVars, localVars, poolVars
  <1>7. OnlyMoves(s)
    BY <1>1, <1>2, <1>3, <1>5 DEF OnlyMoves, TypeOK, ConnectionsApart, fieldVars, localVars
  <1>8. Local(s)'
    <2>1. UsesForTransaction(s)' <=> UsesForTransaction(s)
      BY <1>2 DEF UsesForTransaction, HasTransaction, fieldVars, localVars
    <2>2. Top(s)' = Top(s) /\ MayYield(s)' = MayYield(s)
      BY <1>2, Zenon DEF Top, MayYield, Unmarked, HasTransaction, HasNestedTransaction, fieldVars
    <2>3. phase'[s] = "onEnd" =>
            /\ ending'[s].successful = Successful(Top(s), ending[s].yielding)'
            /\ ending'[s].yielding => MayYield(s)'
      BY <1>1, <1>2, <2>2, Zenon DEF Local, Successful, localVars
    <2> QED  BY <1>1, <1>2, <1>3, <1>4, <1>5, <2>1, <2>3 DEF Local, fieldVars, localVars
  <1>9. ConnectionsApart'
    BY <1>1, <1>2 DEF ConnectionsApart, fieldVars, poolVars
  <1> QED  BY <1>6, <1>7, <1>8, <1>9, OneSessionMoves

\* Closing the pool takes the idle connections only.
LEMMA ClosePoolKeeps ==
  ASSUME SessionInvariant, ClosePool
  PROVE  SessionInvariant'
  <1>1. TypeOK /\ ConnectionsApart
    BY DEF SessionInvariant
  <1>2. /\ poolOpen' = FALSE /\ idle' = {} /\ UNCHANGED <<fieldVars, localVars, disk>>
        /\ native' = [c \in Conn |-> IF c \in idle THEN NoTransaction ELSE native[c]]
    BY DEF ClosePool
  <1>3. native' \in [Conn -> Natives] /\ \A c \in Conn \ idle : native'[c] = native[c]
    BY <1>1, <1>2, NullValues DEF TypeOK, Natives
  <1>4. TypeOK'
    BY <1>1, <1>2, <1>3 DEF TypeOK, Natives, fieldVars, localVars
  <1>5. ConnectionsApart'
    BY <1>1, <1>2 DEF ConnectionsApart, fieldVars
  <1>6. \A s \in Session : OnlyMoves(s)
    BY <1>1, <1>2, <1>3 DEF OnlyMoves, TypeOK, ConnectionsApart, fieldVars, localVars
  <1>7. ASSUME NEW s \in Session PROVE Local(s)'
    <2>1. Local(s)
      BY InvariantBySession
    <2>2. UsesForTransaction(s)' <=> UsesForTransaction(s)
      BY <1>2 DEF UsesForTransaction, HasTransaction, fieldVars, localVars
    <2>3. Top(s)' = Top(s) /\ MayYield(s)' = MayYield(s)
      BY <1>2, Zenon DEF Top, MayYield, Unmarked, HasTransaction, HasNestedTransaction, fieldVars
    <2>4. phase'[s] = "onEnd" =>
            /\ ending'[s].successful = Successful(Top(s), ending[s].yielding)'
            /\ ending'[s].yielding => MayYield(s)'
      BY <1>2, <2>1, <2>3, Zenon DEF Local, Successful, localVars
    <2>5. UsesForTransaction(s) => native'[connection[s]] = native[connection[s]]
      BY <1>1, <1>3, SessionFacts DEF ConnectionsApart
    <2> QED  BY <1>2, <2>1, <2>2, <2>4, <2>5 DEF Local, fieldVars, localVars
  <1>8. \A s \in Session : Local(s)'
    BY <1>7
  <1> QED
    BY <1>4, <1>5, <1>8 DEF SessionInvariant, ConnectionWhileNeeded, WaitsEmptyHanded,
       PhaseMatchesStack, CallMatchesPhase, EndingMatchesTop, BegunIsOpen, Local

\* Sessions start with nothing.
LEMMA InvariantInitially ==
  ASSUME Init
  PROVE  SessionInvariant
  <1>1. \A s \in Session : stack[s] = <<>> /\ Len(stack[s]) = 0
    BY EmptySeq DEF Init
  <1>2. TypeOK
    <2>1. <<>> \in Seq(StackEntry) /\ Len(<<>>) <= MaxNesting
      BY EmptySeq, SessionAssumption
    <2> QED  BY <2>1, SessionAssumption
             DEF Init, TypeOK, NoCall, NotEnding, NoTransaction
  <1>3. ConnectionsApart
    BY SessionAssumption DEF Init, ConnectionsApart
  <1>4. \A s \in Session : Local(s)
    BY <1>1 DEF Init, Local, UsesForTransaction, HasTransaction, NotEnding
  <1> QED  BY <1>2, <1>3, <1>4, InvariantBySession

\* Every step keeps the invariant of sessions.
LEMMA InvariantKept ==
  ASSUME SessionInvariant, [Next]_vars
  PROVE  SessionInvariant'
  <1>1. CASE ClosePool
    BY <1>1, ClosePoolKeeps
  <1>2. ASSUME NEW s \in Session, Acquire(s) \/ AcquireCanceled(s) PROVE SessionInvariant'
    BY <1>2, AcquireKeeps, AcquireThrowsKeeps DEF AcquireCanceled
  <1>3. ASSUME NEW s \in Session, CallGoesOn(s) PROVE SessionInvariant'
    BY <1>3, AcquireThrowsKeeps, ExecuteBeginKeeps, ExecuteBeginThrowsKeeps, OnBeginKeeps,
       OnBeginThrowsKeeps, UnbeginKeeps, OnEndKeeps, CommitOrRollbackKeeps, ResumeKeeps,
       EndTransactionKeeps, Zenon DEF CallGoesOn, AcquireRefused
  <1>4. ASSUME NEW s \in Session, Call(s) PROVE SessionInvariant'
    <2>1. CASE \E r \in Begins : BeginOutermost(s, r) \/ BeginNested(s, r)
      BY <2>1, BeginOutermostKeeps, BeginNestedKeeps
    <2>2. CASE SetTransactionSuccessful(s)
      <3>1. Mark(s) /\ UNCHANGED <<connection, useCount, flags, localVars, poolVars, nativeVars>>
        BY <2>2 DEF SetTransactionSuccessful
      <3>2. phase' = [phase EXCEPT ![s] = "ready"]
        BY <3>1 DEF Mark, SessionInvariant, TypeOK, localVars
      <3> QED  BY <3>1, <3>2, MarkingKeeps DEF localVars
    <2>3. CASE ExecuteSpecialCommit(s)
      BY <2>3, MarkingKeeps DEF ExecuteSpecialCommit
    <2>4. CASE EndTransaction(s) \/ YieldTransaction(s)
      BY <2>4, EndTransactionKeeps, YieldTransactionKeeps
    <2>5. CASE \E p \in BOOLEAN : StatementBegins(s, p)
      BY <2>5, StatementBeginsKeeps
    <2>6. CASE \/ \E d \in Data : StatementEnds(s, {d}) \/ ListenerWrites(s, {d})
               \/ StatementEnds(s, {})
      BY <2>6, StatementEndsKeeps, ListenerWritesKeeps
    <2> QED  BY <1>4, <2>1, <2>2, <2>3, <2>4, <2>5, <2>6, Zenon DEF Call
  <1>5. CASE UNCHANGED vars
    <2>1. /\ connection' = connection /\ useCount' = useCount /\ flags' = flags /\ stack' = stack
          /\ phase' = phase /\ call' = call /\ ending' = ending /\ running' = running
          /\ poolOpen' = poolOpen /\ idle' = idle /\ native' = native /\ disk' = disk
      BY <1>5 DEF vars, fieldVars, localVars, poolVars, nativeVars
    <2>2. TypeOK' /\ ConnectionsApart'
      BY <2>1 DEF SessionInvariant, TypeOK, ConnectionsApart
    <2>3. ASSUME NEW s \in Session PROVE Local(s)'
      <3>1. Local(s)
        BY InvariantBySession
      <3>2. Local(s)' = Local(s)
        BY <2>1, Zenon DEF Local, UsesForTransaction, HasTransaction, HasNestedTransaction, Top,
           MayYield, Unmarked, Successful
      <3> QED  BY <3>1, <3>2
    <2> QED
      BY <2>2, <2>3 DEF SessionInvariant, ConnectionWhileNeeded, WaitsEmptyHanded,
         PhaseMatchesStack, CallMatchesPhase, EndingMatchesTop, BegunIsOpen, Local
  <1> QED  BY <1>1, <1>2, <1>3, <1>4, <1>5, Zenon DEF Next

-----------------------------------------------------------------------------
(* The theorems.                                                           *)

\* The strengthened invariant holds in every reachable state, whatever fails:
\* a session has its connection as long as a transaction or a statement needs
\* it, waits empty-handed, and has BEGIN executed on it while in a transaction.
THEOREM SessionInvariantHolds == Spec => []SessionInvariant
  BY InvariantInitially, InvariantKept, PTL DEF Spec

\* Every variable has its type: in particular a session counts at most one use
\* of its connection for each statement and one for its transactions.
THEOREM TypesHold == Spec => []TypeOK
  <1>1. SessionInvariant => TypeOK
    BY DEF SessionInvariant
  <1> QED  BY <1>1, SessionInvariantHolds, PTL

\* acquireConnection and releaseConnection are paired on every path, whichever
\* calls and listeners throw.
THEOREM ConnectionHeldWhileNeeded == Spec => []ConnectionWhileNeeded
  <1>1. SessionInvariant => ConnectionWhileNeeded
    BY DEF SessionInvariant
  <1> QED  BY <1>1, SessionInvariantHolds, PTL

\* A thread that waits for a connection has none.
THEOREM WaitingIsEmptyHanded == Spec => []WaitsEmptyHanded
  <1>1. SessionInvariant => WaitsEmptyHanded
    BY DEF SessionInvariant
  <1> QED  BY <1>1, SessionInvariantHolds, PTL

-----------------------------------------------------------------------------
(* Transactions of the sessions and of SQLite match, unless an end failed  *)
(* in a way that leaves SQLite's open.                                     *)

InTransaction(s) == UsesForTransaction(s) /\ phase[s] # "begin"

NoLeftover ==
  \A c \in Conn : native[c].open => \E s \in Session : connection[s] = c /\ InTransaction(s)

EndsClean == Faults \cap {"busy", "rollback"} = {}

\* A step leaves no transaction behind if it opens none but on its session's connection,
\* and keeps that.
LEMMA LeavesNothing ==
  ASSUME NoLeftover, NEW s \in Session, OnlyMoves(s),
         \A c \in Conn \ {connection[s]} : native'[c].open => native[c].open,
         connection[s] \in Conn /\ native'[connection[s]].open =>
           connection'[s] = connection[s] /\ InTransaction(s)'
  PROVE  NoLeftover'
  <1> SUFFICES ASSUME NEW c \in Conn, native'[c].open
               PROVE  \E u \in Session : connection'[u] = c /\ InTransaction(u)'
    BY DEF NoLeftover
  <1>1. CASE c = connection[s]
    BY <1>1
  <1>2. CASE c # connection[s]
    <2>1. PICK u \in Session : connection[u] = c /\ InTransaction(u)
      BY <1>2 DEF NoLeftover
    <2>2. u \in Session \ {s}
      BY <1>2, <2>1
    <2>3. connection'[u] = c /\ phase'[u] = phase[u] /\ stack'[u] = stack[u]
      BY <2>1, <2>2 DEF OnlyMoves
    <2>4. InTransaction(u)'
      BY <2>1, <2>3 DEF InTransaction, UsesForTransaction, HasTransaction
    <2> QED  BY <2>3, <2>4
  <1> QED  BY <1>1, <1>2

\* SQLite's transaction on the connection of s is the session's.
LEMMA OpenIsOwn ==
  ASSUME SessionInvariant, NoLeftover, NEW s \in Session,
         connection[s] \in Conn, native[connection[s]].open
  PROVE  InTransaction(s)
  <1>1. PICK u \in Session : connection[u] = connection[s] /\ InTransaction(u)
    BY DEF NoLeftover
  <1>2. u = s
    BY <1>1, SessionAssumption DEF SessionInvariant, ConnectionsApart
  <1> QED  BY <1>1, <1>2

\* A step that executes nothing, and does not leave a transaction.
LEMMA ExecutesNothing ==
  ASSUME SessionInvariant, NoLeftover, NEW s \in Session, OnlyMoves(s), native' = native,
         connection[s] \in Conn => connection'[s] = connection[s],
         InTransaction(s) => InTransaction(s)'
  PROVE  NoLeftover'
  <1>1. connection[s] \in Conn /\ native'[connection[s]].open =>
          connection'[s] = connection[s] /\ InTransaction(s)'
    BY OpenIsOwn
  <1> QED  BY <1>1, LeavesNothing

\* A step that lets go of the connection with no transaction open on it.
LEMMA LetsGoClean ==
  ASSUME SessionInvariant, NoLeftover, NEW s \in Session, OnlyMoves(s), NEW n \in Natives,
         UsesForTransaction(s), Release(s, n), ~n.open
  PROVE  NoLeftover'
  <1>1. /\ native'[connection[s]] \in {n, NoTransaction}
        /\ \A d \in Conn \ {connection[s]} : native'[d] = native[d]
    BY Releasing
  <1>2. ~native'[connection[s]].open
    BY <1>1 DEF NoTransaction
  <1> QED  BY <1>1, <1>2, LeavesNothing

\* The pop of a level leaves the session in a transaction, if only in the phase before
\* COMMIT.
LEMMA PoppedStaysIn ==
  ASSUME SessionInvariant, NEW s \in Session, HasTransaction(s), NEW e, Pop(s, e)
  PROVE  InTransaction(s)'
  <1>1. /\ stack'[s] = Popped(stack[s], e)
        /\ phase'[s] = IF HasNestedTransaction(s) THEN "ready" ELSE "finish"
    BY DEF Pop, SessionInvariant, TypeOK
  <1>2. CASE HasNestedTransaction(s)
    <2>1. stack[s] \in Seq(StackEntry) /\ stack[s] # <<>> /\ Len(stack[s]) \in Nat /\ Len(stack[s]) > 1
      BY <1>2, SessionFacts, EmptyStack DEF HasTransaction, HasNestedTransaction
    <2>2. stack'[s] \in Seq(StackEntry) /\ Len(stack'[s]) = Len(stack[s]) - 1
      BY <1>1, <2>1, PoppedStack
    <2>3. stack'[s] # <<>>
      BY <2>1, <2>2, EmptyStack
    <2> QED  BY <1>1, <1>2, <2>3 DEF InTransaction, UsesForTransaction, HasTransaction
  <1>3. CASE ~HasNestedTransaction(s)
    BY <1>1, <1>3 DEF InTransaction, UsesForTransaction
  <1> QED  BY <1>2, <1>3

\* endTransactionUnchecked up to that phase leaves none behind.
LEMMA EndingLeavesNothing ==
  ASSUME SessionInvariant, NoLeftover, NEW s \in Session, OnlyMoves(s), NEW yielding,
         HasTransaction(s), EndUnchecked(s, Top(s), yielding)
  PROVE  NoLeftover'
  <1>1. native' = native /\ connection' = connection
    BY DEF EndUnchecked, nativeVars
  <1>2. CASE Top(s).listener
    <2>1. stack' = stack /\ phase'[s] = "onEnd"
      BY <1>2 DEF EndUnchecked, SessionInvariant, TypeOK
    <2>2. InTransaction(s)'
      BY <2>1 DEF InTransaction, UsesForTransaction, HasTransaction
    <2> QED  BY <1>1, <2>2, ExecutesNothing
  <1>3. CASE ~Top(s).listener
    <2>1. \E e : Pop(s, e)
      BY <1>3 DEF EndUnchecked
    <2>2. InTransaction(s)'
      BY <2>1, PoppedStaysIn
    <2> QED  BY <1>1, <2>2, ExecutesNothing
  <1> QED  BY <1>2, <1>3

\* Nor does any step of a call under way, as COMMIT and ROLLBACK end what they are for.
LEMMA CallGoesOnLeavesNothing ==
  ASSUME SessionInvariant, NoLeftover, EndsClean, NEW s \in Session, CallGoesOn(s)
  PROVE  NoLeftover'
  <1>1. CASE AcquireRefused(s)
    <2>1. connection[s] = None /\ native' = native
      BY <1>1, SessionFacts DEF AcquireRefused, AcquireThrows, Local, nativeVars
    <2>2. connection[s] \notin Conn
      BY <2>1, SessionAssumption
    <2> QED  BY <1>1, <2>1, <2>2, AcquireThrowsKeeps, LeavesNothing DEF AcquireRefused
  <1>2. CASE ExecuteBegin(s)
    <2>1. /\ native' = [native EXCEPT ![connection[s]] = Begun(call[s].mode)]
          /\ connection' = connection /\ SessionInvariant' /\ OnlyMoves(s)
      BY <1>2, ExecuteBeginKeeps DEF ExecuteBegin
    <2>2. \A c \in Conn \ {connection[s]} : native'[c] = native[c]
      BY <2>1 DEF SessionInvariant, TypeOK
    <2>3. InTransaction(s)'
      <3>1. CASE call[s].listener
        BY <1>2, <3>1 DEF ExecuteBegin, InTransaction, UsesForTransaction, SessionInvariant, TypeOK
      <3>2. CASE ~call[s].listener
        <4>1. stack' = [stack EXCEPT ![s] = Append(stack[s], Obtained(call[s]))] /\ phase'[s] = "ready"
          BY <1>2, <3>2 DEF ExecuteBegin, Push, SessionInvariant, TypeOK
        <4>2. Obtained(call[s]) \in StackEntry
          BY <1>2, SessionFacts DEF ExecuteBegin, Local, Obtained, StackEntry, Calls
        <4>3. stack'[s] # <<>>
          <5>1. Append(stack[s], Obtained(call[s])) # <<>>
            BY <4>2, PushedStack, SessionFacts
          <5> QED  BY <4>1, <5>1 DEF SessionInvariant, TypeOK
        <4> QED  BY <4>1, <4>3 DEF InTransaction, UsesForTransaction, HasTransaction
      <3> QED  BY <3>1, <3>2
    <2> QED  BY <2>1, <2>2, <2>3, LeavesNothing
  <1>3. CASE ExecuteBeginThrows(s)
    <2>1. phase[s] = "begin" /\ Release(s, native[connection[s]])
      BY <1>3 DEF ExecuteBeginThrows
    <2>2. UsesForTransaction(s) /\ connection[s] \in Conn /\ native[connection[s]] \in Natives
      BY <2>1, SessionFacts DEF UsesForTransaction
    <2>3. ~native[connection[s]].open
      BY <2>1, <2>2, OpenIsOwn DEF InTransaction
    <2> QED  BY <1>3, <2>1, <2>2, <2>3, ExecuteBeginThrowsKeeps, LetsGoClean
  <1>4. CASE OnBegin(s)
    <2>1. native' = native /\ connection' = connection /\ phase'[s] = "ready"
      BY <1>4 DEF OnBegin, Push, nativeVars, SessionInvariant, TypeOK
    <2>2. stack'[s] # <<>>
      <3>1. stack' = [stack EXCEPT ![s] = Append(stack[s], Obtained(call[s]))]
        BY <1>4 DEF OnBegin, Push
      <3>2. Obtained(call[s]) \in StackEntry
        BY <1>4, SessionFacts DEF OnBegin, Local, Obtained, StackEntry, Calls
      <3>3. Append(stack[s], Obtained(call[s])) # <<>>
        BY <3>2, PushedStack, SessionFacts
      <3> QED  BY <3>1, <3>3 DEF SessionInvariant, TypeOK
    <2> QED
      BY <1>4, <2>1, <2>2, OnBeginKeeps, ExecutesNothing DEF InTransaction, UsesForTransaction, HasTransaction
  <1>5. CASE OnBeginThrows(s)
    <2>1. /\ native' = native /\ connection' = connection /\ stack' = stack
          /\ phase'[s] = IF HasTransaction(s) THEN "ready" ELSE "unbegin"
      BY <1>5 DEF OnBeginThrows, fieldVars, nativeVars, SessionInvariant, TypeOK
    <2> QED
      BY <1>5, <2>1, OnBeginThrowsKeeps, ExecutesNothing DEF InTransaction, UsesForTransaction, HasTransaction
  <1>6. CASE Unbegin(s)
    <2>1. UsesForTransaction(s) /\ Release(s, NoTransaction)
      BY <1>6 DEF Unbegin, UsesForTransaction, EndsClean
    <2> QED  BY <1>6, <2>1, UnbeginKeeps, LetsGoClean, NullValues DEF NoTransaction
  <1>7. CASE OnEnd(s) \/ OnEndThrows(s)
    <2>1. native' = native /\ connection' = connection /\ SessionInvariant' /\ OnlyMoves(s)
      BY <1>7, OnEndKeeps DEF OnEnd, OnEndThrows, nativeVars
    <2>2. \E e : Pop(s, e)
      BY <1>7 DEF OnEnd, OnEndThrows
    <2>3. HasTransaction(s)
      BY <1>7, SessionFacts DEF OnEnd, OnEndThrows, Local, HasTransaction
    <2>4. InTransaction(s)'
      BY <2>2, <2>3, PoppedStaysIn
    <2> QED  BY <2>1, <2>4, ExecutesNothing
  <1>8. CASE Commit(s) \/ CommitThrows(s) \/ Rollback(s)
    <2>1. UsesForTransaction(s) /\ Release(s, NoTransaction)
      BY <1>8 DEF Commit, CommitThrows, Rollback, UsesForTransaction, EndsClean
    <2> QED  BY <1>8, <2>1, CommitOrRollbackKeeps, LetsGoClean, NullValues DEF NoTransaction
  <1>9. CASE Resume(s)
    <2>1. native' = native /\ connection' = connection /\ ~InTransaction(s)
      BY <1>9, SessionFacts
         DEF Resume, AcquireFor, InTransaction, UsesForTransaction, HasTransaction, Local, fieldVars, nativeVars
    <2> QED  BY <1>9, <2>1, ResumeKeeps, ExecutesNothing
  <1>10. CASE EndTransaction(s)
    BY <1>10, EndingLeavesNothing, EndTransactionKeeps DEF EndTransaction
  <1> QED  BY <1>1, <1>2, <1>3, <1>4, <1>5, <1>6, <1>7, <1>8, <1>9, <1>10, Zenon DEF CallGoesOn

\* Nor does marking.
LEMMA MarkingLeavesNothing ==
  ASSUME SessionInvariant, NoLeftover, NEW s \in Session, NEW next \in {"ready", "special"}, Mark(s),
         phase' = [phase EXCEPT ![s] = next],
         UNCHANGED <<connection, useCount, flags, call, ending, running, poolVars, nativeVars>>
  PROVE  NoLeftover'
  <1>1. stack[s] \in Seq(StackEntry) /\ stack[s] # <<>>
    BY SessionFacts DEF Mark, Unmarked, HasTransaction
  <1>2. stack'[s] = [stack[s] EXCEPT ![Len(stack[s])].marked = TRUE]
    BY DEF Mark, SessionInvariant, TypeOK
  <1>3. stack'[s] # <<>> /\ phase'[s] = next
    BY <1>1, <1>2, MarkedStack DEF SessionInvariant, TypeOK
  <1>4. InTransaction(s)'
    BY <1>3 DEF InTransaction, UsesForTransaction, HasTransaction
  <1>5. OnlyMoves(s)
    BY MarkingKeeps
  <1> QED  BY <1>4, <1>5, ExecutesNothing DEF nativeVars

\* Nor does the beginning of any call.
LEMMA CallLeavesNothing ==
  ASSUME SessionInvariant, NoLeftover, NEW s \in Session, Call(s)
  PROVE  NoLeftover'
  <1>1. ASSUME NEW r \in Begins, BeginOutermost(s, r) PROVE NoLeftover'
    <2>1. native' = native /\ connection' = connection /\ ~InTransaction(s)
      BY <1>1 DEF BeginOutermost, AcquireFor, InTransaction, UsesForTransaction, HasTransaction,
         fieldVars, nativeVars
    <2> QED  BY <1>1, <2>1, BeginOutermostKeeps, ExecutesNothing
  <1>2. ASSUME NEW r \in Begins, BeginNested(s, r) PROVE NoLeftover'
    <2>1. native' = native /\ connection' = connection /\ phase'[s] \in {"ready", "onBegin"}
      BY <1>2 DEF BeginNested, Push, nativeVars, SessionInvariant, TypeOK
    <2>2. phase'[s] = "onBegin" \/ stack'[s] # <<>>
      <3>1. CASE r.listener
        BY <1>2, <3>1 DEF BeginNested, SessionInvariant, TypeOK
      <3>2. CASE ~r.listener
        <4>1. stack' = [stack EXCEPT ![s] = Append(stack[s], Obtained(r))]
          BY <1>2, <3>2 DEF BeginNested, Push
        <4>2. Obtained(r) \in StackEntry
          BY SessionAssumption DEF Obtained, StackEntry
        <4>3. Append(stack[s], Obtained(r)) # <<>>
          BY <4>2, PushedStack, SessionFacts
        <4> QED  BY <4>1, <4>3 DEF SessionInvariant, TypeOK
      <3> QED  BY <3>1, <3>2
    <2> QED
      BY <1>2, <2>1, <2>2, BeginNestedKeeps, ExecutesNothing
         DEF InTransaction, UsesForTransaction, HasTransaction
  <1>3. CASE SetTransactionSuccessful(s)
    <2>1. /\ Mark(s) /\ UNCHANGED <<connection, useCount, flags, localVars, poolVars, nativeVars>>
          /\ phase' = [phase EXCEPT ![s] = "ready"]
      BY <1>3 DEF SetTransactionSuccessful, Mark, SessionInvariant, TypeOK, localVars
    <2> QED  BY <2>1, MarkingLeavesNothing DEF localVars
  <1>4. CASE ExecuteSpecialCommit(s)
    BY <1>4, MarkingLeavesNothing DEF ExecuteSpecialCommit
  <1>5. CASE EndTransaction(s)
    BY <1>5, EndingLeavesNothing, EndTransactionKeeps DEF EndTransaction
  <1>6. CASE YieldTransaction(s)
    BY <1>6, EndingLeavesNothing, YieldTransactionKeeps DEF YieldTransaction, MayYield, Unmarked
  <1>7. ASSUME NEW p \in BOOLEAN, StatementBegins(s, p) PROVE NoLeftover'
    <2>1. /\ phase[s] = "ready" /\ native' = native /\ connection' = connection /\ stack' = stack
          /\ NeedsConnection(s) \/ phase' = [phase EXCEPT ![s] = "ready"]
      BY <1>7 DEF StatementBegins, AcquireFor, fieldVars, nativeVars
    <2>2. InTransaction(s) => InTransaction(s)'
      BY <2>1, SessionFacts
         DEF InTransaction, UsesForTransaction, HasTransaction, NeedsConnection, SessionInvariant, TypeOK
    <2> QED  BY <1>7, <2>1, <2>2, StatementBeginsKeeps, ExecutesNothing
  <1>8. ASSUME NEW w \in SUBSET Data, StatementEnds(s, w) PROVE NoLeftover'
    <2> DEFINE n == Written(connection[s], w)
    <2>1. /\ phase[s] = "ready" /\ running[s] > 0 /\ Release(s, n)
          /\ UNCHANGED <<stack, phase>>
      BY <1>8 DEF StatementEnds
    <2>2. connection[s] \in Conn
      BY <2>1, SessionFacts
    <2>3. n \in Natives /\ n.open = native[connection[s]].open
      BY <2>2, WrittenTyped
    <2> HIDE DEF n
    <2>4. /\ native'[connection[s]] \in {n, NoTransaction}
          /\ \A d \in Conn \ {connection[s]} : native'[d] = native[d]
          /\ connection'[s] # None => connection'[s] = connection[s]
      BY <2>1, <2>3, Releasing
    <2>5. SessionInvariant' /\ OnlyMoves(s)
      BY <1>8, StatementEndsKeeps
    <2>6. ASSUME native'[connection[s]].open
          PROVE  connection'[s] = connection[s] /\ InTransaction(s)'
      <3>1. native[connection[s]].open
        BY <2>3, <2>4, <2>6 DEF NoTransaction
      <3>2. InTransaction(s)
        BY <2>2, <3>1, OpenIsOwn
      <3>3. InTransaction(s)'
        BY <2>1, <3>2 DEF InTransaction, UsesForTransaction, HasTransaction
      <3>4. connection'[s] # None
        <4>1. ConnectionWhileNeeded' /\ TypeOK' /\ UsesForTransaction(s)'
          BY <2>5, <3>3 DEF SessionInvariant, InTransaction
        <4> QED  BY <4>1 DEF ConnectionWhileNeeded, TypeOK
      <3> QED  BY <2>4, <3>3, <3>4
    <2> QED  BY <2>4, <2>5, <2>6, LeavesNothing
  <1>9. ASSUME NEW d \in Data, ListenerWrites(s, {d}) PROVE NoLeftover'
    <2>1. /\ native' = [native EXCEPT ![connection[s]] = Written(connection[s], {d})]
          /\ UNCHANGED <<connection, stack, phase>> /\ phase[s] \in {"onBegin", "onEnd"}
      BY <1>9 DEF ListenerWrites, fieldVars, localVars
    <2>2. connection[s] \in Conn /\ UsesForTransaction(s)
      BY <2>1, SessionFacts DEF Local, UsesForTransaction, HasTransaction
    <2>3. \A c \in Conn \ {connection[s]} : native'[c] = native[c]
      BY <2>1 DEF SessionInvariant, TypeOK
    <2>4. InTransaction(s)'
      BY <2>1, <2>2 DEF InTransaction, UsesForTransaction, HasTransaction
    <2> QED  BY <1>9, <2>1, <2>3, <2>4, ListenerWritesKeeps, LeavesNothing
  <1> QED
    BY <1>1, <1>2, <1>3, <1>4, <1>5, <1>6, <1>7, <1>8, <1>9 DEF Call

\* No step leaves a transaction on a connection that is given back.
LEMMA NothingLeft ==
  ASSUME SessionInvariant, NoLeftover, EndsClean, [Next]_vars
  PROVE  NoLeftover'
  <1>1. CASE ClosePool
    <2>1. /\ UNCHANGED <<connection, stack, phase>>
          /\ native' = [c \in Conn |-> IF c \in idle THEN NoTransaction ELSE native[c]]
      BY <1>1 DEF ClosePool, fieldVars, localVars
    <2>2. \A c \in Conn : native'[c].open => native[c].open
      BY <2>1 DEF NoTransaction
    <2>3. \A s \in Session : InTransaction(s) => InTransaction(s)'
      BY <2>1 DEF InTransaction, UsesForTransaction, HasTransaction
    <2> QED  BY <2>1, <2>2, <2>3 DEF NoLeftover
  <1>2. ASSUME NEW s \in Session, Acquire(s) \/ AcquireCanceled(s) PROVE NoLeftover'
    <2>1. connection[s] = None /\ native' = native
      BY <1>2, SessionFacts DEF Acquire, AcquireCanceled, AcquireThrows, Local, nativeVars
    <2>2. connection[s] \notin Conn
      BY <2>1, SessionAssumption
    <2>3. OnlyMoves(s)
      BY <1>2, AcquireKeeps, AcquireThrowsKeeps DEF AcquireCanceled
    <2> QED  BY <2>1, <2>2, <2>3, LeavesNothing
  <1>3. ASSUME NEW s \in Session, CallGoesOn(s) \/ Call(s) PROVE NoLeftover'
    BY <1>3, CallGoesOnLeavesNothing, CallLeavesNothing
  <1>4. CASE UNCHANGED vars
    <2>1. UNCHANGED <<connection, stack, phase, native>>
      BY <1>4 DEF vars, fieldVars, localVars, nativeVars
    <2> QED  BY <2>1 DEF NoLeftover, InTransaction, UsesForTransaction, HasTransaction
  <1> QED  BY <1>1, <1>2, <1>3, <1>4 DEF Next

\* When COMMIT and ROLLBACK, if they throw, leave no transaction open, SQLite
\* has one open on exactly the connections whose session is in one: none goes
\* back to the pool, and no write of an explicit transaction commits by itself.
THEOREM TransactionsMatchAlways == EndsClean => (Spec => []TransactionsMatch)
  <1> SUFFICES ASSUME EndsClean PROVE Spec => []TransactionsMatch
    OBVIOUS
  <1>1. Init => SessionInvariant /\ NoLeftover
    BY InvariantInitially DEF Init, NoLeftover, NoTransaction
  <1>2. SessionInvariant /\ NoLeftover /\ [Next]_vars => (SessionInvariant /\ NoLeftover)'
    BY InvariantKept, NothingLeft
  <1>3. SessionInvariant /\ NoLeftover => TransactionsMatch
    BY SessionFacts DEF SessionInvariant, BegunIsOpen, NoLeftover, TransactionsMatch, InTransaction
  <1> QED  BY <1>1, <1>2, <1>3, PTL DEF Spec

\* Under the same condition a session that takes a connection to begin a
\* transaction finds none of an earlier session on it: the ways for an end to
\* fail that EndsClean excludes are the only ones that break it.
THEOREM OwnTransactionStateAlways == EndsClean => (Spec => []OwnTransactionState)
  <1> SUFFICES ASSUME EndsClean PROVE Spec => []OwnTransactionState
    OBVIOUS
  <1>1. Init => SessionInvariant /\ NoLeftover
    BY InvariantInitially DEF Init, NoLeftover, NoTransaction
  <1>2. SessionInvariant /\ NoLeftover /\ [Next]_vars => (SessionInvariant /\ NoLeftover)'
    BY InvariantKept, NothingLeft
  <1>3. SessionInvariant /\ NoLeftover => OwnTransactionState
    BY OpenIsOwn, SessionFacts DEF OwnTransactionState, InTransaction, UsesForTransaction
  <1> QED  BY <1>1, <1>2, <1>3, PTL DEF Spec

-----------------------------------------------------------------------------
(* Sessions implement nested transactions that are all or nothing: the      *)
(* refinement that the runs check on small instances, proved step by step.  *)
(* A step of SQLiteSession moves one session, so that what NestedTransaction *)
(* sees of the others stays; Viewed turns that into the form of its actions. *)

-----------------------------------------------------------------------------
(* The view of one session.                                                *)

\* A step of one session leaves the abstract state of the others.
LEMMA OthersUnseen ==
  ASSUME SessionInvariant, NEW s \in Session, OnlyMoves(s), NEW u \in Session \ {s}
  PROVE  /\ Depth(u)' = Depth(u) /\ MarkedLevels(u)' = MarkedLevels(u) /\ Work(u)' = Work(u)
         /\ IsDoomed(u)' <=> IsDoomed(u)
         /\ ending'[u].yielding <=> ending[u].yielding
  <1>1. /\ connection'[u] = connection[u] /\ stack'[u] = stack[u]
        /\ phase'[u] = phase[u] /\ ending'[u] = ending[u]
        /\ connection[u] # None => native'[connection[u]] = native[connection[u]]
    BY DEF OnlyMoves
  <1>2. Opening(u)' <=> Opening(u)
    BY <1>1 DEF Opening, HasTransaction
  <1>3. Depth(u)' = Depth(u)
    BY <1>1, <1>2 DEF Depth
  <1>4. MarkedLevels(u)' = MarkedLevels(u)
    BY <1>1, Zenon DEF MarkedLevels
  <1>5. IsDoomed(u)' <=> IsDoomed(u)
    BY <1>1, Zenon DEF IsDoomed
  <1>6. Depth(u) > 0 => connection[u] # None
    <2>1. stack[u] \in Seq(StackEntry)
      BY SessionFacts
    <2>2. Depth(u) > 0 => UsesForTransaction(u)
      BY <2>1, EmptyStack DEF Depth, Opening, UsesForTransaction, HasTransaction
    <2> QED  BY <2>2, SessionFacts
  <1>7. Work(u)' = Work(u)
    BY <1>1, <1>3, <1>6 DEF Work
  <1> QED  BY <1>1, <1>3, <1>4, <1>5, <1>7, Zenon

\* The state functions of the mapping, in the form NestedTransaction's actions have.
LEMMA Viewed ==
  ASSUME SessionInvariant, NEW s \in Session, OnlyMoves(s)
  PROVE  /\ Depths[s] = Depth(s) /\ Depths' = [Depths EXCEPT ![s] = Depth(s)']
         /\ Marks[s] = MarkedLevels(s) /\ Marks' = [Marks EXCEPT ![s] = MarkedLevels(s)']
         /\ Works[s] = Work(s) /\ Works' = [Works EXCEPT ![s] = Work(s)']
         /\ s \in Doomed <=> IsDoomed(s)
         /\ Doomed' = IF IsDoomed(s)' THEN Doomed \cup {s} ELSE Doomed \ {s}
         /\ s \in GivingWay <=> ending[s].yielding
         /\ GivingWay' = IF ending'[s].yielding THEN GivingWay \cup {s} ELSE GivingWay \ {s}
         /\ Depth(s)' = Depth(s) => Depths' = Depths
         /\ MarkedLevels(s)' = MarkedLevels(s) => Marks' = Marks
         /\ Work(s)' = Work(s) => Works' = Works
         /\ (IsDoomed(s)' <=> IsDoomed(s)) => Doomed' = Doomed
         /\ (ending'[s].yielding <=> ending[s].yielding) => GivingWay' = GivingWay
  <1>1. \A u \in Session \ {s} :
          /\ Depth(u)' = Depth(u) /\ MarkedLevels(u)' = MarkedLevels(u) /\ Work(u)' = Work(u)
          /\ IsDoomed(u)' <=> IsDoomed(u)
          /\ ending'[u].yielding <=> ending[u].yielding
    BY OthersUnseen
  <1>2. Depths[s] = Depth(s) /\ Depths' = [Depths EXCEPT ![s] = Depth(s)']
    BY <1>1 DEF Depths
  <1>3. Marks[s] = MarkedLevels(s) /\ Marks' = [Marks EXCEPT ![s] = MarkedLevels(s)']
    BY <1>1 DEF Marks
  <1>4. Works[s] = Work(s) /\ Works' = [Works EXCEPT ![s] = Work(s)']
    BY <1>1 DEF Works
  <1>5. (s \in Doomed <=> IsDoomed(s)) /\ Doomed' = IF IsDoomed(s)' THEN Doomed \cup {s} ELSE Doomed \ {s}
    BY <1>1 DEF Doomed
  <1>6. /\ s \in GivingWay <=> ending[s].yielding
        /\ GivingWay' = IF ending'[s].yielding THEN GivingWay \cup {s} ELSE GivingWay \ {s}
    BY <1>1 DEF GivingWay
  <1>7. /\ Depth(s)' = Depth(s) => Depths' = Depths
        /\ MarkedLevels(s)' = MarkedLevels(s) => Marks' = Marks
        /\ Work(s)' = Work(s) => Works' = Works
    BY <1>1 DEF Depths, Marks, Works
  <1>8. /\ (IsDoomed(s)' <=> IsDoomed(s)) => Doomed' = Doomed
        /\ (ending'[s].yielding <=> ending[s].yielding) => GivingWay' = GivingWay
    BY <1>1 DEF Doomed, GivingWay
  <1> QED  BY <1>2, <1>3, <1>4, <1>5, <1>6, <1>7, <1>8

\* A step that changes nothing that is seen.
LEMMA Stutters ==
  ASSUME SessionInvariant, NEW s \in Session, OnlyMoves(s), disk' = disk,
         stack'[s] = stack[s], phase[s] # "finish", phase'[s] # "finish",
         Opening(s)' <=> Opening(s), ending'[s].yielding <=> ending[s].yielding,
         Depth(s) > 0 => Work(s)' = native[connection[s]].writes
  PROVE  UNCHANGED Abstract!vars
  <1>1. Depth(s)' = Depth(s) /\ MarkedLevels(s)' = MarkedLevels(s)
    BY DEF Depth, MarkedLevels
  <1>2. Work(s)' = Work(s)
    BY <1>1 DEF Work
  <1>3. IsDoomed(s)' <=> IsDoomed(s)
    BY DEF IsDoomed
  <1> QED  BY <1>1, <1>2, <1>3, Viewed DEF Abstract!vars

\* No transaction, and none on its way.
SeenOutside(s) ==
  /\ Depth(s) = 0 /\ MarkedLevels(s) = {} /\ Work(s) = {}
  /\ ~IsDoomed(s) /\ ~ending[s].yielding

\* The outermost transaction is open and not yet on the stack.
SeenOpening(s) ==
  /\ Depth(s) = 1 /\ MarkedLevels(s) = {} /\ Work(s) = native[connection[s]].writes
  /\ ~IsDoomed(s) /\ ~ending[s].yielding

\* A nest of transactions on the stack.
SeenInside(s) ==
  /\ Depth(s) = Len(stack[s]) /\ Depth(s) \in Nat \ {0} /\ Work(s) = native[connection[s]].writes
  /\ MarkedLevels(s) = {i \in 1..Len(stack[s]) : stack[s][i].marked}
  /\ IsDoomed(s) <=> \E i \in 1..Len(stack[s]) : stack[s][i].childFailed

\* The outermost transaction is off the stack and not yet over.
SeenFinishing(s) ==
  /\ Depth(s) = 1 /\ Work(s) = native[connection[s]].writes
  /\ MarkedLevels(s) = IF ending[s].successful /\ ~ending[s].yielding THEN {1} ELSE {}
  /\ IsDoomed(s) <=> ~ending[s].successful

IsSeen(s) ==
  /\ phase[s] \in {"ready", "waiting", "begin", "sleep"} /\ stack[s] = <<>> => SeenOutside(s)
  /\ Opening(s) => SeenOpening(s)
  /\ stack[s] # <<>> => SeenInside(s)
  /\ phase[s] = "finish" => SeenFinishing(s)

\* What a session's abstract state is, by its phase.
LEMMA Seen == \A s \in Session : SessionInvariant => IsSeen(s)
  <1> SUFFICES ASSUME NEW s \in Session, SessionInvariant PROVE IsSeen(s)
    OBVIOUS
  <1>1. stack[s] = <<>> => Len(stack[s]) = 0 /\ DOMAIN stack[s] = {}
    BY EmptySeq
  <1>2. phase[s] \notin {"onEnd", "finish"} => ~ending[s].yielding
    BY SessionFacts DEF Local, NotEnding
  <1>3. phase[s] \in {"ready", "waiting", "begin", "sleep"} /\ stack[s] = <<>> => SeenOutside(s)
    BY <1>1, <1>2 DEF SeenOutside, Depth, Opening, MarkedLevels, IsDoomed, Work
  <1>4. Opening(s) => SeenOpening(s)
    BY <1>1, <1>2 DEF SeenOpening, Depth, Opening, HasTransaction, MarkedLevels, IsDoomed, Work
  <1>5. ASSUME stack[s] # <<>> PROVE SeenInside(s)
    <2>1. phase[s] # "finish" /\ ~Opening(s)
      BY <1>5, SessionFacts DEF Local, Opening, HasTransaction
    <2>2. Len(stack[s]) \in Nat \ {0} /\ DOMAIN stack[s] = 1..Len(stack[s])
      BY <1>5, SessionFacts, EmptyStack
    <2>3. Depth(s) = Len(stack[s])
      BY <2>1 DEF Depth
    <2> QED  BY <2>1, <2>2, <2>3 DEF SeenInside, MarkedLevels, IsDoomed, Work
  <1>6. ASSUME phase[s] = "finish" PROVE SeenFinishing(s)
    <2>1. stack[s] = <<>>
      BY <1>6, SessionFacts DEF Local
    <2> QED  BY <1>1, <1>6, <2>1 DEF SeenFinishing, Depth, MarkedLevels, IsDoomed, Work
  <1> QED  BY <1>3, <1>4, <1>5, <1>6 DEF IsSeen

\* The same of the next state.
LEMMA SeenNext == (\A s \in Session : SessionInvariant => IsSeen(s))'
  BY Seen, PTL

-----------------------------------------------------------------------------
(* Steps of NestedTransaction.                                             *)

\* The end of the outermost transaction, at COMMIT or at ROLLBACK.
LEMMA Closing ==
  ASSUME SessionInvariant, SessionInvariant', NEW s \in Session, OnlyMoves(s),
         phase[s] = "finish" \/ Opening(s),
         phase'[s] \in {"ready", "sleep"}, stack'[s] = <<>>
  PROVE  Abstract!Close(s)
  <1>1. Depth(s) = 1
    BY Seen DEF IsSeen, SeenFinishing, SeenOpening
  <1>2. SeenOutside(s)'
    BY SeenNext DEF IsSeen
  <1> QED  BY <1>1, <1>2, Viewed DEF Abstract!Close, SeenOutside

\* The ROLLBACK after onBegin threw ends the abstract transaction, which has one level.
LEMMA UnbeginRefines ==
  ASSUME SessionInvariant, SessionInvariant', NEW s \in Session, OnlyMoves(s), Unbegin(s)
  PROVE  Abstract!Rollback(s)
  <1>1. /\ phase[s] = "unbegin" /\ phase' = [phase EXCEPT ![s] = "ready"]
        /\ stack' = stack /\ disk' = disk
    BY DEF Unbegin
  <1>2. stack[s] = <<>> /\ Opening(s)
    BY <1>1, SessionFacts DEF Opening, HasTransaction, Local
  <1>3. phase'[s] = "ready"
    BY <1>1 DEF SessionInvariant, TypeOK
  <1> QED  BY <1>1, <1>2, <1>3, Closing DEF Abstract!Rollback

\* After COMMIT or ROLLBACK the stack is empty and no call, or a yield, is under way.
LEMMA FinishLeaves ==
  ASSUME SessionInvariant, NEW s \in Session, NEW thrown, phase[s] = "finish", Finish(s, thrown)
  PROVE  phase'[s] \in {"ready", "sleep"} /\ stack'[s] = <<>>
  BY SessionFacts DEF Finish, SessionInvariant, TypeOK, Local

\* COMMIT publishes what the abstract transaction wrote.
LEMMA CommitRefines ==
  ASSUME SessionInvariant, SessionInvariant', NEW s \in Session, OnlyMoves(s), Commit(s)
  PROVE  Abstract!Commit(s)
  <1>1. /\ phase[s] = "finish" /\ ending[s].successful /\ Finish(s, FALSE)
        /\ disk' = disk \cup native[connection[s]].writes
    BY DEF Commit
  <1>2. Abstract!Close(s)
    BY <1>1, FinishLeaves, Closing
  <1>3. SeenFinishing(s)
    BY <1>1, Seen DEF IsSeen
  <1>4. Works[s] = native[connection[s]].writes /\ s \notin Doomed /\ (1 \in Marks[s] \/ s \in GivingWay)
    BY <1>1, <1>3, Viewed DEF SeenFinishing
  <1> QED  BY <1>1, <1>2, <1>4 DEF Abstract!Commit

\* ROLLBACK publishes nothing, nor does a COMMIT that throws.
LEMMA RollbackRefines ==
  ASSUME SessionInvariant, SessionInvariant', NEW s \in Session, OnlyMoves(s),
         CommitThrows(s) \/ Rollback(s)
  PROVE  Abstract!Rollback(s)
  <1>1. phase[s] = "finish" /\ disk' = disk
    BY DEF CommitThrows, Rollback
  <1>2. PICK thrown : Finish(s, thrown)
    BY DEF CommitThrows, Rollback
  <1> QED  BY <1>1, <1>2, FinishLeaves, Closing DEF Abstract!Rollback

\* A transaction is pushed, unmarked and with no child yet.
LEMMA Pushing ==
  ASSUME SessionInvariant, NEW s \in Session, NEW r \in Calls, r.mode \in Modes, Push(s, r)
  PROVE  /\ phase'[s] = "ready" /\ stack'[s] # <<>> /\ Len(stack'[s]) = Len(stack[s]) + 1
         /\ {i \in 1..Len(stack'[s]) : stack'[s][i].marked} = {i \in 1..Len(stack[s]) : stack[s][i].marked}
         /\ (\E i \in 1..Len(stack'[s]) : stack'[s][i].childFailed) <=>
              \E i \in 1..Len(stack[s]) : stack[s][i].childFailed
  <1> DEFINE ts == stack[s]
             t == Obtained(r)
             us == Append(ts, t)
  <1>1. phase'[s] = "ready" /\ stack'[s] = us
    BY DEF Push, SessionInvariant, TypeOK
  <1>2. t \in StackEntry /\ ~t.marked /\ ~t.childFailed
    BY DEF Obtained, StackEntry, Calls
  <1>3. ts \in Seq(StackEntry) /\ Len(ts) \in Nat
    BY SessionFacts, EmptyStack
  <1> HIDE DEF t
  <1>4. /\ us # <<>> /\ Len(us) = Len(ts) + 1 /\ us[Len(ts) + 1] = t
        /\ \A i \in 1..Len(ts) : us[i] = ts[i]
    BY <1>2, <1>3, PushedStack
  <1> HIDE DEF us
  <1>5. {i \in 1..Len(us) : us[i].marked} = {i \in 1..Len(ts) : ts[i].marked}
    BY <1>2, <1>3, <1>4
  <1>6. (\E i \in 1..Len(us) : us[i].childFailed) <=> \E i \in 1..Len(ts) : ts[i].childFailed
    BY <1>2, <1>3, <1>4
  <1> QED  BY <1>1, <1>4, <1>5, <1>6, Zenon

\* BEGIN, and whatever begins a nested transaction.
LEMMA Beginning ==
  ASSUME SessionInvariant, NEW s \in Session, OnlyMoves(s), disk' = disk,
         Depth(s)' = Depth(s) + 1, MarkedLevels(s)' = MarkedLevels(s), Work(s)' = Work(s),
         IsDoomed(s)' <=> IsDoomed(s), ending'[s].yielding <=> ending[s].yielding
  PROVE  Abstract!Begin(s)
  BY Viewed DEF Abstract!Begin

\* A nested begin without a listener is one more abstract level.
LEMMA BeginNestedRefines ==
  ASSUME SessionInvariant, SessionInvariant', NEW s \in Session, NEW r \in Begins, OnlyMoves(s),
         BeginNested(s, r)
  PROVE  Abstract!Begin(s) \/ UNCHANGED Abstract!vars
  <1>1. r \in Calls /\ r.mode \in Modes
    BY SessionAssumption DEF Calls, Modes
  <1>2. /\ phase[s] = "ready" /\ stack[s] # <<>>
        /\ connection' = connection /\ ending' = ending /\ native' = native /\ disk' = disk
    BY DEF BeginNested, Unmarked, HasTransaction, nativeVars
  <1>3. SeenInside(s)
    BY <1>2, Seen DEF IsSeen
  <1>4. CASE r.listener
    <2>1. stack' = stack /\ phase'[s] = "onBegin"
      BY <1>4 DEF BeginNested, SessionInvariant, TypeOK
    <2>2. ~Opening(s) /\ ~Opening(s)'
      BY <1>2, <2>1 DEF Opening, HasTransaction
    <2>3. SeenInside(s)'
      BY <1>2, <2>1, SeenNext DEF IsSeen
    <2> QED  BY <1>2, <2>1, <2>2, <2>3, Stutters DEF SeenInside
  <1>5. CASE ~r.listener
    <2>1. Push(s, r)
      BY <1>5 DEF BeginNested
    <2>2. SeenInside(s)'
      BY <1>1, <2>1, Pushing, SeenNext DEF IsSeen
    <2> QED  BY <1>1, <1>2, <1>3, <2>1, <2>2, Pushing, Beginning DEF SeenInside
  <1> QED  BY <1>4, <1>5

\* BEGIN opens the abstract transaction.
LEMMA ExecuteBeginRefines ==
  ASSUME SessionInvariant, SessionInvariant', NEW s \in Session, OnlyMoves(s), ExecuteBegin(s)
  PROVE  Abstract!Begin(s)
  <1>1. /\ phase[s] = "begin" /\ connection' = connection /\ ending' = ending /\ disk' = disk
        /\ native' = [native EXCEPT ![connection[s]] = Begun(call[s].mode)]
    BY DEF ExecuteBegin
  <1>2. stack[s] = <<>> /\ connection[s] \in Conn /\ call[s] \in Calls /\ call[s].mode \in Modes
    BY <1>1, SessionFacts DEF UsesForTransaction, Local
  <1>3. SeenOutside(s) /\ Len(stack[s]) = 0
    BY <1>1, <1>2, Seen, EmptySeq DEF IsSeen
  <1>4. native'[connection'[s]].writes = {}
    BY <1>1, <1>2 DEF SessionInvariant, TypeOK, Begun
  <1>5. CASE call[s].listener
    <2>1. stack' = stack /\ phase'[s] = "onBegin"
      BY <1>5 DEF ExecuteBegin, SessionInvariant, TypeOK
    <2>2. Opening(s)'
      BY <1>2, <2>1 DEF Opening, HasTransaction
    <2>3. SeenOpening(s)'
      BY <2>2, SeenNext DEF IsSeen
    <2>4. /\ Depth(s)' = Depth(s) + 1 /\ MarkedLevels(s)' = MarkedLevels(s) /\ Work(s)' = Work(s)
          /\ IsDoomed(s)' <=> IsDoomed(s)
          /\ ending'[s].yielding <=> ending[s].yielding
      BY <1>1, <1>3, <1>4, <2>3 DEF SeenOutside, SeenOpening
    <2> QED  BY <1>1, <2>4, Beginning
  <1>6. CASE ~call[s].listener
    <2>1. Push(s, call[s])
      BY <1>6 DEF ExecuteBegin
    <2>2. /\ stack'[s] # <<>> /\ Len(stack'[s]) = 1
          /\ {i \in 1..Len(stack'[s]) : stack'[s][i].marked} = {}
          /\ ~\E i \in 1..Len(stack'[s]) : stack'[s][i].childFailed
      <3>1. \A i \in 1..Len(stack[s]) : FALSE
        BY <1>3
      <3>2. /\ stack'[s] # <<>> /\ Len(stack'[s]) = Len(stack[s]) + 1
            /\ {i \in 1..Len(stack'[s]) : stack'[s][i].marked} = {i \in 1..Len(stack[s]) : stack[s][i].marked}
            /\ (\E i \in 1..Len(stack'[s]) : stack'[s][i].childFailed) <=>
                 \E i \in 1..Len(stack[s]) : stack[s][i].childFailed
        BY <1>2, <2>1, Pushing
      <3> QED  BY <1>3, <3>1, <3>2
    <2>3. SeenInside(s)'
      BY <2>2, SeenNext DEF IsSeen
    <2>4. /\ Depth(s)' = Depth(s) + 1 /\ MarkedLevels(s)' = MarkedLevels(s) /\ Work(s)' = Work(s)
          /\ IsDoomed(s)' <=> IsDoomed(s)
          /\ ending'[s].yielding <=> ending[s].yielding
      BY <1>1, <1>3, <1>4, <2>2, <2>3 DEF SeenOutside, SeenInside
    <2> QED  BY <1>1, <2>4, Beginning
  <1> QED  BY <1>5, <1>6

\* When onBegin has returned, the level is there: the first was already.
LEMMA OnBeginRefines ==
  ASSUME SessionInvariant, SessionInvariant', NEW s \in Session, OnlyMoves(s), OnBegin(s)
  PROVE  Abstract!Begin(s) \/ UNCHANGED Abstract!vars
  <1>1. /\ phase[s] = "onBegin" /\ Push(s, call[s])
        /\ connection' = connection /\ ending' = ending /\ native' = native /\ disk' = disk
    BY DEF OnBegin, nativeVars
  <1>2. call[s] \in Calls /\ call[s].mode \in Modes
    BY <1>1, SessionFacts DEF Local
  <1>3. /\ phase'[s] = "ready" /\ stack'[s] # <<>> /\ Len(stack'[s]) = Len(stack[s]) + 1
        /\ {i \in 1..Len(stack'[s]) : stack'[s][i].marked} = {i \in 1..Len(stack[s]) : stack[s][i].marked}
        /\ (\E i \in 1..Len(stack'[s]) : stack'[s][i].childFailed) <=>
             \E i \in 1..Len(stack[s]) : stack[s][i].childFailed
    BY <1>1, <1>2, Pushing
  <1>4. SeenInside(s)'
    BY <1>3, SeenNext DEF IsSeen
  <1>5. CASE stack[s] = <<>>
    <2>1. SeenOpening(s)
      BY <1>1, <1>5, Seen DEF IsSeen, Opening, HasTransaction
    <2>2. Len(stack'[s]) = 1
      BY <1>3, <1>5, EmptySeq
    <2>3. \A i \in 1..Len(stack[s]) : FALSE
      BY <1>5, EmptySeq
    <2>4. /\ Depth(s)' = Depth(s) /\ MarkedLevels(s)' = MarkedLevels(s) /\ Work(s)' = Work(s)
          /\ IsDoomed(s)' <=> IsDoomed(s)
      BY <1>1, <1>3, <1>4, <2>1, <2>2, <2>3 DEF SeenOpening, SeenInside
    <2> QED  BY <1>1, <2>4, Viewed DEF Abstract!vars
  <1>6. CASE stack[s] # <<>>
    <2>1. SeenInside(s)
      BY <1>6, Seen DEF IsSeen
    <2> QED  BY <1>1, <1>3, <1>4, <2>1, Beginning DEF SeenInside
  <1> QED  BY <1>5, <1>6

\* Marking marks the innermost level.
LEMMA MarkRefines ==
  ASSUME SessionInvariant, SessionInvariant', NEW s \in Session, OnlyMoves(s), Mark(s),
         phase'[s] \in {"ready", "special"},
         UNCHANGED <<connection, ending, native, disk>>
  PROVE  Abstract!Mark(s)
  <1> DEFINE ts == stack[s]
             us == [ts EXCEPT ![Len(ts)].marked = TRUE]
  <1>1. phase[s] = "ready" /\ ts # <<>> /\ ts \in Seq(StackEntry)
    BY SessionFacts DEF Mark, Unmarked, HasTransaction
  <1>2. stack'[s] = us
    BY DEF Mark, SessionInvariant, TypeOK
  <1>3. /\ us # <<>> /\ Len(us) = Len(ts) /\ us[Len(ts)] = [ts[Len(ts)] EXCEPT !.marked = TRUE]
        /\ \A i \in 1..Len(ts) - 1 : us[i] = ts[i]
    BY <1>1, MarkedStack
  <1>4. Len(ts) \in Nat \ {0} /\ ts[Len(ts)] \in StackEntry
    BY <1>1, EmptyStack
  <1>5. us[Len(ts)].marked /\ us[Len(ts)].childFailed = ts[Len(ts)].childFailed
    BY <1>3, <1>4 DEF StackEntry
  <1> HIDE DEF us
  <1>6. {i \in 1..Len(us) : us[i].marked} = {i \in 1..Len(ts) : ts[i].marked} \cup {Len(ts)}
    <2>1. ASSUME NEW i \in 1..Len(ts) PROVE us[i].marked <=> (ts[i].marked \/ i = Len(ts))
      <3>1. CASE i = Len(ts)
        BY <1>5, <3>1
      <3>2. CASE i # Len(ts)
        <4>1. us[i] = ts[i]
          BY <1>3, <1>4, <3>2
        <4> QED  BY <3>2, <4>1
      <3> QED  BY <3>1, <3>2
    <2> QED  BY <1>3, <1>4, <2>1
  <1>7. (\E i \in 1..Len(us) : us[i].childFailed) <=> \E i \in 1..Len(ts) : ts[i].childFailed
    <2>1. ASSUME NEW i \in 1..Len(ts) PROVE us[i].childFailed = ts[i].childFailed
      <3>1. CASE i = Len(ts)
        BY <1>5, <3>1
      <3>2. CASE i # Len(ts)
        <4>1. us[i] = ts[i]
          BY <1>3, <1>4, <3>2
        <4> QED  BY <4>1
      <3> QED  BY <3>1, <3>2
    <2> QED  BY <1>3, <2>1
  <1>8. SeenInside(s) /\ SeenInside(s)'
    BY <1>1, <1>2, <1>3, Seen, SeenNext DEF IsSeen
  <1>9. /\ Depth(s)' = Depth(s) /\ Work(s)' = Work(s) /\ Depth(s) = Len(ts)
        /\ MarkedLevels(s)' = MarkedLevels(s) \cup {Len(ts)}
        /\ IsDoomed(s)' <=> IsDoomed(s)
    BY <1>2, <1>3, <1>6, <1>7, <1>8 DEF SeenInside
  <1> QED  BY <1>4, <1>9, Viewed DEF Abstract!Mark

\* A nested transaction ends; unless it was successful the nest is doomed.
LEMMA NestedEnds ==
  ASSUME SessionInvariant, SessionInvariant', NEW s \in Session, OnlyMoves(s), NEW e \in Endings,
         HasNestedTransaction(s), Pop(s, e), ~ending[s].yielding,
         e.successful => Top(s).marked /\ ~Top(s).childFailed,
         UNCHANGED <<connection, native, disk>>
  PROVE  Abstract!EndNested(s)
  <1> DEFINE ts == stack[s]
             n == Len(ts)
             us == Popped(ts, e)
  <1>1. ts \in Seq(StackEntry) /\ n \in Nat /\ n > 1 /\ ts # <<>> /\ Top(s) = ts[n]
    BY SessionFacts, EmptyStack DEF HasNestedTransaction, Top
  <1>2. stack'[s] = us /\ phase'[s] = "ready" /\ ending'[s] = NotEnding
    BY DEF Pop, SessionInvariant, TypeOK
  <1>3. /\ us \in Seq(StackEntry) /\ Len(us) = n - 1
        /\ \A i \in 1..n - 1 : us[i] = IF i = n - 1 /\ ~e.successful THEN [ts[i] EXCEPT !.childFailed = TRUE] ELSE ts[i]
    BY <1>1, PoppedStack
  <1>4. \A i \in 1..n - 1 :
          /\ us[i].marked = ts[i].marked
          /\ us[i].childFailed <=> ts[i].childFailed \/ (i = n - 1 /\ ~e.successful)
    <2>1. \A i \in 1..n - 1 : ts[i] \in StackEntry
      BY <1>1, EmptyStack
    <2>2. ASSUME NEW i \in 1..n - 1, i = n - 1, ~e.successful
          PROVE  us[i].marked = ts[i].marked /\ us[i].childFailed
      <3>1. us[i] = [ts[i] EXCEPT !.childFailed = TRUE]
        BY <1>3, <2>2
      <3> QED  BY <2>1, <3>1 DEF StackEntry
    <2>3. ASSUME NEW i \in 1..n - 1, ~(i = n - 1 /\ ~e.successful)
          PROVE  us[i] = ts[i]
      BY <1>3, <2>3
    <2> HIDE DEF us
    <2> QED  BY <2>2, <2>3
  <1> HIDE DEF us
  <1>5. us # <<>>
    BY <1>1, <1>3, EmptyStack
  <1>6. SeenInside(s) /\ SeenInside(s)' /\ ~ending'[s].yielding
    BY <1>1, <1>2, <1>5, Seen, SeenNext DEF IsSeen, NotEnding
  <1>7. {i \in 1..Len(us) : us[i].marked} = {i \in 1..n : ts[i].marked} \ {n}
    BY <1>1, <1>3, <1>4
  <1>8. /\ Depth(s) = n /\ Depth(s)' = n - 1 /\ Work(s)' = Work(s)
        /\ MarkedLevels(s)' = MarkedLevels(s) \ {n}
    BY <1>2, <1>3, <1>6, <1>7 DEF SeenInside
  <1>9. CASE e.successful
    <2>1. IsDoomed(s)' <=> IsDoomed(s)
      <3>1. (\E i \in 1..Len(us) : us[i].childFailed) <=> \E i \in 1..n : ts[i].childFailed
        BY <1>1, <1>3, <1>4, <1>9
      <3> QED  BY <1>2, <1>6, <3>1 DEF SeenInside
    <2>2. n \in MarkedLevels(s)
      BY <1>1, <1>6, <1>9 DEF SeenInside
    <2> QED  BY <1>1, <1>6, <1>8, <2>1, <2>2, Viewed DEF Abstract!EndNested
  <1>10. CASE ~e.successful
    <2>1. IsDoomed(s)'
      <3>1. n - 1 \in 1..Len(us) /\ us[n - 1].childFailed
        BY <1>1, <1>3, <1>4, <1>10
      <3> QED  BY <1>2, <1>6, <3>1 DEF SeenInside
    <2> QED  BY <1>1, <1>6, <1>8, <2>1, Viewed DEF Abstract!EndNested
  <1> QED  BY <1>9, <1>10

\* The outermost transaction leaves the stack for COMMIT or ROLLBACK.
LEMMA OutermostEnds ==
  ASSUME SessionInvariant, SessionInvariant', NEW s \in Session, OnlyMoves(s), NEW e \in Endings,
         HasTransaction(s), ~HasNestedTransaction(s), Pop(s, e),
         e.successful => Successful(Top(s), e.yielding),
         e.yielding => MayYield(s),
         e.yielding <=> ending[s].yielding \/ (e.successful /\ e.yielding),
         UNCHANGED <<connection, native, disk>>
  PROVE  Abstract!Doom(s) \/ Abstract!GiveWay(s) \/ UNCHANGED Abstract!vars
  <1> DEFINE t == stack[s][1]
  <1>1. Len(stack[s]) = 1 /\ stack[s] # <<>> /\ Top(s) = t /\ t \in StackEntry
    <2>1. stack[s] \in Seq(StackEntry) /\ stack[s] # <<>>
      BY SessionFacts DEF HasTransaction
    <2>2. Len(stack[s]) = 1
      <3>1. Len(stack[s]) \in Nat /\ Len(stack[s]) # 0
        BY <2>1, EmptyStack
      <3>2. ~(Len(stack[s]) > 1)
        BY DEF HasNestedTransaction
      <3>3. \A n \in Nat : n # 0 /\ ~(n > 1) => n = 1
        OBVIOUS
      <3> QED  BY <3>1, <3>2, <3>3, Zenon
    <2> QED  BY <2>1, <2>2, EmptyStack DEF Top
  <1>2. phase'[s] = "finish" /\ ending'[s] = e
    BY DEF Pop, SessionInvariant, TypeOK
  <1>3. SeenInside(s) /\ SeenFinishing(s)'
    BY <1>1, <1>2, Seen, SeenNext DEF IsSeen
  <1>4. /\ Depth(s) = 1 /\ Depth(s)' = 1 /\ Work(s)' = Work(s)
        /\ MarkedLevels(s) = IF t.marked THEN {1} ELSE {}
        /\ IsDoomed(s) <=> t.childFailed
        /\ MarkedLevels(s)' = IF e.successful /\ ~e.yielding THEN {1} ELSE {}
        /\ IsDoomed(s)' <=> ~e.successful
    <2>1. MarkedLevels(s) = IF t.marked THEN {1} ELSE {}
      BY <1>1, <1>3 DEF SeenInside
    <2>2. IsDoomed(s) <=> t.childFailed
      BY <1>1, <1>3 DEF SeenInside
    <2> QED  BY <1>1, <1>2, <1>3, <2>1, <2>2 DEF SeenInside, SeenFinishing
  <1>5. CASE ~e.successful
    <2>1. ending'[s].yielding <=> ending[s].yielding
      BY <1>2, <1>5
    <2>2. MarkedLevels(s)' \in SUBSET Marks[s]
      BY <1>4, <1>5, Viewed
    <2> QED  BY <1>4, <1>5, <2>1, <2>2, Viewed, SMTT(30) DEF Abstract!Doom
  <1>6. CASE e.successful /\ ~e.yielding
    <2>1. t.marked /\ ~t.childFailed /\ ~ending[s].yielding
      BY <1>1, <1>6 DEF Successful
    <2> QED  BY <1>2, <1>4, <1>6, <2>1, Viewed DEF Abstract!vars
  <1>7. CASE e.successful /\ e.yielding
    <2>1. ~t.marked /\ ~t.childFailed
      BY <1>1, <1>7 DEF MayYield, Unmarked
    <2>2. UNCHANGED <<disk, Depths, Marks, Doomed, Works>>
      BY <1>4, <1>7, <2>1, Viewed
    <2>3. CASE ending[s].yielding
      BY <1>2, <1>7, <2>2, <2>3, Viewed DEF Abstract!vars
    <2>4. CASE ~ending[s].yielding
      <3>1. GivingWay' = GivingWay \cup {s} /\ Depths[s] = 1 /\ 1 \notin Marks[s]
        BY <1>2, <1>4, <1>7, <2>1, Viewed
      <3> QED  BY <2>2, <3>1 DEF Abstract!GiveWay
    <2> QED  BY <2>3, <2>4
  <1> QED  BY <1>5, <1>6, <1>7

\* endTransaction, and the end that a yield begins with.
LEMMA EndUncheckedRefines ==
  ASSUME SessionInvariant, SessionInvariant', NEW s \in Session, OnlyMoves(s), NEW yielding \in BOOLEAN,
         phase[s] \in {"ready", "special"}, HasTransaction(s), EndUnchecked(s, Top(s), yielding),
         yielding => MayYield(s)
  PROVE  \/ Abstract!EndNested(s) \/ Abstract!Doom(s) \/ Abstract!GiveWay(s)
         \/ UNCHANGED Abstract!vars
  <1> DEFINE e == [NotEnding EXCEPT !.successful = Successful(Top(s), yielding), !.yielding = yielding]
  <1>1. UNCHANGED <<connection, native, disk>> /\ stack[s] # <<>> /\ Top(s) \in StackEntry
    BY SessionFacts, EmptyStack DEF EndUnchecked, HasTransaction, Top, nativeVars
  <1>2. ~ending[s].yielding
    BY SessionFacts DEF Local, NotEnding
  <1>3. e \in Endings /\ e.yielding = yielding /\ e.successful = Successful(Top(s), yielding)
    BY <1>1 DEF Endings, NotEnding, Successful, StackEntry
  <1>4. yielding => Successful(Top(s), yielding) /\ ~Top(s).marked /\ ~HasNestedTransaction(s)
    BY DEF MayYield, Unmarked, Successful
  <1>5. CASE Top(s).listener
    <2>1. phase'[s] = "onEnd" /\ ending'[s] = e /\ stack'[s] = stack[s]
      BY <1>5 DEF EndUnchecked, SessionInvariant, TypeOK
    <2>2. SeenInside(s) /\ SeenInside(s)'
      BY <1>1, <2>1, Seen, SeenNext DEF IsSeen
    <2>3. /\ Depth(s)' = Depth(s) /\ MarkedLevels(s)' = MarkedLevels(s) /\ Work(s)' = Work(s)
          /\ IsDoomed(s)' <=> IsDoomed(s)
          /\ ending'[s].yielding <=> yielding
      BY <1>1, <1>3, <2>1, <2>2 DEF SeenInside
    <2>4. UNCHANGED <<disk, Depths, Marks, Doomed, Works>>
      BY <1>1, <2>3, Viewed
    <2>5. CASE ~yielding
      BY <1>2, <2>3, <2>4, <2>5, Viewed DEF Abstract!vars
    <2>6. CASE yielding
      <3>1. Len(stack[s]) = 1 /\ Top(s) = stack[s][1]
        <4>1. Len(stack[s]) \in Nat /\ Len(stack[s]) # 0 /\ ~(Len(stack[s]) > 1)
          BY <1>1, <1>4, <2>6, SessionFacts, EmptyStack DEF HasNestedTransaction
        <4>2. \A n \in Nat : n # 0 /\ ~(n > 1) => n = 1
          OBVIOUS
        <4>3. Len(stack[s]) = 1
          BY <4>1, <4>2, Zenon
        <4> QED  BY <4>3, <1>1, SessionFacts, EmptyStack DEF Top
      <3>2. Depth(s) = 1 /\ 1 \notin MarkedLevels(s)
        BY <1>4, <2>2, <2>6, <3>1 DEF SeenInside
      <3>3. GivingWay' = GivingWay \cup {s} /\ Depths[s] = 1 /\ 1 \notin Marks[s]
        BY <2>3, <2>6, <3>2, Viewed
      <3> QED  BY <2>4, <3>3 DEF Abstract!GiveWay
    <2> QED  BY <2>5, <2>6
  <1>6. CASE ~Top(s).listener
    <2>1. Pop(s, e)
      BY <1>6 DEF EndUnchecked
    <2>2. CASE HasNestedTransaction(s)
      <3>1. ~yielding
        BY <1>4, <2>2
      <3>2. e.successful => Top(s).marked /\ ~Top(s).childFailed
        BY <1>3, <3>1 DEF Successful
      <3> HIDE DEF e
      <3> QED  BY <1>1, <1>2, <1>3, <2>1, <2>2, <3>2, NestedEnds
    <2>3. CASE ~HasNestedTransaction(s)
      <3>1. e.yielding <=> ending[s].yielding \/ (e.successful /\ e.yielding)
        BY <1>2, <1>3, <1>4
      <3>2. e.successful => Successful(Top(s), e.yielding)
        BY <1>3
      <3>3. e.yielding => MayYield(s)
        BY <1>3
      <3> HIDE DEF e
      <3> QED  BY <1>1, <1>3, <2>1, <2>3, <3>1, <3>2, <3>3, OutermostEnds
    <2> QED  BY <2>2, <2>3
  <1> QED  BY <1>5, <1>6

\* The pop after a listener ends an inner level; the outermost waits for COMMIT or
\* ROLLBACK.
LEMMA OnEndRefines ==
  ASSUME SessionInvariant, SessionInvariant', NEW s \in Session, OnlyMoves(s), OnEnd(s) \/ OnEndThrows(s)
  PROVE  \/ Abstract!EndNested(s) \/ Abstract!Doom(s) \/ Abstract!GiveWay(s)
         \/ UNCHANGED Abstract!vars
  <1>1. phase[s] = "onEnd" /\ UNCHANGED <<connection, native, disk>>
    BY DEF OnEnd, OnEndThrows, nativeVars
  <1>2. /\ HasTransaction(s) /\ ending[s] \in Endings
        /\ ending[s].successful = Successful(Top(s), ending[s].yielding)
        /\ ending[s].yielding => MayYield(s)
    BY <1>1, SessionFacts DEF Local, HasTransaction
  <1>3. PICK e \in Endings : /\ Pop(s, e)
                             /\ e.yielding = ending[s].yielding
                             /\ e.successful => ending[s].successful
    <2> DEFINE f == [ending[s] EXCEPT !.successful = FALSE, !.thrown = TRUE]
    <2>1. f \in Endings /\ f.yielding = ending[s].yielding /\ ~f.successful
      BY <1>2 DEF Endings
    <2> QED  BY <1>2, <2>1 DEF OnEnd, OnEndThrows
  <1>4. e.successful => Successful(Top(s), e.yielding)
    BY <1>2, <1>3
  <1>5. CASE HasNestedTransaction(s)
    <2>1. ~ending[s].yielding
      BY <1>2, <1>5 DEF MayYield
    <2>2. e.successful => Top(s).marked /\ ~Top(s).childFailed
      BY <1>3, <1>4, <2>1 DEF Successful
    <2> QED  BY <1>1, <1>3, <1>5, <2>1, <2>2, NestedEnds
  <1>6. CASE ~HasNestedTransaction(s)
    <2>1. e.yielding => MayYield(s)
      BY <1>2, <1>3
    <2>2. e.yielding <=> ending[s].yielding \/ (e.successful /\ e.yielding)
      BY <1>3
    <2> QED  BY <1>1, <1>2, <1>3, <1>4, <1>6, <2>1, <2>2, OutermostEnds
  <1> QED  BY <1>5, <1>6

-----------------------------------------------------------------------------
(* Writing.                                                                *)

\* A statement adds to the work of the transaction, or commits by itself.
LEMMA StatementEndsRefines ==
  ASSUME SessionInvariant, SessionInvariant', NEW s \in Session, OnlyMoves(s), NEW w \in SUBSET Data,
         StatementEnds(s, w)
  PROVE  /\ w = {} => UNCHANGED Abstract!vars
         /\ \A d \in Data :
              w = {d} => Abstract!Write(s, d) \/ Abstract!WriteAlone(s, d) \/ UNCHANGED Abstract!vars
  <1> DEFINE c == connection[s]
             n == Written(c, w)
  <1>1. /\ phase[s] = "ready" /\ running[s] > 0 /\ Release(s, n)
        /\ disk' = DiskWith(c, w) /\ UNCHANGED <<stack, phase, ending>>
    BY DEF StatementEnds
  <1>2. c \in Conn /\ native[c] \in Natives /\ disk \subseteq Data
    BY <1>1, SessionFacts DEF SessionInvariant, TypeOK
  <1>3. n \in Natives
    BY <1>2, WrittenTyped
  <1>4. connection'[s] # None => connection'[s] = c /\ native'[c] = n
    <2> HIDE DEF n
    <2> QED  BY <1>1, <1>3, Releasing
  <1>5. CASE stack[s] = <<>>
    <2>1. SeenOutside(s) /\ SeenOutside(s)'
      BY <1>1, <1>5, Seen, SeenNext DEF IsSeen
    <2>2. UNCHANGED <<Depths, Marks, Doomed, GivingWay, Works>> /\ Depths[s] = 0
      BY <2>1, Viewed DEF SeenOutside
    <2>3. disk' = disk \/ disk' = disk \cup w
      BY <1>1 DEF DiskWith
    <2> QED  BY <2>2, <2>3 DEF Abstract!WriteAlone, Abstract!vars
  <1>6. CASE stack[s] # <<>>
    <2>1. SeenInside(s) /\ SeenInside(s)'
      BY <1>1, <1>6, Seen, SeenNext DEF IsSeen
    <2>2. native[c].open /\ UsesForTransaction(s)
      BY <1>1, <1>6, SessionFacts DEF Local, UsesForTransaction, HasTransaction
    <2>3. n.writes = native[c].writes \cup w
      BY <1>2, <2>2 DEF Written, Natives
    <2>4. connection'[s] # None
      <3>1. UsesForTransaction(s)'
        BY <1>1, <1>6 DEF UsesForTransaction, HasTransaction
      <3>2. ConnectionWhileNeeded' /\ TypeOK'
        BY DEF SessionInvariant
      <3> QED  BY <3>1, <3>2 DEF ConnectionWhileNeeded, TypeOK
    <2>5. Work(s)' = Work(s) \cup w
      BY <1>4, <2>1, <2>3, <2>4 DEF SeenInside
    <2>6. UNCHANGED <<Depths, Marks, Doomed, GivingWay>> /\ Depths[s] > 0
      <3>1. /\ Depth(s)' = Depth(s) /\ MarkedLevels(s)' = MarkedLevels(s)
            /\ IsDoomed(s)' <=> IsDoomed(s)
            /\ Depth(s) > 0
        BY <1>1, <2>1 DEF SeenInside
      <3> QED  BY <1>1, <3>1, Viewed
    <2>7. Works' = [Works EXCEPT ![s] = @ \cup w] /\ Works[s] = Work(s)
      BY <2>5, Viewed
    <2>8. disk' = disk
      BY <1>1, <2>2 DEF DiskWith
    <2>9. ASSUME w = {} PROVE UNCHANGED Abstract!vars
      <3>1. Works' = Works
        BY <2>5, <2>9, Viewed
      <3> QED  BY <2>6, <2>8, <3>1 DEF Abstract!vars
    <2>10. ASSUME NEW d \in Data, w = {d} PROVE Abstract!Write(s, d)
      BY <2>6, <2>7, <2>8, <2>10 DEF Abstract!Write
    <2> QED  BY <2>9, <2>10
  <1> QED  BY <1>5, <1>6

\* So does one of a listener.
LEMMA ListenerWritesRefines ==
  ASSUME SessionInvariant, SessionInvariant', NEW s \in Session, OnlyMoves(s), NEW d \in Data,
         ListenerWrites(s, {d})
  PROVE  Abstract!Write(s, d)
  <1> DEFINE c == connection[s]
             n == Written(c, {d})
  <1>1. /\ phase[s] \in {"onBegin", "onEnd"} /\ native' = [native EXCEPT ![c] = n]
        /\ disk' = DiskWith(c, {d}) /\ UNCHANGED <<connection, stack, phase, ending>>
    BY DEF ListenerWrites, fieldVars, localVars
  <1>2. /\ UsesForTransaction(s) /\ c \in Conn /\ native[c].open
        /\ native[c] \in Natives
    BY <1>1, SessionFacts DEF Local, UsesForTransaction, HasTransaction
  <1>3. n.writes = native[c].writes \cup {d} /\ native'[c] = n /\ disk' = disk
    BY <1>1, <1>2 DEF Written, Natives, DiskWith, SessionInvariant, TypeOK
  <1>4. /\ Depth(s)' = Depth(s) /\ Depth(s) > 0 /\ Work(s) = native[c].writes
        /\ IsDoomed(s)' <=> IsDoomed(s)
        /\ MarkedLevels(s)' = MarkedLevels(s)
    <2>1. Opening(s)' <=> Opening(s)
      BY <1>1 DEF Opening, HasTransaction
    <2>2. Depth(s)' = Depth(s) /\ MarkedLevels(s)' = MarkedLevels(s)
      BY <1>1, <2>1 DEF Depth, MarkedLevels
    <2>3. IsDoomed(s)' <=> IsDoomed(s)
      BY <1>1 DEF IsDoomed
    <2>4. SeenOpening(s) \/ SeenInside(s)
      BY <1>1, Seen, SessionFacts DEF IsSeen, Opening, HasTransaction, Local
    <2> QED  BY <2>2, <2>3, <2>4 DEF SeenOpening, SeenInside
  <1>5. Work(s)' = Work(s) \cup {d}
    BY <1>1, <1>3, <1>4 DEF Work
  <1>6. UNCHANGED <<Depths, Marks, Doomed, GivingWay>> /\ Depths[s] > 0
    BY <1>1, <1>4, Viewed
  <1>7. Works' = [Works EXCEPT ![s] = @ \cup {d}]
    BY <1>5, Viewed
  <1> QED  BY <1>3, <1>6, <1>7 DEF Abstract!Write

-----------------------------------------------------------------------------
(* Steps that NestedTransaction does not see.                              *)

\* A session with no transaction acquires a connection, or fails to.
LEMMA OutsideStutters ==
  ASSUME SessionInvariant, SessionInvariant', NEW s \in Session, OnlyMoves(s), disk' = disk,
         phase[s] \in {"ready", "waiting", "begin", "sleep"}, stack[s] = <<>>,
         phase'[s] \in {"ready", "waiting", "begin", "sleep"}, stack'[s] = <<>>
  PROVE  UNCHANGED Abstract!vars
  <1>1. SeenOutside(s) /\ SeenOutside(s)'
    BY Seen, SeenNext DEF IsSeen
  <1> QED  BY <1>1, Viewed DEF SeenOutside, Abstract!vars

\* A connection gained is not seen.
LEMMA AcquireRefines ==
  ASSUME SessionInvariant, SessionInvariant', NEW s \in Session, OnlyMoves(s),
         Acquire(s) \/ AcquireThrows(s)
  PROVE  UNCHANGED Abstract!vars
  <1>1. phase[s] = "waiting" /\ stack' = stack /\ disk' = disk
    BY DEF Acquire, AcquireThrows, fieldVars, nativeVars
  <1>2. stack[s] = <<>>
    BY <1>1, SessionFacts DEF Local
  <1>3. phase'[s] \in {"ready", "begin"}
    BY DEF Acquire, AcquireThrows, SessionInvariant, TypeOK
  <1> QED  BY <1>1, <1>2, <1>3, OutsideStutters

\* Nor is the way there.
LEMMA AcquiringRefines ==
  ASSUME SessionInvariant, SessionInvariant', NEW s \in Session, OnlyMoves(s),
         \/ \E r \in Begins : BeginOutermost(s, r)
         \/ Resume(s)
         \/ \E p \in BOOLEAN : StatementBegins(s, p)
  PROVE  UNCHANGED Abstract!vars
  <1>1. /\ phase[s] \in {"ready", "sleep"} /\ stack' = stack /\ ending' = ending
        /\ native' = native /\ disk' = disk
        /\ \/ phase' = [phase EXCEPT ![s] = "waiting"] /\ connection' = connection /\ connection[s] = None
           \/ phase' = [phase EXCEPT ![s] = "begin"] /\ connection' = connection /\ stack[s] = <<>>
           \/ phase' = [phase EXCEPT ![s] = "ready"] /\ connection' = connection /\ phase[s] = "ready"
    <2>1. CASE \E r \in Begins : BeginOutermost(s, r)
      BY <2>1 DEF BeginOutermost, AcquireFor, NeedsConnection, HasTransaction, fieldVars, nativeVars
    <2>2. CASE Resume(s)
      BY <2>2, SessionFacts DEF Resume, AcquireFor, NeedsConnection, Local, fieldVars, nativeVars
    <2>3. CASE \E p \in BOOLEAN : StatementBegins(s, p)
      BY <2>3 DEF StatementBegins, AcquireFor, NeedsConnection, fieldVars, nativeVars
    <2> QED  BY <2>1, <2>2, <2>3
  <1>2. CASE stack[s] = <<>>
    <2>1. phase'[s] \in {"ready", "waiting", "begin"}
      BY <1>1 DEF SessionInvariant, TypeOK
    <2> QED  BY <1>1, <1>2, <2>1, OutsideStutters
  <1>3. CASE stack[s] # <<>>
    <2>1. connection[s] # None
      BY <1>3, SessionFacts DEF UsesForTransaction, HasTransaction
    <2>2. phase'[s] = "ready" /\ phase[s] = "ready" /\ connection' = connection
      BY <1>1, <1>3, <2>1 DEF SessionInvariant, TypeOK
    <2>3. SeenInside(s) /\ SeenInside(s)'
      BY <1>1, <1>3, Seen, SeenNext DEF IsSeen
    <2>4. /\ Depth(s)' = Depth(s) /\ MarkedLevels(s)' = MarkedLevels(s) /\ Work(s)' = Work(s)
          /\ IsDoomed(s)' <=> IsDoomed(s)
      BY <1>1, <2>2, <2>3 DEF SeenInside
    <2> QED  BY <1>1, <2>4, Viewed DEF Abstract!vars
  <1> QED  BY <1>2, <1>3

\* A BEGIN that throws has opened nothing.
LEMMA ExecuteBeginThrowsRefines ==
  ASSUME SessionInvariant, SessionInvariant', NEW s \in Session, OnlyMoves(s), ExecuteBeginThrows(s)
  PROVE  UNCHANGED Abstract!vars
  <1>1. phase[s] = "begin" /\ phase' = [phase EXCEPT ![s] = "ready"] /\ stack' = stack /\ disk' = disk
    BY DEF ExecuteBeginThrows
  <1>2. stack[s] = <<>> /\ phase'[s] = "ready"
    BY <1>1, SessionFacts DEF Local, SessionInvariant, TypeOK
  <1> QED  BY <1>1, <1>2, OutsideStutters

\* An onBegin that throws adds no level.
LEMMA OnBeginThrowsRefines ==
  ASSUME SessionInvariant, SessionInvariant', NEW s \in Session, OnlyMoves(s), OnBeginThrows(s)
  PROVE  UNCHANGED Abstract!vars
  <1>1. /\ phase[s] = "onBegin" /\ connection' = connection /\ stack' = stack /\ ending' = ending
        /\ native' = native /\ disk' = disk
        /\ phase' = [phase EXCEPT ![s] = IF HasTransaction(s) THEN "ready" ELSE "unbegin"]
    BY DEF OnBeginThrows, fieldVars, nativeVars
  <1>2. phase'[s] = IF HasTransaction(s) THEN "ready" ELSE "unbegin"
    BY <1>1 DEF SessionInvariant, TypeOK
  <1>3. Opening(s)' <=> Opening(s)
    BY <1>1, <1>2 DEF Opening, HasTransaction
  <1>4. Depth(s)' = Depth(s)
    BY <1>1, <1>2, <1>3 DEF Depth
  <1>5. Depth(s) > 0 => Work(s)' = native[connection[s]].writes
    BY <1>1, <1>4 DEF Work
  <1> QED  BY <1>1, <1>2, <1>3, <1>5, Stutters

\* Closing the pool ends no transaction.
LEMMA ClosePoolRefines ==
  ASSUME SessionInvariant, ClosePool
  PROVE  UNCHANGED Abstract!vars
  <1>1. /\ UNCHANGED <<connection, stack, phase, ending, disk>>
        /\ native' = [c \in Conn |-> IF c \in idle THEN NoTransaction ELSE native[c]]
    BY DEF ClosePool, fieldVars, localVars
  <1>2. \A s \in Session : Depth(s)' = Depth(s) /\ MarkedLevels(s)' = MarkedLevels(s)
    BY <1>1, Zenon DEF Depth, Opening, HasTransaction, MarkedLevels
  <1>3. \A s \in Session : IsDoomed(s)' <=> IsDoomed(s)
    BY <1>1, Zenon DEF IsDoomed
  <1>4. ASSUME NEW s \in Session PROVE Work(s)' = Work(s)
    <2>1. Depth(s) > 0 => connection[s] # None
      <3>1. stack[s] \in Seq(StackEntry)
        BY SessionFacts
      <3>2. Depth(s) > 0 => UsesForTransaction(s)
        BY <3>1, EmptyStack DEF Depth, Opening, UsesForTransaction, HasTransaction
      <3> QED  BY <3>2, SessionFacts
    <2>2. connection[s] # None => connection[s] \in Conn \ idle
      BY SessionFacts DEF SessionInvariant, ConnectionsApart
    <2> QED  BY <1>1, <1>2, <2>1, <2>2 DEF Work
  <1>5. Depths' = Depths /\ Marks' = Marks /\ Works' = Works
    BY <1>2, <1>4 DEF Depths, Marks, Works
  <1>6. Doomed' = Doomed /\ GivingWay' = GivingWay
    BY <1>1, <1>3 DEF Doomed, GivingWay
  <1> QED  BY <1>1, <1>5, <1>6 DEF Abstract!vars

-----------------------------------------------------------------------------
(* The refinement.                                                         *)

\* At first there are no transactions.
LEMMA InitRefines ==
  ASSUME Init
  PROVE  Abstract!Init
  <1>1. \A s \in Session : phase[s] = "ready" /\ stack[s] = <<>>
    BY DEF Init
  <1>2. \A s \in Session : SeenOutside(s)
    BY <1>1, InvariantInitially, Seen DEF IsSeen
  <1> QED
    BY <1>2 DEF Abstract!Init, SeenOutside, Depths, Marks, Works, Doomed, GivingWay, Init

\* Each step of a call under way is one of NestedTransaction or a stutter.
LEMMA CallGoesOnRefines ==
  ASSUME SessionInvariant, SessionInvariant', NEW s \in Session, CallGoesOn(s)
  PROVE  Abstract!Next \/ UNCHANGED Abstract!vars
  <1>1. CASE AcquireRefused(s)
    BY <1>1, AcquireThrowsKeeps, AcquireRefines DEF AcquireRefused
  <1>2. CASE ExecuteBegin(s)
    BY <1>2, ExecuteBeginKeeps, ExecuteBeginRefines DEF Abstract!Next
  <1>3. CASE ExecuteBeginThrows(s)
    BY <1>3, ExecuteBeginThrowsKeeps, ExecuteBeginThrowsRefines
  <1>4. CASE OnBegin(s)
    BY <1>4, OnBeginKeeps, OnBeginRefines DEF Abstract!Next
  <1>5. CASE OnBeginThrows(s)
    BY <1>5, OnBeginThrowsKeeps, OnBeginThrowsRefines
  <1>6. CASE Unbegin(s)
    BY <1>6, UnbeginKeeps, UnbeginRefines DEF Abstract!Next
  <1>7. CASE OnEnd(s) \/ OnEndThrows(s)
    BY <1>7, OnEndKeeps, OnEndRefines DEF Abstract!Next
  <1>8. CASE Commit(s)
    BY <1>8, CommitOrRollbackKeeps, CommitRefines DEF Abstract!Next
  <1>9. CASE CommitThrows(s) \/ Rollback(s)
    BY <1>9, CommitOrRollbackKeeps, RollbackRefines DEF Abstract!Next
  <1>10. CASE Resume(s)
    BY <1>10, ResumeKeeps, AcquiringRefines
  <1>11. CASE EndTransaction(s)
    BY <1>11, EndTransactionKeeps, EndUncheckedRefines DEF EndTransaction, Abstract!Next
  <1> QED
    BY <1>1, <1>2, <1>3, <1>4, <1>5, <1>6, <1>7, <1>8, <1>9, <1>10, <1>11, Zenon DEF CallGoesOn

\* So is the beginning of each call.
LEMMA CallRefines ==
  ASSUME SessionInvariant, SessionInvariant', NEW s \in Session, Call(s)
  PROVE  Abstract!Next \/ UNCHANGED Abstract!vars
  <1>1. ASSUME NEW r \in Begins, BeginOutermost(s, r)
        PROVE  Abstract!Next \/ UNCHANGED Abstract!vars
    BY <1>1, BeginOutermostKeeps, AcquiringRefines
  <1>2. ASSUME NEW r \in Begins, BeginNested(s, r)
        PROVE  Abstract!Next \/ UNCHANGED Abstract!vars
    BY <1>2, BeginNestedKeeps, BeginNestedRefines DEF Abstract!Next
  <1>3. CASE SetTransactionSuccessful(s)
    <2>1. /\ Mark(s) /\ phase[s] = "ready" /\ phase' = phase
          /\ UNCHANGED <<connection, useCount, flags, call, ending, running, poolVars, nativeVars>>
      BY <1>3 DEF SetTransactionSuccessful, Mark, localVars
    <2>2. phase' = [phase EXCEPT ![s] = "ready"]
      BY <2>1 DEF SessionInvariant, TypeOK
    <2> QED  BY <2>1, <2>2, MarkingKeeps, MarkRefines DEF nativeVars, Abstract!Next
  <1>4. CASE ExecuteSpecialCommit(s)
    <2>1. /\ Mark(s) /\ phase' = [phase EXCEPT ![s] = "special"]
          /\ UNCHANGED <<connection, useCount, flags, call, ending, running, poolVars, nativeVars>>
      BY <1>4 DEF ExecuteSpecialCommit
    <2>2. phase'[s] = "special"
      BY <2>1 DEF SessionInvariant, TypeOK
    <2> QED  BY <2>1, <2>2, MarkingKeeps, MarkRefines DEF nativeVars, Abstract!Next
  <1>5. CASE EndTransaction(s)
    BY <1>5, EndTransactionKeeps, EndUncheckedRefines DEF EndTransaction, Abstract!Next
  <1>6. CASE YieldTransaction(s)
    BY <1>6, YieldTransactionKeeps, EndUncheckedRefines
       DEF YieldTransaction, MayYield, Unmarked, Abstract!Next
  <1>7. ASSUME NEW p \in BOOLEAN, StatementBegins(s, p)
        PROVE  Abstract!Next \/ UNCHANGED Abstract!vars
    BY <1>7, StatementBeginsKeeps, AcquiringRefines
  <1>8. ASSUME NEW d \in Data, StatementEnds(s, {d})
        PROVE  Abstract!Next \/ UNCHANGED Abstract!vars
    BY <1>8, StatementEndsKeeps, StatementEndsRefines DEF Abstract!Next
  <1>9. ASSUME NEW d \in Data, ListenerWrites(s, {d})
        PROVE  Abstract!Next \/ UNCHANGED Abstract!vars
    BY <1>9, ListenerWritesKeeps, ListenerWritesRefines DEF Abstract!Next
  <1>10. CASE StatementEnds(s, {})
    BY <1>10, StatementEndsKeeps, StatementEndsRefines
  <1> QED
    BY <1>1, <1>2, <1>3, <1>4, <1>5, <1>6, <1>7, <1>8, <1>9, <1>10, Zenon DEF Call

\* Every step is one of NestedTransaction or a stutter.
LEMMA NextRefines ==
  ASSUME SessionInvariant, SessionInvariant', [Next]_vars
  PROVE  [Abstract!Next]_Abstract!vars
  <1>1. CASE ClosePool
    BY <1>1, ClosePoolRefines
  <1>2. ASSUME NEW s \in Session, Acquire(s) \/ AcquireCanceled(s)
        PROVE  Abstract!Next \/ UNCHANGED Abstract!vars
    BY <1>2, AcquireKeeps, AcquireThrowsKeeps, AcquireRefines DEF AcquireCanceled
  <1>3. ASSUME NEW s \in Session, CallGoesOn(s) \/ Call(s)
        PROVE  Abstract!Next \/ UNCHANGED Abstract!vars
    BY <1>3, CallGoesOnRefines, CallRefines
  <1>4. CASE UNCHANGED vars
    BY <1>4 DEF vars, fieldVars, localVars, nativeVars, Abstract!vars, Depths, Marks, Doomed,
       GivingWay, Works, Depth, MarkedLevels, IsDoomed, Work, Opening, HasTransaction
  <1> QED  BY <1>1, <1>2, <1>3, <1>4 DEF Next

\* Nested transactions are all or nothing: every behaviour of the sessions is
\* one that NestedTransaction allows, for any number of sessions and
\* connections, nests of any depth, and whatever fails.
THEOREM RefinesNestedTransaction == Spec => ImplementsNestedTransaction
  <1>1. Init => Abstract!Init
    BY InitRefines
  <1>2. SessionInvariant /\ SessionInvariant' /\ [Next]_vars => [Abstract!Next]_Abstract!vars
    BY NextRefines
  <1> QED
    BY <1>1, <1>2, SessionInvariantHolds, PTL DEF Spec, ImplementsNestedTransaction, Abstract!Spec
=============================================================================
