----------------------- MODULE SQLiteDatabaseProofs -----------------------
(***************************************************************************)
(* Proofs about SQLiteDatabase, for any number of threads: a pool is not   *)
(* closed under an operation, and the configurations agree.                *)
(***************************************************************************)
EXTENDS SQLiteDatabase, FiniteSetTheorems, TLAPS

Pcs == {"idle", "attach", "disableWal", "execute", "run", "leave", "isOpen", "getAttached", "list",
        "handlerClose", "dispose", "closePool"}
Ops == Referencing \cup {"statement", None}
Thens == {"idle", "leave", "handlerClose"}

\* References of an operation, and of a thread at a label.
OfOp(o) == IF o \in Referencing THEN 1 ELSE 0
OfPc(l) == IF l = "list" THEN 1 ELSE 0

\* A set that a thread joins, leaves, or stays in or out of.
LEMMA OneElement ==
  ASSUME NEW S, IsFiniteSet(S), NEW t, NEW b \in BOOLEAN
  PROVE  LET T == IF b THEN S \cup {t} ELSE S \ {t} IN
         /\ IsFiniteSet(T)
         /\ Cardinality(T) = Cardinality(S) + (IF b THEN 1 ELSE 0) - (IF t \in S THEN 1 ELSE 0)
  <1>1. Cardinality(S) \in Nat
    BY FS_CardinalityType
  <1>2. CASE b
    <2>1. IsFiniteSet(S \cup {t})
      BY FS_AddElement
    <2>2. Cardinality(S \cup {t}) = IF t \in S THEN Cardinality(S) ELSE Cardinality(S) + 1
      BY FS_AddElement
    <2> QED  BY <1>1, <1>2, <2>1, <2>2
  <1>3. CASE ~b
    <2>1. IsFiniteSet(S \ {t})
      BY FS_RemoveElement
    <2>2. Cardinality(S \ {t}) = IF t \in S THEN Cardinality(S) - 1 ELSE Cardinality(S)
      BY FS_RemoveElement
    <2> QED  BY <1>1, <1>3, <2>1, <2>2
  <1> QED  BY <1>2, <1>3

\* Both sets are finite.
LEMMA CountsAreNat ==
  /\ IsFiniteSet(Users) /\ IsFiniteSet(Listing)
  /\ Cardinality(Users) \in Nat /\ Cardinality(Listing) \in Nat
  <1>1. Users \subseteq Thread /\ Listing \subseteq Thread /\ IsFiniteSet(Thread)
    BY DatabaseAssumption DEF Users, Listing
  <1>2. IsFiniteSet(Users) /\ IsFiniteSet(Listing)
    BY <1>1, FS_Subset
  <1> QED  BY <1>2, FS_CardinalityType

\* What one thread does to the number of users and of listing handlers.
LEMMA CountsAfter ==
  ASSUME op \in [Thread -> Ops], pc \in [Thread -> Pcs],
         NEW t \in Thread, NEW o \in Ops, NEW l \in Pcs,
         op' = [op EXCEPT ![t] = o], pc' = [pc EXCEPT ![t] = l]
  PROVE  /\ Cardinality(Users') = Cardinality(Users) + OfOp(o) - OfOp(op[t])
         /\ Cardinality(Listing') = Cardinality(Listing) + OfPc(l) - OfPc(pc[t])
  <1> DEFINE b == o \in Referencing
             c == l = "list"
  <1>1. Users' = IF b THEN Users \cup {t} ELSE Users \ {t}
    BY DEF Users
  <1>2. Listing' = IF c THEN Listing \cup {t} ELSE Listing \ {t}
    BY DEF Listing
  <1>3. (t \in Users) = (op[t] \in Referencing) /\ (t \in Listing) = (pc[t] = "list")
    BY DEF Users, Listing
  <1>4. Cardinality(Users') = Cardinality(Users) + (IF b THEN 1 ELSE 0)
                                - (IF t \in Users THEN 1 ELSE 0)
    <2> HIDE DEF b
    <2>1. b \in BOOLEAN
      BY DEF b
    <2> QED  BY <1>1, <2>1, CountsAreNat, OneElement
  <1>5. Cardinality(Listing') = Cardinality(Listing) + (IF c THEN 1 ELSE 0)
                                  - (IF t \in Listing THEN 1 ELSE 0)
    <2> HIDE DEF c
    <2>1. c \in BOOLEAN
      BY DEF c
    <2> QED  BY <1>2, <2>1, CountsAreNat, OneElement
  <1> QED  BY <1>3, <1>4, <1>5 DEF OfOp, OfPc

\* A step of one thread keeps the invariant if it takes and gives back references
\* as it enters and leaves operations, and disposes only of what has none.
LEMMA ThreadStepKeeps ==
  ASSUME DatabaseInvariant, TypeOK', opening = "done", opening' = "done",
         NEW t \in Thread, NEW o \in Ops, NEW l \in Pcs,
         op' = [op EXCEPT ![t] = o], pc' = [pc EXCEPT ![t] = l],
         refs' + closes' = refs + closes + OfOp(o) - OfOp(op[t]) + OfPc(l) - OfPc(pc[t]),
         \A u \in Thread \ {t} : then'[u] = then[u],
         l = "idle" \/ (l \in {"dispose", "closePool"} /\ then'[t] = "idle") => o = None,
         refs' > 0 => /\ refs > 0 /\ l \notin {"dispose", "closePool"}
                      /\ poolRef' = poolRef /\ pool' = pool,
         config' = poolConfig'
  PROVE  DatabaseInvariant'
  <1>1. op \in [Thread -> Ops] /\ pc \in [Thread -> Pcs]
    BY DEF DatabaseInvariant, TypeOK, Ops, Pcs
  <1>2. /\ refs \in Int /\ refs' \in Int /\ closes \in Nat /\ closes' \in Nat
    BY DEF DatabaseInvariant, TypeOK
  <1>3. ReferencesCounted'
    <2>1. refs = 1 - closes + Cardinality(Users) + Cardinality(Listing)
      BY DEF DatabaseInvariant, ReferencesCounted
    <2>2. /\ Cardinality(Users') = Cardinality(Users) + OfOp(o) - OfOp(op[t])
          /\ Cardinality(Listing') = Cardinality(Listing) + OfPc(l) - OfPc(pc[t])
      BY <1>1, CountsAfter
    <2>3. OfOp(o) \in Int /\ OfOp(op[t]) \in Int /\ OfPc(l) \in Int /\ OfPc(pc[t]) \in Int
      BY DEF OfOp, OfPc
    <2>4. refs' = 1 - closes' + Cardinality(Users') + Cardinality(Listing')
      BY <1>2, <2>1, <2>2, <2>3, CountsAreNat
    <2> QED  BY <2>4 DEF ReferencesCounted
  <1>4. IdleHasNoOperation'
    <2> SUFFICES ASSUME NEW u \in Thread,
                        \/ pc'[u] = "idle"
                        \/ pc'[u] \in {"dispose", "closePool"} /\ then'[u] = "idle"
                 PROVE  op'[u] = None
      BY DEF IdleHasNoOperation
    <2>1. CASE u = t
      BY <1>1, <2>1
    <2>2. CASE u # t
      BY <1>1, <2>2 DEF DatabaseInvariant, IdleHasNoOperation
    <2> QED  BY <2>1, <2>2
  <1>5. Unopened'
    BY DEF Unopened
  <1>6. DisposedUnreferenced'
    <2> SUFFICES ASSUME refs' > 0
                 PROVE  /\ poolRef' /\ pool' = "open"
                        /\ \A u \in Thread : pc'[u] \notin {"dispose", "closePool"}
      BY DEF DisposedUnreferenced
    <2>1. poolRef /\ pool = "open" /\ \A u \in Thread : pc[u] \notin {"dispose", "closePool"}
      BY DEF DatabaseInvariant, DisposedUnreferenced
    <2> QED  BY <1>1, <2>1
  <1>7. ConfigurationsAgree'
    BY DEF ConfigurationsAgree
  <1> QED  BY <1>3, <1>4, <1>5, <1>6, <1>7 DEF DatabaseInvariant

-----------------------------------------------------------------------------
(* Steps.                                                                  *)

\* A new database has one reference, and no pool.
LEMMA InitInvariant == Init => DatabaseInvariant
  <1> SUFFICES ASSUME Init PROVE DatabaseInvariant
    OBVIOUS
  <1> USE DEF Init
  <1>1. TypeOK
    <2>1. config \in Configurations /\ poolConfig \in Configurations
      OBVIOUS
    <2>2. op \in [Thread -> Ops] /\ pc \in [Thread -> Pcs] /\ then \in [Thread -> Thens]
      BY DEF Ops, Pcs, Thens
    <2>3. operations \in 0 .. MaxOperations
      BY DatabaseAssumption
    <2>4. /\ opening = "first" /\ pool = "none"
          /\ holder \in Thread \cup {None} /\ discarded \subseteq Thread
          /\ session \subseteq Thread /\ transaction \subseteq Thread
      OBVIOUS
    <2>5. poolRef \in BOOLEAN /\ hasAttachedDbs \in BOOLEAN /\ attached \in BOOLEAN
      OBVIOUS
    <2>6. refs \in Int /\ closes \in Nat
      OBVIOUS
    <2> HIDE DEF Init
    <2> QED  BY <2>1, <2>2, <2>3, <2>4, <2>5, <2>6 DEF TypeOK, Ops, Pcs, Thens
  <1>2. ReferencesCounted /\ DisposedUnreferenced /\ ConfigurationsAgree
    BY DEF ReferencesCounted, DisposedUnreferenced, ConfigurationsAgree
  <1>3. IdleHasNoOperation /\ Unopened
    BY DEF IdleHasNoOperation, Unopened
  <1> QED  BY <1>1, <1>2, <1>3 DEF DatabaseInvariant

\* What the parts of the type invariant say of the variables that move.
LEMMA Types ==
  ASSUME TypeOK
  PROVE  /\ refs \in Int /\ closes \in Nat /\ operations \in 0 .. MaxOperations
         /\ op \in [Thread -> Ops] /\ pc \in [Thread -> Pcs] /\ then \in [Thread -> Thens]
         /\ MaxOperations \in Nat
  BY DatabaseAssumption DEF TypeOK, Ops, Pcs, Thens

\* Giving back a reference moves the thread on, by way of dispose for the last one.
LEMMA ReleaseMoves ==
  ASSUME TypeOK, NEW t \in Thread, NEW l \in Thens, Release(t, l)
  PROVE  /\ refs' = refs - 1
         /\ then' \in [Thread -> Thens]
         /\ \A u \in Thread \ {t} : then'[u] = then[u]
         /\ \E m \in Pcs : /\ pc' = [pc EXCEPT ![t] = m]
                           /\ m = l \/ (m = "dispose" /\ then'[t] = l)
                           /\ refs' > 0 => m = l
  <1>1. refs \in Int /\ pc \in [Thread -> Pcs] /\ then \in [Thread -> Thens]
    BY Types
  <1>2. CASE LastReference
    <2>1. /\ refs' = refs - 1 /\ refs = 1
          /\ pc' = [pc EXCEPT ![t] = "dispose"] /\ then' = [then EXCEPT ![t] = l]
      BY <1>2 DEF Release, LastReference
    <2>2. then' \in [Thread -> Thens] /\ then'[t] = l
          /\ \A u \in Thread \ {t} : then'[u] = then[u]
      BY <1>1, <2>1
    <2> QED  BY <1>1, <2>1, <2>2 DEF Pcs
  <1>3. CASE ~LastReference
    <2>1. refs' = refs - 1 /\ pc' = [pc EXCEPT ![t] = l] /\ then' = then
      BY <1>3 DEF Release, Goto
    <2> QED  BY <1>1, <2>1 DEF Pcs, Thens
  <1> QED  BY <1>2, <1>3

\* A step of the handler or of an operation that neither takes nor gives back a
\* reference.
LEMMA QuietStepKeeps ==
  ASSUME DatabaseInvariant, NEW t \in Thread, NEW l \in Pcs,
         pc[t] \notin {"idle", "list"}, l \notin {"idle", "list", "dispose", "closePool"},
         pc[t] \notin {"dispose", "closePool"},
         pc' = [pc EXCEPT ![t] = l],
         UNCHANGED <<opening, refs, poolRef, pool, op, then, closes, operations>>,
         config' \in Configurations, poolConfig' \in Configurations,
         config = poolConfig => config' = poolConfig',
         hasAttachedDbs' \in BOOLEAN, attached' \in BOOLEAN,
         holder' \in Thread \cup {None},
         discarded' \subseteq Thread, session' \subseteq Thread, transaction' \subseteq Thread
  PROVE  DatabaseInvariant'
  <1> DEFINE o == op[t]
  <1>1. /\ TypeOK /\ op \in [Thread -> Ops] /\ pc \in [Thread -> Pcs] /\ refs \in Int
        /\ closes \in Nat
    BY Types DEF DatabaseInvariant
  <1>2. opening = "done"
    BY DEF DatabaseInvariant, Unopened
  <1>3. pc' \in [Thread -> Pcs]
    BY <1>1
  <1>4. TypeOK'
    BY <1>1, <1>3 DEF TypeOK, Pcs
  <1>5. o \in Ops /\ op' = [op EXCEPT ![t] = o]
    BY <1>1
  <1>6. OfPc(l) = 0 /\ OfPc(pc[t]) = 0 /\ OfOp(o) \in Int
    BY DEF OfPc, OfOp
  <1>7. refs' + closes' = refs + closes + OfOp(o) - OfOp(op[t]) + OfPc(l) - OfPc(pc[t])
    BY <1>1, <1>6
  <1>8. config' = poolConfig'
    BY <1>2 DEF DatabaseInvariant, ConfigurationsAgree
  <1> HIDE DEF o
  <1> QED  BY <1>1, <1>2, <1>4, <1>5, <1>7, <1>8, ThreadStepKeeps

\* What a reconfiguration, done or refused, leaves of the configurations.
LEMMA ReconfigureTypes ==
  ASSUME TypeOK, NEW k \in Configurations, Applied(k) \/ NotApplied(k)
  PROVE  /\ config' \in Configurations /\ poolConfig' \in Configurations
         /\ config = poolConfig => config' = poolConfig'
         /\ attached' \in BOOLEAN
         /\ holder' \in Thread \cup {None} /\ discarded' \subseteq Thread
  <1>1. CASE Applied(k)
    <2>1. /\ config' = k /\ poolConfig' = k
          /\ IF Reopens(k)
             THEN attached' = FALSE /\ holder' = None /\ discarded' = AcquiredBy
             ELSE attached' = attached /\ holder' = holder /\ discarded' = discarded
      BY <1>1 DEF Applied
    <2>2. AcquiredBy \subseteq Thread
      BY DEF AcquiredBy
    <2> QED  BY <2>1, <2>2 DEF TypeOK
  <1>2. CASE NotApplied(k)
    <2>1. /\ config' = config /\ poolConfig' = poolConfig
          /\ holder' = holder /\ discarded' = discarded
      BY <1>2 DEF NotApplied, RolledBack
    <2>2. attached' \in BOOLEAN
      BY <1>2 DEF NotApplied
    <2> QED  BY <2>1, <2>2 DEF TypeOK
  <1> QED  BY <1>1, <1>2

\* Beginning an operation takes a reference if it is to have one.
LEMMA BeginKeeps ==
  ASSUME DatabaseInvariant, NEW t \in Thread, NEW o \in Ops \ {None},
         NEW l \in {"execute", "attach", "run"}, Begin(t, o, l),
         refs' = refs + OfOp(o), o \in Referencing => refs > 0,
         operations' \in 0 .. MaxOperations
  PROVE  DatabaseInvariant'
  <1>1. /\ TypeOK /\ op \in [Thread -> Ops] /\ pc \in [Thread -> Pcs] /\ refs \in Int
        /\ closes \in Nat
    BY Types DEF DatabaseInvariant
  <1>2. /\ opening = "done" /\ pc[t] = "idle" /\ op' = [op EXCEPT ![t] = o]
        /\ pc' = [pc EXCEPT ![t] = l] /\ then' = then
        /\ UNCHANGED <<opening, poolRef, pool, configVars, sessionVars, closes>>
    BY DEF Begin, Goto
  <1>3. op[t] = None
    BY <1>2 DEF DatabaseInvariant, IdleHasNoOperation
  <1>4. OfOp(op[t]) = 0 /\ OfPc(pc[t]) = 0 /\ OfPc(l) = 0 /\ OfOp(o) \in {0, 1}
    BY <1>2, <1>3, DatabaseAssumption DEF OfOp, OfPc
  <1>5. refs' + closes' = refs + closes + OfOp(o) - OfOp(op[t]) + OfPc(l) - OfPc(pc[t])
    BY <1>1, <1>2, <1>4
  <1>6. l \in Pcs /\ op' \in [Thread -> Ops] /\ pc' \in [Thread -> Pcs] /\ refs' \in Int
    BY <1>1, <1>2, <1>4 DEF Pcs
  <1>7. TypeOK'
    BY <1>1, <1>2, <1>6 DEF TypeOK, Pcs, Ops, configVars, sessionVars
  <1>8. refs' > 0 => refs > 0
    BY <1>1, <1>4 DEF OfOp
  <1>9. config' = poolConfig'
    BY <1>2 DEF DatabaseInvariant, ConfigurationsAgree, configVars
  <1> QED  BY <1>1, <1>2, <1>5, <1>6, <1>7, <1>8, <1>9, ThreadStepKeeps

\* Giving back a reference: by close, by an operation that ends, by the handler.
LEMMA ReleaseKeeps ==
  ASSUME DatabaseInvariant, opening = "done", NEW t \in Thread, NEW l \in Thens, NEW o \in Ops,
         Release(t, l), op' = [op EXCEPT ![t] = o], closes' \in Nat,
         pc[t] \notin {"dispose", "closePool"},
         l = "idle" => o = None,
         closes' = closes + 1 + OfOp(o) - OfOp(op[t]) - OfPc(pc[t]),
         UNCHANGED <<opening, poolRef, pool, configVars, sessionVars, operations>>
  PROVE  DatabaseInvariant'
  <1>1. /\ TypeOK /\ op \in [Thread -> Ops] /\ pc \in [Thread -> Pcs] /\ refs \in Int
        /\ closes \in Nat
    BY Types DEF DatabaseInvariant
  <1>2. PICK m \in Pcs : /\ pc' = [pc EXCEPT ![t] = m]
                         /\ m = l \/ (m = "dispose" /\ then'[t] = l)
                         /\ refs' > 0 => m = l
    BY <1>1, ReleaseMoves
  <1>3. /\ refs' = refs - 1 /\ then' \in [Thread -> Thens]
        /\ \A u \in Thread \ {t} : then'[u] = then[u]
    BY <1>1, ReleaseMoves
  <1>4. OfPc(m) = 0 /\ OfPc(pc[t]) \in Int /\ OfOp(o) \in Int /\ OfOp(op[t]) \in Int
    BY <1>2 DEF OfPc, OfOp, Thens
  <1>5. refs' + closes' = refs + closes + OfOp(o) - OfOp(op[t]) + OfPc(m) - OfPc(pc[t])
    BY <1>1, <1>3, <1>4
  <1>6. op' \in [Thread -> Ops] /\ pc' \in [Thread -> Pcs] /\ refs' \in Int
    BY <1>1, <1>2, <1>3
  <1>7. TypeOK'
    BY <1>1, <1>3, <1>6 DEF TypeOK, Pcs, Ops, Thens, configVars, sessionVars
  <1>8. m = "idle" \/ (m \in {"dispose", "closePool"} /\ then'[t] = "idle") => o = None
    BY <1>2 DEF Thens
  <1>9. refs' > 0 => refs > 0 /\ m \notin {"dispose", "closePool"}
    BY <1>1, <1>2, <1>3 DEF Thens
  <1>10. config' = poolConfig'
    BY DEF DatabaseInvariant, ConfigurationsAgree, configVars
  <1> QED  BY <1>1, <1>2, <1>3, <1>5, <1>6, <1>7, <1>8, <1>9, <1>10, ThreadStepKeeps

\* Opening: no thread has begun anything.
LEMMA OpenKeeps == DatabaseInvariant /\ Open => DatabaseInvariant'
  <1> SUFFICES ASSUME DatabaseInvariant, Open PROVE DatabaseInvariant'
    OBVIOUS
  <1>1. /\ UNCHANGED <<config, hasAttachedDbs, attached, sessionVars, op, pc, then, countVars>>
        /\ opening \in {"first", "second"}
    BY DEF Open, OpenInner, OpenCorrupt, OpenFails, configVars
  <1>2. \A t \in Thread : pc[t] = "idle" /\ op[t] = None
    BY <1>1 DEF DatabaseInvariant, Unopened, IdleHasNoOperation
  <1>3. TypeOK
    BY DEF DatabaseInvariant
  <1>4. Users' = {} /\ Listing' = {}
    BY <1>1, <1>2, DatabaseAssumption DEF Users, Listing
  <1>5. IdleHasNoOperation'
    BY <1>1, <1>2 DEF IdleHasNoOperation
  <1>6. CASE OpenInner
    <2>1. /\ opening' = "done" /\ poolRef' = TRUE /\ pool' = "open" /\ poolConfig' = config
          /\ refs' = refs
      BY <1>6 DEF OpenInner
    <2>2. TypeOK'
      BY <1>1, <1>3, <2>1 DEF TypeOK, sessionVars, countVars
    <2>3. refs' = 1 /\ closes' = 0
      BY <1>1, <2>1 DEF DatabaseInvariant, Unopened, countVars
    <2>4. Cardinality(Users') = 0 /\ Cardinality(Listing') = 0
      BY <1>4, FS_EmptySet
    <2>5. ReferencesCounted'
      BY <2>3, <2>4 DEF ReferencesCounted
    <2>6. DisposedUnreferenced' /\ ConfigurationsAgree'
      BY <1>1, <1>2, <2>1 DEF DisposedUnreferenced, ConfigurationsAgree
    <2>7. Unopened'
      BY <2>1 DEF Unopened
    <2> QED  BY <1>5, <2>2, <2>5, <2>6, <2>7 DEF DatabaseInvariant
  <1>7. CASE OpenCorrupt \/ OpenFails
    <2>1. /\ opening' \in {"second", "failed"} /\ refs' \in {refs, refs - 1}
          /\ UNCHANGED <<poolRef, pool, poolConfig>>
          /\ opening' = "second" => refs' = refs
      BY <1>7 DEF OpenCorrupt, OpenFails, configVars
    <2>2. TypeOK'
      BY <1>1, <1>3, <2>1 DEF TypeOK, sessionVars, countVars
    <2>3. ReferencesCounted' /\ DisposedUnreferenced' /\ ConfigurationsAgree'
      BY <2>1 DEF ReferencesCounted, DisposedUnreferenced, ConfigurationsAgree
    <2>4. Unopened'
      BY <1>1, <1>2, <2>1 DEF Unopened, DatabaseInvariant, countVars
    <2> QED  BY <1>5, <2>2, <2>3, <2>4 DEF DatabaseInvariant
  <1> QED  BY <1>6, <1>7 DEF Open

\* Every step of a thread.
LEMMA ProceedKeeps ==
  ASSUME DatabaseInvariant, NEW t \in Thread, Proceed(t)
  PROVE  DatabaseInvariant'
  <1>1. /\ TypeOK /\ op \in [Thread -> Ops] /\ pc \in [Thread -> Pcs] /\ refs \in Int
        /\ closes \in Nat /\ then \in [Thread -> Thens]
    BY Types DEF DatabaseInvariant
  <1>2. pc[t] # "idle" => opening = "done"
    BY DEF DatabaseInvariant, Unopened
  <1>3. CASE AttachFlag(t)
    <2>1. PICK l \in {"execute", "disableWal"} : pc' = [pc EXCEPT ![t] = l] /\ then' = then
      BY <1>3 DEF AttachFlag, Goto
    <2>2. /\ hasAttachedDbs' = TRUE /\ pc[t] = "attach"
          /\ UNCHANGED <<opening, refs, poolRef, pool, config, poolConfig, attached, sessionVars,
                         op, countVars>>
      BY <1>3 DEF AttachFlag
    <2> QED  BY <1>1, <2>1, <2>2, QuietStepKeeps DEF TypeOK, Pcs, sessionVars, countVars
  <1>4. CASE AttachDisablesWal(t)
    <2> DEFINE k == [config EXCEPT !.wal = FALSE]
    <2>1. k \in Configurations
      BY <1>1 DEF TypeOK, Configurations
    <2>2. /\ pc[t] = "disableWal"
          /\ UNCHANGED <<opening, refs, poolRef, pool, hasAttachedDbs, session, transaction, op,
                         countVars>>
      BY <1>4 DEF AttachDisablesWal
    <2>3. PICK l \in {"execute", "leave"} : pc' = [pc EXCEPT ![t] = l] /\ then' = then
      BY <1>4 DEF AttachDisablesWal, Goto
    <2>4. \/ Applied(k) \/ NotApplied(k)
          \/ UNCHANGED <<config, poolConfig, attached, holder, discarded>>
      BY <1>4 DEF AttachDisablesWal
    <2> HIDE DEF k
    <2>5. /\ config' \in Configurations /\ poolConfig' \in Configurations
          /\ config = poolConfig => config' = poolConfig'
          /\ attached' \in BOOLEAN
          /\ holder' \in Thread \cup {None} /\ discarded' \subseteq Thread
      <3>1. CASE Applied(k) \/ NotApplied(k)
        BY <1>1, <2>1, <3>1, ReconfigureTypes
      <3>2. CASE UNCHANGED <<config, poolConfig, attached, holder, discarded>>
        BY <1>1, <3>2 DEF TypeOK
      <3> QED  BY <2>4, <3>1, <3>2
    <2> QED  BY <1>1, <2>2, <2>3, <2>5, QuietStepKeeps DEF TypeOK, Pcs, countVars
  <1>5. CASE Execute(t)
    <2>1. /\ pc[t] = "execute" /\ pc' = [pc EXCEPT ![t] = "run"] /\ then' = then
          /\ session' = session \cup {t} /\ holder' \in {holder, t}
          /\ UNCHANGED <<opening, refs, poolRef, pool, configVars, discarded, transaction, op,
                         countVars>>
      BY <1>5 DEF Execute, GetConnection, Goto
    <2> QED  BY <1>1, <2>1, QuietStepKeeps DEF TypeOK, Pcs, configVars, countVars
  <1>6. CASE ExecuteRefused(t)
    <2>1. /\ pc[t] = "execute" /\ pc' = [pc EXCEPT ![t] = "leave"] /\ then' = then
          /\ session' \in {session, session \cup {t}}
          /\ UNCHANGED <<opening, refs, poolRef, pool, configVars, holder, discarded, transaction,
                         op, countVars>>
      BY <1>6 DEF ExecuteRefused, Goto
    <2> QED  BY <1>1, <2>1, QuietStepKeeps DEF TypeOK, Pcs, configVars, countVars
  <1>7. CASE Run(t) \/ RunThrows(t)
    <2>1. /\ pc[t] = "run" /\ attached' \in BOOLEAN
          /\ UNCHANGED <<opening, refs, poolRef, pool, config, poolConfig, hasAttachedDbs, session,
                         op, countVars>>
      BY <1>7 DEF Run, RunThrows
    <2>2. PICK l \in {"leave", "isOpen"} : pc' = [pc EXCEPT ![t] = l] /\ then' = then
      BY <1>7 DEF Run, RunThrows, Goto
    <2>3. /\ holder' \in {holder, None} /\ discarded' \subseteq discarded
          /\ transaction' \in {transaction, transaction \cup {t}, transaction \ {t}}
      BY <1>7 DEF Run, RunThrows, GiveBack
    <2> QED  BY <1>1, <2>1, <2>2, <2>3, QuietStepKeeps DEF TypeOK, Pcs, countVars
  <1>8. CASE Leave(t)
    <2>1. /\ pc[t] = "leave" /\ op' = [op EXCEPT ![t] = None]
          /\ IF op[t] \in Referencing THEN Release(t, "idle")
             ELSE Goto(t, "idle") /\ refs' = refs
          /\ UNCHANGED <<opening, poolRef, pool, configVars, sessionVars, countVars>>
      BY <1>8 DEF Leave
    <2>2. opening = "done" /\ OfPc(pc[t]) = 0 /\ OfOp(None) = 0 /\ None \in Ops
      BY <1>2, <2>1, DatabaseAssumption DEF OfPc, OfOp, Ops
    <2>3. CASE op[t] \in Referencing
      <3>1. OfOp(op[t]) = 1 /\ closes' = closes
        BY <2>1, <2>3 DEF OfOp, countVars
      <3>2. closes' = closes + 1 + OfOp(None) - OfOp(op[t]) - OfPc(pc[t])
        BY <1>1, <2>2, <3>1
      <3> QED
        BY <1>1, <2>1, <2>2, <2>3, <3>1, <3>2, ReleaseKeeps DEF Thens, countVars
    <2>4. CASE op[t] \notin Referencing
      <3>1. /\ pc' = [pc EXCEPT ![t] = "idle"] /\ then' = then /\ refs' = refs
            /\ closes' = closes
        BY <2>1, <2>4 DEF Goto, countVars
      <3>2. op' \in [Thread -> Ops] /\ pc' \in [Thread -> Pcs]
        BY <1>1, <2>1, <2>2, <3>1 DEF Pcs
      <3>3. TypeOK'
        BY <1>1, <2>1, <3>1, <3>2 DEF TypeOK, Ops, Pcs, configVars, sessionVars, countVars
      <3>4. OfOp(op[t]) = 0 /\ OfPc("idle") = 0 /\ "idle" \in Pcs
        BY <2>4 DEF OfOp, OfPc, Pcs
      <3>5. refs' + closes' = refs + closes + OfOp(None) - OfOp(op[t]) + OfPc("idle") - OfPc(pc[t])
        BY <1>1, <2>2, <3>1, <3>4
      <3>6. config' = poolConfig'
        BY <2>1, <2>2 DEF DatabaseInvariant, ConfigurationsAgree, configVars
      <3> QED
        BY <1>1, <2>1, <2>2, <3>1, <3>3, <3>4, <3>5, <3>6, ThreadStepKeeps
    <2> QED  BY <2>3, <2>4
  <1>9. CASE HandlerIsOpen(t)
    <2>1. PICK l \in {"getAttached", "leave"} : pc' = [pc EXCEPT ![t] = l] /\ then' = then
      BY <1>9 DEF HandlerIsOpen, Goto
    <2>2. pc[t] = "isOpen" /\ UNCHANGED <<handlerVars, refs, poolRef, closes>>
      BY <1>9 DEF HandlerIsOpen
    <2> QED  BY <1>1, <2>1, <2>2, QuietStepKeeps DEF TypeOK, Pcs, handlerVars, configVars, sessionVars
  <1>10. CASE HandlerGetAttached(t)
    <2>1. pc[t] = "getAttached" /\ UNCHANGED <<handlerVars, poolRef, closes>>
      BY <1>10 DEF HandlerGetAttached
    <2>2. CASE refs' = refs /\ \E l \in {"leave", "handlerClose"} : Goto(t, l)
      <3>1. PICK l \in {"leave", "handlerClose"} : pc' = [pc EXCEPT ![t] = l] /\ then' = then
        BY <2>2 DEF Goto
      <3> QED
        BY <1>1, <2>1, <2>2, <3>1, QuietStepKeeps DEF TypeOK, Pcs, handlerVars, configVars, sessionVars
    <2>3. CASE refs' = refs + 1 /\ refs > 0 /\ Goto(t, "list")
      <3> DEFINE o == op[t]
      <3>1. /\ pc' = [pc EXCEPT ![t] = "list"] /\ then' = then /\ opening = "done"
        BY <1>2, <2>1, <2>3 DEF Goto
      <3>2. o \in Ops /\ op' = [op EXCEPT ![t] = o] /\ "list" \in Pcs
        BY <1>1, <2>1 DEF handlerVars, Pcs
      <3>3. OfPc("list") = 1 /\ OfPc(pc[t]) = 0 /\ OfOp(o) \in Int
        BY <2>1 DEF OfPc, OfOp
      <3>4. refs' + closes' = refs + closes + OfOp(o) - OfOp(op[t]) + OfPc("list") - OfPc(pc[t])
        BY <1>1, <2>1, <2>3, <3>3
      <3>5. pc' \in [Thread -> Pcs] /\ refs' \in Int
        BY <1>1, <2>3, <3>1, <3>2
      <3>6. TypeOK'
        BY <1>1, <2>1, <3>1, <3>5 DEF TypeOK, Pcs, handlerVars, configVars, sessionVars
      <3>7. config' = poolConfig'
        BY <2>1, <3>1 DEF DatabaseInvariant, ConfigurationsAgree, handlerVars, configVars
      <3> HIDE DEF o
      <3> QED
        BY <1>1, <2>1, <2>3, <3>1, <3>2, <3>4, <3>6, <3>7, ThreadStepKeeps DEF handlerVars
    <2> QED  BY <1>10, <2>2, <2>3 DEF HandlerGetAttached, MayAcquire
  <1>11. CASE HandlerList(t) \/ HandlerClose(t)
    <2> DEFINE o == op[t]
    <2>1. /\ pc[t] \in {"list", "handlerClose"} /\ UNCHANGED <<handlerVars, poolRef>>
          /\ closes' = closes + 1 - OfPc(pc[t])
      BY <1>1, <1>11 DEF HandlerList, HandlerClose, OfPc
    <2>2. PICK l \in {"leave", "handlerClose"} : Release(t, l)
      BY <1>11 DEF HandlerList, HandlerClose
    <2>3. o \in Ops /\ op' = [op EXCEPT ![t] = o] /\ OfOp(o) \in Int
      BY <1>1, <2>1 DEF handlerVars, OfOp
    <2>4. closes' \in Nat /\ closes' = closes + 1 + OfOp(o) - OfOp(op[t]) - OfPc(pc[t])
      BY <1>1, <2>1, <2>3 DEF OfPc
    <2>5. l \in Thens /\ l # "idle" /\ opening = "done"
      BY <1>2, <2>1, <2>2 DEF Thens
    <2> HIDE DEF o
    <2> QED  BY <1>1, <2>1, <2>2, <2>3, <2>4, <2>5, ReleaseKeeps DEF handlerVars
  <1>12. CASE Dispose(t) \/ ClosePool(t)
    <2> DEFINE o == op[t]
    <2>1. /\ pc[t] \in {"dispose", "closePool"} /\ poolRef' \in BOOLEAN
          /\ pool' \in {pool, "closed"} /\ attached' \in BOOLEAN
          /\ UNCHANGED <<opening, refs, config, poolConfig, hasAttachedDbs, sessionVars, op,
                         countVars>>
      BY <1>1, <1>12 DEF Dispose, ClosePool, TypeOK, configVars
    <2>2. PICK l \in {"closePool", then[t]} : pc' = [pc EXCEPT ![t] = l] /\ then' = then
      BY <1>12 DEF Dispose, ClosePool, Goto
    <2>3. opening = "done" /\ ~(refs > 0)
      BY <1>2, <2>1 DEF DatabaseInvariant, DisposedUnreferenced
    <2>4. o \in Ops /\ op' = [op EXCEPT ![t] = o] /\ l \in Pcs
      BY <1>1, <2>1, <2>2 DEF Pcs, Thens
    <2>5. OfPc(l) = 0 /\ OfPc(pc[t]) = 0 /\ OfOp(o) \in Int
      BY <1>1, <2>1, <2>2 DEF OfPc, OfOp, Thens
    <2>6. refs' + closes' = refs + closes + OfOp(o) - OfOp(op[t]) + OfPc(l) - OfPc(pc[t])
      BY <1>1, <2>1, <2>5 DEF countVars
    <2>7. pc' \in [Thread -> Pcs]
      BY <1>1, <2>2, <2>4
    <2>8. TypeOK'
      BY <1>1, <2>1, <2>2, <2>7 DEF TypeOK, Pcs, sessionVars, countVars
    <2>9. l = "idle" \/ (l \in {"dispose", "closePool"} /\ then'[t] = "idle") => o = None
      BY <1>1, <2>1, <2>2 DEF DatabaseInvariant, IdleHasNoOperation
    <2>10. config' = poolConfig'
      BY <2>1, <2>3 DEF DatabaseInvariant, ConfigurationsAgree
    <2> HIDE DEF o
    <2> QED
      BY <1>1, <2>1, <2>2, <2>3, <2>4, <2>6, <2>8, <2>9, <2>10, ThreadStepKeeps
  <1> QED
    BY <1>3, <1>4, <1>5, <1>6, <1>7, <1>8, <1>9, <1>10, <1>11, <1>12 DEF Proceed, Handler

\* Every step keeps the invariant of the database.
LEMMA StepInvariant == DatabaseInvariant /\ [Next]_vars => DatabaseInvariant'
  <1> SUFFICES ASSUME DatabaseInvariant, [Next]_vars PROVE DatabaseInvariant'
    OBVIOUS
  <1>1. /\ TypeOK /\ refs \in Int /\ closes \in Nat /\ operations \in 0 .. MaxOperations
        /\ op \in [Thread -> Ops] /\ pc \in [Thread -> Pcs] /\ MaxOperations \in Nat
    BY Types DEF DatabaseInvariant
  <1>2. CASE Open
    BY <1>2, OpenKeeps
  <1>3. ASSUME NEW t \in Thread, Proceed(t) PROVE DatabaseInvariant'
    BY <1>3, ProceedKeeps
  <1>4. ASSUME NEW t \in Thread, BeginOperation(t) PROVE DatabaseInvariant'
    <2>1. /\ refs > 0 /\ refs' = refs + 1 /\ operations' \in 0 .. MaxOperations
      BY <1>1, <1>4 DEF BeginOperation, MayAcquire
    <2>2. PICK o \in {"begin", "exec", "attach"}, l \in {"execute", "attach"} : Begin(t, o, l)
      BY <1>4 DEF BeginOperation
    <2>3. o \in Ops \ {None} /\ OfOp(o) = 1
      BY <2>2, DatabaseAssumption DEF Ops, OfOp, Referencing
    <2> QED  BY <2>1, <2>2, <2>3, BeginKeeps
  <1>5. ASSUME NEW t \in Thread, BeginEnd(t) PROVE DatabaseInvariant'
    <2>1. /\ refs > 0 /\ refs' = refs + 1 /\ operations' = operations /\ Begin(t, "end", "run")
      BY <1>5 DEF BeginEnd, MayAcquire
    <2>2. "end" \in Ops \ {None} /\ OfOp("end") = 1
      BY DatabaseAssumption DEF Ops, OfOp, Referencing
    <2> QED  BY <1>1, <2>1, <2>2, BeginKeeps
  <1>6. ASSUME NEW t \in Thread, BeginStatement(t) PROVE DatabaseInvariant'
    <2>1. /\ refs' = refs /\ operations' \in 0 .. MaxOperations
          /\ Begin(t, "statement", "execute")
      BY <1>1, <1>6 DEF BeginStatement
    <2>2. "statement" \in Ops \ {None} \/ "statement" = None
      BY DEF Ops
    <2>3. "statement" \notin Referencing /\ OfOp("statement") = 0
      BY DEF OfOp, Referencing
    <2>4. "statement" # None
      BY DatabaseAssumption
    <2> QED  BY <1>1, <2>1, <2>2, <2>3, <2>4, BeginKeeps
  <1>7. ASSUME NEW t \in Thread, Close(t) PROVE DatabaseInvariant'
    <2>1. /\ opening = "done" /\ pc[t] = "idle" /\ closes' = closes + 1 /\ Release(t, "idle")
          /\ UNCHANGED <<opening, poolRef, pool, configVars, sessionVars, op, operations>>
      BY <1>7 DEF Close
    <2>2. op[t] = None
      BY <2>1 DEF DatabaseInvariant, IdleHasNoOperation
    <2>3. OfOp(None) = 0 /\ OfPc(pc[t]) = 0 /\ None \in Ops /\ "idle" \in Thens
      BY <2>1, DatabaseAssumption DEF OfOp, OfPc, Ops, Thens
    <2>4. op' = [op EXCEPT ![t] = None]
      BY <1>1, <2>1, <2>2
    <2>5. closes' \in Nat /\ closes' = closes + 1 + OfOp(None) - OfOp(op[t]) - OfPc(pc[t])
      BY <1>1, <2>1, <2>2, <2>3
    <2> QED  BY <2>1, <2>3, <2>4, <2>5, ReleaseKeeps
  <1>8. ASSUME NEW t \in Thread, Configure(t) PROVE DatabaseInvariant'
    <2>1. /\ operations' \in 0 .. MaxOperations
          /\ UNCHANGED <<opening, refs, poolRef, pool, hasAttachedDbs, session, transaction, op,
                         pc, then, closes>>
      BY <1>1, <1>8 DEF Configure
    <2>2. PICK k \in Configurations : Applied(k) \/ NotApplied(k)
      BY <1>8 DEF Configure
    <2>3. /\ config' \in Configurations /\ poolConfig' \in Configurations
          /\ config = poolConfig => config' = poolConfig'
          /\ attached' \in BOOLEAN
          /\ holder' \in Thread \cup {None} /\ discarded' \subseteq Thread
      BY <1>1, <2>2, ReconfigureTypes
    <2>4. TypeOK'
      BY <1>1, <2>1, <2>3 DEF TypeOK
    <2>5. Users' = Users /\ Listing' = Listing
      BY <2>1 DEF Users, Listing
    <2>6. ReferencesCounted' /\ IdleHasNoOperation' /\ Unopened' /\ DisposedUnreferenced'
      BY <2>1, <2>5 DEF DatabaseInvariant, ReferencesCounted, IdleHasNoOperation, Unopened,
                        DisposedUnreferenced
    <2>7. ConfigurationsAgree'
      BY <2>1, <2>3 DEF DatabaseInvariant, ConfigurationsAgree
    <2> QED  BY <2>4, <2>6, <2>7 DEF DatabaseInvariant
  <1>9. CASE UNCHANGED vars
    <2>1. Users' = Users /\ Listing' = Listing
      BY <1>9 DEF vars, Users, Listing
    <2>2. TypeOK'
      BY <1>1, <1>9 DEF vars, TypeOK, configVars, sessionVars, countVars
    <2>3. ReferencesCounted' /\ IdleHasNoOperation' /\ Unopened' /\ DisposedUnreferenced'
      BY <1>9, <2>1 DEF vars, DatabaseInvariant, ReferencesCounted, IdleHasNoOperation, Unopened,
                        DisposedUnreferenced, countVars
    <2>4. ConfigurationsAgree'
      BY <1>9 DEF vars, DatabaseInvariant, ConfigurationsAgree, configVars
    <2> QED  BY <2>2, <2>3, <2>4 DEF DatabaseInvariant
  <1> QED  BY <1>2, <1>3, <1>4, <1>5, <1>6, <1>7, <1>8, <1>9 DEF Next

-----------------------------------------------------------------------------
(* Attached databases.                                                     *)

Attaching == {"disableWal", "execute", "run"}

\* A step of one thread that only has a database attached behind the flag.
LEMMA FlagKept ==
  ASSUME TypeOK, AttachedIsFlagged, NEW t \in Thread, NEW o \in Ops, NEW l \in Pcs,
         op' = [op EXCEPT ![t] = o], pc' = [pc EXCEPT ![t] = l],
         hasAttachedDbs => hasAttachedDbs',
         attached' => attached \/ hasAttachedDbs',
         o = "attach" /\ l \in Attaching => hasAttachedDbs'
  PROVE  AttachedIsFlagged'
  <1>1. op \in [Thread -> Ops] /\ pc \in [Thread -> Pcs]
    BY Types
  <1>2. attached' => hasAttachedDbs'
    BY DEF AttachedIsFlagged
  <1>3. ASSUME NEW u \in Thread, op'[u] = "attach", pc'[u] \in Attaching
        PROVE  hasAttachedDbs'
    <2>1. CASE u = t
      BY <1>1, <1>3, <2>1
    <2>2. CASE u # t
      BY <1>1, <1>3, <2>2 DEF AttachedIsFlagged, Attaching
    <2> QED  BY <2>1, <2>2
  <1> QED  BY <1>2, <1>3 DEF AttachedIsFlagged, Attaching

\* Every step leaves attached databases behind the flag.
LEMMA FlagStep ==
  ASSUME DatabaseInvariant, AttachedIsFlagged, [Next]_vars
  PROVE  AttachedIsFlagged'
  <1>1. /\ TypeOK /\ op \in [Thread -> Ops] /\ pc \in [Thread -> Pcs] /\ then \in [Thread -> Thens]
    BY Types DEF DatabaseInvariant
  <1>2. CASE Open \/ UNCHANGED vars
    <2>1. UNCHANGED <<hasAttachedDbs, attached, op, pc>>
      BY <1>2 DEF Open, OpenInner, OpenCorrupt, OpenFails, vars, configVars
    <2> QED  BY <2>1 DEF AttachedIsFlagged
  <1>3. ASSUME NEW t \in Thread, BeginOperation(t) \/ BeginEnd(t) \/ BeginStatement(t)
        PROVE  AttachedIsFlagged'
    <2>1. PICK o \in Ops, l \in {"execute", "attach", "run"} :
            Begin(t, o, l) /\ (o = "attach" => l = "attach")
      BY <1>3 DEF BeginOperation, BeginEnd, BeginStatement, Ops, Referencing
    <2>2. /\ op' = [op EXCEPT ![t] = o] /\ pc' = [pc EXCEPT ![t] = l]
          /\ UNCHANGED <<hasAttachedDbs, attached>>
      BY <2>1 DEF Begin, Goto, configVars
    <2>3. l \in Pcs /\ (o = "attach" => l \notin Attaching)
      BY <2>1 DEF Pcs, Attaching
    <2> QED  BY <1>1, <2>2, <2>3, FlagKept
  <1>4. ASSUME NEW t \in Thread, Close(t) \/ HandlerList(t) \/ HandlerClose(t) \/ Leave(t)
        PROVE  AttachedIsFlagged'
    <2>1. PICK o \in Ops : op' = [op EXCEPT ![t] = o]
      <3>1. CASE Leave(t)
        BY <3>1 DEF Leave, Ops
      <3>2. CASE ~Leave(t)
        BY <1>1, <1>4, <3>2 DEF Close, HandlerList, HandlerClose, handlerVars
      <3> QED  BY <3>1, <3>2
    <2>2. UNCHANGED <<hasAttachedDbs, attached>>
      BY <1>4 DEF Close, HandlerList, HandlerClose, Leave, handlerVars, configVars
    <2>3. PICK m \in Pcs \ Attaching : pc' = [pc EXCEPT ![t] = m]
      <3>1. (\E l \in Thens : Release(t, l)) \/ Goto(t, "idle")
        BY <1>4 DEF Close, HandlerList, HandlerClose, Leave, Thens
      <3>2. CASE \E l \in Thens : Release(t, l)
        <4>1. PICK l \in Thens : Release(t, l)
          BY <3>2
        <4>2. PICK m \in Pcs : /\ pc' = [pc EXCEPT ![t] = m]
                               /\ m = l \/ m = "dispose"
          BY <1>1, <4>1, ReleaseMoves
        <4> QED  BY <4>2 DEF Thens, Attaching
      <3>3. CASE Goto(t, "idle")
        BY <3>3 DEF Goto, Pcs, Attaching
      <3> QED  BY <3>1, <3>2, <3>3
    <2> QED  BY <1>1, <2>1, <2>2, <2>3, FlagKept
  <1>5. ASSUME NEW t \in Thread, Configure(t) PROVE AttachedIsFlagged'
    <2>1. UNCHANGED <<hasAttachedDbs, op, pc>> /\ (attached' => attached)
      BY <1>5 DEF Configure, Applied, NotApplied
    <2> QED  BY <2>1 DEF AttachedIsFlagged
  <1>6. ASSUME NEW t \in Thread, AttachFlag(t) PROVE AttachedIsFlagged'
    <2>1. hasAttachedDbs'
      BY <1>6 DEF AttachFlag
    <2> QED  BY <2>1 DEF AttachedIsFlagged
  <1>7. ASSUME NEW t \in Thread, Run(t) PROVE AttachedIsFlagged'
    <2>1. /\ pc[t] = "run" /\ pc' = [pc EXCEPT ![t] = "leave"] /\ UNCHANGED <<hasAttachedDbs, op>>
          /\ attached' => attached \/ op[t] = "attach"
      BY <1>7 DEF Run, Goto
    <2>2. op[t] = "attach" => hasAttachedDbs
      BY <2>1 DEF AttachedIsFlagged
    <2> DEFINE o == op[t]
    <2>3. o \in Ops /\ op' = [op EXCEPT ![t] = o] /\ "leave" \in Pcs \ Attaching
      BY <1>1, <2>1 DEF Pcs, Attaching
    <2> HIDE DEF o
    <2> QED  BY <1>1, <2>1, <2>2, <2>3, FlagKept
  <1>8. ASSUME NEW t \in Thread,
               \/ AttachDisablesWal(t) \/ Execute(t) \/ ExecuteRefused(t) \/ RunThrows(t)
               \/ HandlerIsOpen(t) \/ HandlerGetAttached(t) \/ Dispose(t) \/ ClosePool(t)
        PROVE  AttachedIsFlagged'
    <2>1. UNCHANGED <<hasAttachedDbs, op>> /\ (attached' => attached)
      <3>0. attached \in BOOLEAN
        BY <1>1 DEF TypeOK
      <3>1. CASE AttachDisablesWal(t)
        <4>1. UNCHANGED <<hasAttachedDbs, op>>
          BY <3>1 DEF AttachDisablesWal
        <4>2. attached' = FALSE \/ attached' = attached \/ (attached' \in BOOLEAN /\ attached)
          BY <3>0, <3>1 DEF AttachDisablesWal, Applied, NotApplied
        <4> QED  BY <3>0, <4>1, <4>2
      <3>2. CASE Execute(t) \/ ExecuteRefused(t) \/ RunThrows(t)
        BY <3>0, <3>2 DEF Execute, ExecuteRefused, RunThrows, configVars
      <3>3. CASE HandlerIsOpen(t) \/ HandlerGetAttached(t)
        BY <3>0, <3>3 DEF HandlerIsOpen, HandlerGetAttached, handlerVars, configVars
      <3>4. CASE Dispose(t) \/ ClosePool(t)
        BY <3>0, <3>4 DEF Dispose, ClosePool, configVars
      <3> QED  BY <1>8, <3>1, <3>2, <3>3, <3>4
    <2>2. PICK l \in Pcs : /\ pc' = [pc EXCEPT ![t] = l]
                           /\ l \in Attaching => pc[t] \in Attaching
      <3>1. CASE AttachDisablesWal(t) \/ Execute(t) \/ ExecuteRefused(t)
        BY <3>1 DEF AttachDisablesWal, Execute, GetConnection, ExecuteRefused, Goto, Pcs, Attaching
      <3>2. CASE RunThrows(t) \/ HandlerIsOpen(t) \/ HandlerGetAttached(t)
        <4>1. PICK l \in {"leave", "isOpen", "getAttached", "list", "handlerClose"} : Goto(t, l)
          BY <3>2 DEF RunThrows, HandlerIsOpen, HandlerGetAttached
        <4>2. l \in Pcs \ Attaching
          BY <4>1 DEF Pcs, Attaching
        <4> QED  BY <4>1, <4>2 DEF Goto
      <3>3. CASE Dispose(t) \/ ClosePool(t)
        <4>1. PICK l \in {"closePool", then[t]} : pc' = [pc EXCEPT ![t] = l]
          BY <3>3 DEF Dispose, ClosePool, Goto
        <4>2. l \in Pcs \ Attaching
          BY <1>1, <4>1 DEF Thens, Pcs, Attaching
        <4> QED  BY <4>1, <4>2
      <3> QED  BY <1>8, <3>1, <3>2, <3>3
    <2> DEFINE o == op[t]
    <2>3. o \in Ops /\ op' = [op EXCEPT ![t] = o]
      BY <1>1, <2>1
    <2>4. o = "attach" /\ l \in Attaching => hasAttachedDbs'
      BY <2>1, <2>2 DEF AttachedIsFlagged, Attaching
    <2> HIDE DEF o
    <2> QED  BY <1>1, <2>1, <2>2, <2>3, <2>4, FlagKept
  <1> QED
    BY <1>2, <1>3, <1>4, <1>5, <1>6, <1>7, <1>8 DEF Next, Proceed, Handler

-----------------------------------------------------------------------------
(* The results.                                                            *)

\* The inductive invariant holds in every state.
THEOREM DatabaseInvariantHolds == Spec => []DatabaseInvariant
  <1> QED  BY InitInvariant, StepInvariant, PTL DEF Spec

\* A database closed no more than once keeps its pool open while any operation has
\* a reference (SQLiteClosable.acquireReference, releaseReference and dispose).
THEOREM PoolOutlivesOperations == Spec => []OpenWhileReferenced
  <1>1. ASSUME DatabaseInvariant PROVE OpenWhileReferenced
    <2> SUFFICES ASSUME closes <= 1, Users # {} PROVE poolRef /\ pool = "open"
      BY DEF OpenWhileReferenced
    <2>1. refs \in Int /\ closes \in Nat
      BY <1>1, Types DEF DatabaseInvariant
    <2>2. PICK t \in Thread : op[t] \in Referencing
      BY DEF Users
    <2>3. opening = "done"
      BY <1>1, <2>2, DatabaseAssumption DEF DatabaseInvariant, Unopened, IdleHasNoOperation
    <2>4. Cardinality(Users) # 0
      BY CountsAreNat, FS_EmptySet
    <2>5. refs > 0
      BY <1>1, <2>1, <2>3, <2>4, CountsAreNat DEF DatabaseInvariant, ReferencesCounted
    <2> QED  BY <1>1, <2>3, <2>5 DEF DatabaseInvariant, DisposedUnreferenced
  <1> QED  BY <1>1, DatabaseInvariantHolds, PTL

\* The database and its pool never disagree on the configuration, whatever
\* reconfigure throws (reopenReadWrite, the setters of foreign keys and WAL).
THEOREM ConfigurationsAlwaysAgree == Spec => []ConfigurationsAgree
  <1>1. DatabaseInvariant => ConfigurationsAgree
    BY DEF DatabaseInvariant
  <1> QED  BY <1>1, DatabaseInvariantHolds, PTL

\* Write-ahead logging is never enabled while a database is attached
\* (enableWriteAheadLogging, executeSql), whichever thread attaches it.
THEOREM WalRefusedOnAttached == Spec => WalNotEnabledOnAttached
  <1>1. Init => AttachedIsFlagged
    BY DatabaseAssumption DEF Init, AttachedIsFlagged, Referencing
  <1>2. DatabaseInvariant /\ AttachedIsFlagged /\ [Next]_vars => AttachedIsFlagged'
    BY FlagStep
  <1>3. ASSUME DatabaseInvariant, AttachedIsFlagged, [Next]_vars
        PROVE  [config'.wal /\ ~config.wal => ~attached]_vars
    <2> SUFFICES ASSUME config'.wal, ~config.wal PROVE ~attached
      OBVIOUS
    <2>1. config \in Configurations
      BY <1>3 DEF DatabaseInvariant, TypeOK
    <2>2. config' # config
      OBVIOUS
    <2>3. CASE \E t \in Thread : Configure(t)
      <3>1. PICK k \in Configurations : Setter(k) /\ config' \in {k, config}
        BY <2>3 DEF Configure, Applied, NotApplied, RolledBack
      <3>2. k.wal
        BY <2>2, <3>1
      <3>3. MayEnableWal
        <4>1. k # [config EXCEPT !.readOnly = FALSE]
          BY <2>1, <3>2 DEF Configurations
        <4>2. k # [config EXCEPT !.foreignKeys = ~@]
          BY <2>1, <3>2 DEF Configurations
        <4> QED  BY <3>1, <4>1, <4>2 DEF Setter
      <3> QED  BY <1>3, <3>3 DEF MayEnableWal, AttachedIsFlagged
    <2>4. CASE \E t \in Thread : AttachDisablesWal(t)
      <3>1. config' \in {config, [config EXCEPT !.wal = FALSE]}
        BY <2>4 DEF AttachDisablesWal, Applied, NotApplied, RolledBack
      <3> QED  BY <2>1, <2>2, <3>1 DEF Configurations
    <2>5. CASE /\ ~\E t \in Thread : Configure(t)
               /\ ~\E t \in Thread : AttachDisablesWal(t)
      <3>1. config' = config
        BY <1>3, <2>5 DEF Next, Open, OpenInner, OpenCorrupt, OpenFails, BeginOperation, BeginEnd,
          BeginStatement, Begin, Close, Proceed, AttachFlag, Execute, ExecuteRefused, Run,
          RunThrows, Leave, Handler, HandlerIsOpen, HandlerGetAttached, HandlerList, HandlerClose,
          Dispose, ClosePool, handlerVars, configVars, vars
      <3> QED  BY <2>2, <3>1
    <2> QED  BY <2>3, <2>4, <2>5
  <1> QED
    BY <1>1, <1>2, <1>3, DatabaseInvariantHolds, PTL DEF Spec, WalNotEnabledOnAttached

=============================================================================
