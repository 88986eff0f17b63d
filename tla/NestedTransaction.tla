------------------------- MODULE NestedTransaction -------------------------
(***************************************************************************)
(* What explicit transactions promise (the class comment of                *)
(* SQLiteSession.java): each session has transactions of its own, nested   *)
(* to any depth; what was written inside reaches the database all at once  *)
(* when the outermost transaction ends, and only if every transaction of   *)
(* the nest was marked successful, or not at all.  A yield publishes what  *)
(* was written so far, under the same condition but for the mark.          *)
(***************************************************************************)
EXTENDS Naturals

CONSTANTS Session, Data

VARIABLES
  disk,     \* what the database holds
  depth,    \* of each session: how many transactions are open
  marked,   \* the levels marked successful
  doomed,   \* sessions whose transaction can only be rolled back
  yielding, \* sessions that are giving way to others
  work      \* written and not yet committed

vars == <<disk, depth, marked, doomed, yielding, work>>

Init ==
  /\ disk = {}
  /\ depth = [s \in Session |-> 0]
  /\ marked = [s \in Session |-> {}]
  /\ doomed = {}
  /\ yielding = {}
  /\ work = [s \in Session |-> {}]

Begin(s) ==
  /\ depth' = [depth EXCEPT ![s] = @ + 1]
  /\ UNCHANGED <<disk, marked, doomed, yielding, work>>

Write(s, d) ==
  /\ depth[s] > 0
  /\ work' = [work EXCEPT ![s] = @ \cup {d}]
  /\ UNCHANGED <<disk, depth, marked, doomed, yielding>>

\* A write outside any explicit transaction is a transaction of its own.
WriteAlone(s, d) ==
  /\ depth[s] = 0
  /\ disk' = disk \cup {d}
  /\ UNCHANGED <<depth, marked, doomed, yielding, work>>

Mark(s) ==
  /\ depth[s] > 0
  /\ marked' = [marked EXCEPT ![s] = @ \cup {depth[s]}]
  /\ UNCHANGED <<disk, depth, doomed, yielding, work>>

\* The nest fails: a listener throws, or the session decides to roll back.
Doom(s) ==
  /\ depth[s] > 0
  /\ doomed' = doomed \cup {s}
  /\ \E m \in SUBSET marked[s] : marked' = [marked EXCEPT ![s] = m]
  /\ UNCHANGED <<disk, depth, yielding, work>>

\* A listener may have a veto.
EndNested(s) ==
  /\ depth[s] > 1
  /\ depth' = [depth EXCEPT ![s] = @ - 1]
  /\ marked' = [marked EXCEPT ![s] = @ \ {depth[s]}]
  /\ \/ doomed' = doomed \cup {s}
     \/ depth[s] \in marked[s] /\ doomed' = doomed
  /\ UNCHANGED <<disk, yielding, work>>

\* To yield: not out of a nested transaction, nor after the mark.
GiveWay(s) ==
  /\ depth[s] = 1
  /\ 1 \notin marked[s]
  /\ yielding' = yielding \cup {s}
  /\ UNCHANGED <<disk, depth, marked, doomed, work>>

\* Nothing of the transaction is left.
Close(s) ==
  /\ depth[s] = 1
  /\ depth' = [depth EXCEPT ![s] = 0]
  /\ marked' = [marked EXCEPT ![s] = {}]
  /\ doomed' = doomed \ {s}
  /\ yielding' = yielding \ {s}
  /\ work' = [work EXCEPT ![s] = {}]

Commit(s) ==
  /\ 1 \in marked[s] \/ s \in yielding
  /\ s \notin doomed
  /\ disk' = disk \cup work[s]
  /\ Close(s)

Rollback(s) == Close(s) /\ UNCHANGED disk

Next ==
  \E s \in Session :
    \/ Begin(s) \/ Mark(s) \/ Doom(s) \/ EndNested(s) \/ GiveWay(s)
    \/ Commit(s) \/ Rollback(s)
    \/ \E d \in Data : Write(s, d) \/ WriteAlone(s, d)

Spec == Init /\ [][Next]_vars

=============================================================================
