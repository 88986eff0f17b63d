---------------------- MODULE MCSQLiteConnectionPool ----------------------
(* Instances of SQLiteConnectionPool for TLC. *)
EXTENDS SQLiteConnectionPool, TLC

CONSTANTS t1, t2, t3, w1, w2, w3, c1, c2, c3, c4

Symmetry == Permutations(Thread) \cup Permutations(Waiter) \cup Permutations(Conn)

Config(wal, openFlags, foreignKeys, parameters) ==
  [wal |-> wal, openFlags |-> openFlags, foreignKeys |-> foreignKeys,
   parameters |-> parameters]

WalOnly == {Config(TRUE, "rw", FALSE, 1)}
NoWal == {Config(FALSE, "rw", FALSE, 1)}
\* WAL mode on and off, foreign keys on and off, other parameters old and new.
Reconfigured ==
  {Config(TRUE, "rw", FALSE, i) : i \in 1..2} \cup
  {Config(FALSE, "rw", fk, 1) : fk \in BOOLEAN}
\* A read-only database is reopened for writing, then gets other parameters.
Reopened == {Config(TRUE, "ro", FALSE, 1)} \cup {Config(TRUE, "rw", FALSE, i) : i \in 1..2}
AllConfigs == Reconfigured \cup Reopened

\* All switches but back to reading only, or none.
AnySwitch == AllConfigs \X Reconfigured
NoSwitch == {}

Request(wantPrimary, priority, cancellable) ==
  [wantPrimary |-> wantPrimary, priority |-> priority, cancellable |-> cancellable]

CancellablePrimary == {Request(TRUE, 0, TRUE)}
PlainRequests == {Request(p, 0, FALSE) : p \in BOOLEAN}
CancellableRequests == {Request(p, 0, TRUE) : p \in BOOLEAN}
MixedPriorities == {Request(p, i, FALSE) : p \in BOOLEAN, i \in 0..1}
===========================================================================
