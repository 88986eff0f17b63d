-------------------------- MODULE MCSQLiteSession --------------------------
(* Instances of SQLiteSession for TLC. *)
EXTENDS SQLiteSession

CONSTANTS s1, s2, c1, c2, d1, d2

Symmetry == Permutations(Session) \cup Permutations(Data)

Transaction(mode, listener, primary) ==
  [mode |-> mode, listener |-> listener, primary |-> primary]

\* As SQLiteDatabase begins them (which asks for the primary connection), and
\* as sessions may begin them.
ListenedAndNot ==
  {Transaction("immediate", TRUE, TRUE), Transaction("deferred", FALSE, FALSE)}
Listened == {Transaction("immediate", TRUE, TRUE)}
===========================================================================
