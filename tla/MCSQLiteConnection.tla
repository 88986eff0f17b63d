------------------------ MODULE MCSQLiteConnection ------------------------
(* Instances of SQLiteConnection for TLC. *)
EXTENDS SQLiteConnection, TLC

CONSTANTS q1, q2, q3, p1, p2, p3, p4, g1, g2

Symmetry == Permutations(Stmt) \cup Permutations(Signal)
===========================================================================
