-------------------------- MODULE MCSQLiteCursor --------------------------
(* Instances of SQLiteCursor for TLC. *)
EXTENDS SQLiteCursor
===========================================================================
