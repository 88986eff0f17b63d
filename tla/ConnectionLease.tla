-------------------------- MODULE ConnectionLease --------------------------
(***************************************************************************)
(* What a connection pool promises its sessions, whatever it does inside   *)
(* (the contract of acquireConnection, releaseConnection and close in      *)
(* SQLiteConnectionPool.java): a lease is given to one session at a time,  *)
(* only to a session that asked for it, a primary connection to who asked  *)
(* for one, and only while the pool is open; a lease that was put down but *)
(* not picked up when the pool closes is void.                             *)
(***************************************************************************)
CONSTANTS Thread, Conn, None

VARIABLES
  isOpen,
  phase,          \* of each session: idle, waiting, granted or holding
  wantsPrimary,   \* sessions that wait for the primary connection
  lease,          \* the connection granted to, or held by, each session
  primaryLeases   \* the leased connections that are primary

vars == <<isOpen, phase, wantsPrimary, lease, primaryLeases>>

Leased == {lease[t] : t \in Thread} \ {None}

Init ==
  /\ isOpen = TRUE
  /\ phase = [t \in Thread |-> "idle"]
  /\ wantsPrimary = {}
  /\ lease = [t \in Thread |-> None]
  /\ primaryLeases = {}

\* Lease c to t; isPrimary says which kind of connection c is.
Give(t, c, isPrimary) ==
  /\ isOpen
  /\ c \in Conn \ Leased
  /\ lease' = [lease EXCEPT ![t] = c]
  /\ primaryLeases' = IF isPrimary THEN primaryLeases \cup {c} ELSE primaryLeases

\* End the lease of t.
TakeBack(t) ==
  /\ phase' = [phase EXCEPT ![t] = "idle"]
  /\ lease' = [lease EXCEPT ![t] = None]
  /\ primaryLeases' = primaryLeases \ {lease[t]}

GrantAtOnce(t, c, isPrimary) ==
  /\ phase[t] = "idle"
  /\ Give(t, c, isPrimary)
  /\ phase' = [phase EXCEPT ![t] = "holding"]
  /\ UNCHANGED <<isOpen, wantsPrimary>>

Ask(t, needsPrimary) ==
  /\ isOpen
  /\ phase[t] = "idle"
  /\ phase' = [phase EXCEPT ![t] = "waiting"]
  /\ wantsPrimary' = IF needsPrimary THEN wantsPrimary \cup {t} ELSE wantsPrimary
  /\ UNCHANGED <<isOpen, lease, primaryLeases>>

Grant(t, c, isPrimary) ==
  /\ phase[t] = "waiting"
  /\ t \in wantsPrimary => isPrimary
  /\ Give(t, c, isPrimary)
  /\ phase' = [phase EXCEPT ![t] = "granted"]
  /\ wantsPrimary' = wantsPrimary \ {t}
  /\ UNCHANGED isOpen

PickUp(t) ==
  /\ isOpen
  /\ phase[t] = "granted"
  /\ phase' = [phase EXCEPT ![t] = "holding"]
  /\ UNCHANGED <<isOpen, wantsPrimary, lease, primaryLeases>>

\* The wait ends with an exception.
Refuse(t) ==
  /\ phase[t] = "waiting"
  /\ phase' = [phase EXCEPT ![t] = "idle"]
  /\ wantsPrimary' = wantsPrimary \ {t}
  /\ UNCHANGED <<isOpen, lease, primaryLeases>>

\* The pool was closed before the lease was picked up.
Void(t) ==
  /\ ~isOpen
  /\ phase[t] = "granted"
  /\ TakeBack(t)
  /\ UNCHANGED <<isOpen, wantsPrimary>>

Return(t) ==
  /\ phase[t] = "holding"
  /\ TakeBack(t)
  /\ UNCHANGED <<isOpen, wantsPrimary>>

Close ==
  /\ isOpen
  /\ isOpen' = FALSE
  /\ UNCHANGED <<phase, wantsPrimary, lease, primaryLeases>>

Next ==
  \/ Close
  \/ \E t \in Thread :
       \/ \E c \in Conn, p \in BOOLEAN : GrantAtOnce(t, c, p) \/ Grant(t, c, p)
       \/ \E p \in BOOLEAN : Ask(t, p)
       \/ PickUp(t) \/ Refuse(t) \/ Void(t) \/ Return(t)

Spec == Init /\ [][Next]_vars

=============================================================================
