---------------------------- MODULE AccountSeats ----------------------------
(***************************************************************************)
(* What the account server promises about sign-in: a user has one seat at  *)
(* a time, a sign-in takes it with a session id never used before, and the *)
(* connections that may act for the user are connections of that seat.     *)
(***************************************************************************)
CONSTANTS Conn, User, SessionId, None

VARIABLES
  seat,    \* the session that holds the user's seat, or None
  spent,   \* session ids that ever held a seat
  seated   \* the seat a connection acts for, or None

Init ==
  /\ seat = [u \in User |-> None]
  /\ spent = {}
  /\ seated = [c \in Conn |-> None]

\* A sign-in on c unseats every other connection of the user at once; c itself
\* may be too far gone to be seated.
Take(u, s, c) ==
  /\ s \notin spent
  /\ seat' = [seat EXCEPT ![u] = s]
  /\ spent' = spent \cup {s}
  /\ \E mine \in {s, None} :
       seated' = [d \in Conn |-> IF d = c THEN mine
                                 ELSE IF seated[d] = seat[u] THEN None ELSE seated[d]]

\* A connection comes back to a seat that is still held.
Resume(c, s) ==
  /\ \E u \in User : seat[u] = s
  /\ seated[c] \in {None, s}
  /\ seated' = [seated EXCEPT ![c] = s]
  /\ UNCHANGED <<seat, spent>>

\* Connections go, or are told to.
Vacate(gone) ==
  /\ seated' = [c \in Conn |-> IF c \in gone THEN None ELSE seated[c]]
  /\ UNCHANGED <<seat, spent>>

Next ==
  \/ \E u \in User, s \in SessionId, c \in Conn : Take(u, s, c)
  \/ \E c \in Conn, s \in SessionId : Resume(c, s)
  \/ \E gone \in SUBSET Conn : Vacate(gone)

vars == <<seat, spent, seated>>
Spec == Init /\ [][Next]_vars
=============================================================================
