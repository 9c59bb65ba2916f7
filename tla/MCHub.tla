------------------------------- MODULE MCHub -------------------------------
(* Instances of Hub for TLC.                                               *)
EXTENDS Hub, TLC

CONSTANTS c1, c2, c3

OwnSession == [c \in Conn |-> c]  \* one tab each

Symmetry == Permutations(Conn)

\* The state after every connection has opened and read its hello_ok: runs
\* about rooms and messages start here and spend their bound on requests.
ConnectedInit ==
  /\ registered = Conn /\ open = Conn
  /\ rooms = [r \in Room |-> {}]
  /\ roomID = [c \in Conn |-> NoRoom]
  /\ pc = [c \in Conn |-> "reading"]
  /\ CallsInit /\ ReaderInit /\ PageInit /\ DownInit

ConnectedSpec == ConnectedInit /\ [][Next]_vars

\* They have also joined a room, one after the other.
Seated(r) ==
  /\ registered = Conn /\ open = Conn
  /\ rooms = [x \in Room |-> IF x = r THEN Conn ELSE {}]
  /\ roomID = [c \in Conn |-> r]
  /\ pc = [c \in Conn |-> "reading"]
  /\ ReaderInit /\ DownInit
  /\ view = [c \in Conn |-> {SessionOf[d] : d \in Conn}]
  /\ heard = [c \in Conn |-> <<>>]
  /\ owed = [c \in Conn |-> {}]
  /\ issued = 0

\* Members of a room between whom nothing has happened yet.
SeatedInit ==
  \E r \in Room : Seated(r) /\ CallsInit /\ numbered = 0 /\ begun = [k \in CallId |-> 0]

\* Members of a room whose calls ring: somebody else started them and left. The
\* rooms being alike, one will do.
RingingInit ==
  LET r == CHOOSE x \in Room : TRUE IN
  /\ Seated(r)
  /\ calls = [k \in CallId |-> [room |-> r, state |-> "ringing"]]
  /\ numbered = 1 /\ begun = [k \in CallId |-> 1]

FairSeatedSpec == SeatedInit /\ [][Next]_vars /\ Fairness
RingingSpec == RingingInit /\ [][Next]_vars
=============================================================================
