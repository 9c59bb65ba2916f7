------------------------------ MODULE CallLife ------------------------------
(***************************************************************************)
(* What the server promises about a call: it rings once, it may be         *)
(* answered while it rings, it is over for good, and a voice is passed on  *)
(* only in a call that is answered.                                        *)
(***************************************************************************)
CONSTANT Call

VARIABLES
  life,   \* how far a call has got
  voiced  \* calls in which a voice was passed on

Init == life = [k \in Call |-> "new"] /\ voiced = {}

Ring(k) ==
  /\ life[k] = "new"
  /\ life' = [life EXCEPT ![k] = "ringing"]
  /\ UNCHANGED voiced

Answer(k) ==
  /\ life[k] = "ringing"
  /\ life' = [life EXCEPT ![k] = "answered"]
  /\ UNCHANGED voiced

\* Several calls are over at once when the server stops.
Over(calls) ==
  /\ \A k \in calls : life[k] \in {"ringing", "answered"}
  /\ life' = [k \in Call |-> IF k \in calls THEN "over" ELSE life[k]]
  /\ UNCHANGED voiced

Voice(k) ==
  /\ life[k] = "answered"
  /\ voiced' = voiced \cup {k}
  /\ UNCHANGED life

Next ==
  \/ \E calls \in SUBSET Call : Over(calls)
  \/ \E k \in Call : Ring(k) \/ Answer(k) \/ Voice(k)

Spec == Init /\ [][Next]_<<life, voiced>>
=============================================================================
