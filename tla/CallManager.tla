---------------------------- MODULE CallManager ----------------------------
(***************************************************************************)
(* The table of calls being signalled (backend/internal/call/call.go).     *)
(* Every operation holds the manager's mutex from its first line to its    *)
(* last, so each is one step.  A call's kind, creator and timestamps are   *)
(* only echoed to browsers and are left out.                               *)
(***************************************************************************)
CONSTANTS
  Room,       \* room ids
  CallId,     \* call ids, drawn at random by the browsers
  NoCall      \* what a lookup of an absent call returns

VARIABLE calls  \* the manager's map from call id to call

\* The states a call can be moved to; "failed" exists but no request sets it.
Outcome == {"accepted", "rejected", "ended"}
Terminal == {"rejected", "ended", "failed"}

Call == [room : Room, state : {"ringing", "accepted"}]

CallsType == calls \in [CallId -> Call \cup {NoCall}]

CallsInit == calls = [k \in CallId |-> NoCall]

\* Manager.Start: an entry under the same id is overwritten.
StartCallEntry(k, r) ==
  calls' = [calls EXCEPT ![k] = [room |-> r, state |-> "ringing"]]

\* Mutant of TransitionCallEntry: an ended call keeps its entry.
TransitionCallEntry_Keep(k, s) == calls' = [calls EXCEPT ![k].state = s]

\* Manager.Transition of a call that is present: a terminal state deletes it.
TransitionCallEntry(k, s) ==
  calls' = [calls EXCEPT ![k] =
              IF s \in Terminal THEN NoCall ELSE [@ EXCEPT !.state = s]]
=============================================================================
