----------------------------- MODULE MCPageCalls -----------------------------
(* Instances of PageCalls for TLC.                                         *)
EXTENDS PageCalls, TLC

Alike == Permutations(User) \cup Permutations(CallId)
=============================================================================
