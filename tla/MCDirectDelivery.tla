--------------------------- MODULE MCDirectDelivery ---------------------------
(* Instances of DirectDelivery for TLC. *)
EXTENDS DirectDelivery, TLC

\* What may go wrong in an instance.
Losses == ({"drop", "reload"} \X Side) \cup {<<"throw", "receiver">>}
SenderDrops == {<<"drop", "sender">>}

PassSymmetry == Permutations(Passes)

\* Two passes overlap only while both sides are connected, no third is due and
\* the receiver rests; answers and receipts come to the sender all the same.
QuietOverlap ==
  (\A h \in Passes : pass[h] # {}) =>
    /\ \A s \in Side : link[s] /\ held[s] = <<>>
    /\ ~reopening /\ down["receiver"] = <<>>
    /\ \A m \in Message : opening[m] + storing[m] = 0
=============================================================================
