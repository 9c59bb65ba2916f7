------------------------------ MODULE MCRoomRelay ------------------------------
(* Instances of RoomRelay for TLC. *)
EXTENDS RoomRelay

\* Neither pages nor rooms are told apart by the specification.
Symmetry == Permutations(Page) \cup Permutations(Room)
=============================================================================
