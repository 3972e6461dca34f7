----------------------------- MODULE MCRoomKeys -----------------------------
(* Requests of all kinds for one or two rooms.                             *)
EXTENDS RoomKeys, TLC

Symmetry == Permutations(Requests) \cup Permutations(Keys)
=============================================================================
