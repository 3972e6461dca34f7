------------------------------ MODULE MCFanout ------------------------------
(* Instances of Fanout for TLC.  TLC itself comes with SequencesExt.       *)
EXTENDS Fanout

FanPackets == [kind : Kinds, id : 1 .. MaxPackets]

Symmetry == Permutations(Players)
=============================================================================
