----------------------------- MODULE MCPlayers -----------------------------
(***************************************************************************)
(* The writers of the two kinds of players, each on its own: VirWriter of  *)
(* an RTMP player and FLVWriter of an HTTP-FLV player.                     *)
(***************************************************************************)
EXTENDS PacketWriter, FlvWriter

VARIABLE player

PlayersInit == player \in {"rtmp", "flv"} /\ Init /\ FlvInit /\ (player = "rtmp" => ~fclosed)

PlayersNext ==
    \/ player = "rtmp" /\ Next /\ UNCHANGED <<flvVars, player>>
    \/ player = "flv" /\ FlvNext /\ UNCHANGED <<vars, player>>

PlayersSpec ==
    /\ PlayersInit /\ [][PlayersNext]_<<vars, flvVars, player>>
    /\ (player = "rtmp" => Fairness) /\ (player = "flv" => FlvFairness)
=============================================================================
