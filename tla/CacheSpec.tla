----------------------------- MODULE CacheSpec -----------------------------
(***************************************************************************)
(* What the packet cache of a stream promises to a player that joins it:   *)
(* the latest metadata and sequence headers, and the last GopNum groups of *)
(* pictures, oldest first, each cut off after MaxGopCap packets.           *)
(***************************************************************************)
EXTENDS Integers, Sequences

CONSTANTS
    Packets,    \* the packets a publisher may send: records with a kind
    GopNum,     \* configuration gop_num
    MaxGopCap   \* maxGOPCap

VARIABLES meta, vseq, aseq,
          recent   \* the groups of pictures, oldest first

specVars == <<meta, vseq, aseq, recent>>

NoPacket == [kind |-> "none", id |-> 0]

SpecInit ==
    /\ meta = NoPacket /\ vseq = NoPacket /\ aseq = NoPacket
    /\ recent = <<>>

Newest(gops) == IF Len(gops) > GopNum THEN Tail(gops) ELSE gops

SpecMeta(p) == p.kind = "meta" /\ meta' = p /\ UNCHANGED <<vseq, aseq, recent>>
SpecVideoSeq(p) == p.kind = "seq" /\ vseq' = p /\ UNCHANGED <<meta, aseq, recent>>
SpecAudioSeq(p) == p.kind = "aacseq" /\ aseq' = p /\ UNCHANGED <<meta, vseq, recent>>

SpecKey(p) ==
    /\ p.kind = "key"
    /\ recent' = Newest(Append(recent, <<p>>))
    /\ UNCHANGED <<meta, vseq, aseq>>

SpecInter(p) ==
    /\ p.kind = "inter"
    /\ recent # <<>> /\ Len(recent[Len(recent)]) < MaxGopCap
    /\ recent' = [recent EXCEPT ![Len(recent)] = Append(@, p)]
    /\ UNCHANGED <<meta, vseq, aseq>>

SpecNext ==
    \E p \in Packets :
        SpecMeta(p) \/ SpecVideoSeq(p) \/ SpecAudioSeq(p) \/ SpecKey(p) \/ SpecInter(p)

CacheSafe == SpecInit /\ [][SpecNext]_specVars
=============================================================================
