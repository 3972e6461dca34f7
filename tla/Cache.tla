------------------------------- MODULE Cache -------------------------------
(***************************************************************************)
(* The packet cache of a stream: Cache, SpecialCache and GopCache of       *)
(* src/protocol/rtmp/cache/.  The kind of a packet is what its header      *)
(* says: "meta"; "aacseq" and "audio"; "seq", "key" and "inter".  A packet *)
(* whose header cannot be parsed keeps the header of the packet before it  *)
(* (TransStart reuses p), so it also has one of these kinds.               *)
(***************************************************************************)
EXTENDS Integers, Sequences

CONSTANTS
    Packets,    \* the packets a publisher may send: records with a kind
    GopNum,     \* configuration gop_num
    MaxGopCap   \* maxGOPCap

Kinds == {"meta", "aacseq", "audio", "seq", "key", "inter"}

ASSUME CacheAssumption ==
    /\ GopNum \in Nat /\ MaxGopCap \in Nat \ {0}
    /\ Packets \subseteq [kind : Kinds, id : Nat \ {0}]

VARIABLES
    meta, vseq, aseq,  \* the packets of the three SpecialCaches
    start,             \* GopCache.start
    num,               \* GopCache.num
    nextindex,         \* GopCache.nextindex
    gops,              \* GopCache.gops; <<>> stands for a nil array
    panicked           \* an index or nil dereference has killed the process

specialVars == <<meta, vseq, aseq>>
gopVars     == <<start, num, nextindex, gops>>
cacheVars   == <<specialVars, gopVars, panicked>>

NoPacket == [kind |-> "none", id |-> 0]
Slots    == 0 .. GopNum - 1

Init ==
    /\ meta = NoPacket /\ vseq = NoPacket /\ aseq = NoPacket
    /\ start = FALSE /\ num = 0 /\ nextindex = 0
    /\ gops = [i \in Slots |-> <<>>]
    /\ panicked = FALSE

---------------------------------------------------------------------------
(* GopCache                                                                *)

\* Mutant: the slot that is filled next.
CurrentSlotNext == nextindex

\* The slot writeToArray appends to: right for one slot and for two.
CurrentSlot == (nextindex + 1) % GopNum

\* array.write: a full array ignores the packet, and so does its caller.
ArrayWrite(array, p) == IF Len(array) >= MaxGopCap THEN array ELSE Append(array, p)

\* writeToArray(chunk, true): a key frame starts a group of pictures in the
\* next slot, which is created or reset.
StartGop(p) ==
    /\ gops' = [gops EXCEPT ![nextindex] = ArrayWrite(<<>>, p)]
    /\ num' = IF gops[nextindex] = <<>> THEN num + 1 ELSE num
    /\ nextindex' = (nextindex + 1) % GopNum

\* writeToArray(chunk, false).
ExtendGop(p) ==
    /\ gops' = [gops EXCEPT ![CurrentSlot] = ArrayWrite(@, p)]
    /\ UNCHANGED <<num, nextindex>>

\* GopCache.Write.  An index out of range (no slots) or the nil array of a
\* slot that was never used is a panic.
GopWrite(p) ==
    LET key == p.kind = "key" IN
    IF ~key /\ ~start THEN UNCHANGED <<gopVars, panicked>>
    ELSE IF GopNum = 0 \/ (~key /\ gops[CurrentSlot] = <<>>)
         THEN panicked' = TRUE /\ start' = TRUE /\ UNCHANGED <<num, nextindex, gops>>
         ELSE /\ start' = TRUE
              /\ IF key THEN StartGop(p) ELSE ExtendGop(p)
              /\ UNCHANGED panicked

\* Mutant: counted back from the slot that is filled next.
SendIndexNext(i) ==
    LET index == (nextindex - num + 1) + i
    IN IF index < 0 THEN index + GopNum ELSE index

\* GopCache.sendTo: the slot of the i-th array it sends.
SendIndex(i) ==
    LET index == (CurrentSlot - num + 1) + i
    IN IF index < 0 THEN index + GopNum ELSE index

\* The groups of pictures in the order in which sendTo sends them.
SendOrder == [i \in 1 .. num |-> gops[SendIndex(i - 1)]]

---------------------------------------------------------------------------
(* Cache.Write                                                             *)

WriteMeta(p) ==
    /\ p.kind = "meta" /\ meta' = p
    /\ UNCHANGED <<vseq, aseq, gopVars, panicked>>

\* Of the audio packets only the AAC sequence header is cached.
WriteAudio(p) ==
    /\ \/ p.kind = "aacseq" /\ aseq' = p
       \/ p.kind = "audio" /\ UNCHANGED aseq
    /\ UNCHANGED <<meta, vseq, gopVars, panicked>>

\* Mutant: the sequence header is not cached.
WriteVideoNoSeq(p) ==
    \/ p.kind = "seq" /\ UNCHANGED <<vseq, meta, aseq, gopVars, panicked>>
    \/ p.kind \in {"key", "inter"} /\ GopWrite(p) /\ UNCHANGED specialVars

WriteVideo(p) ==
    \/ p.kind = "seq" /\ vseq' = p /\ UNCHANGED <<meta, aseq, gopVars, panicked>>
    \/ p.kind \in {"key", "inter"} /\ GopWrite(p) /\ UNCHANGED specialVars

Write(p) == ~panicked /\ (WriteMeta(p) \/ WriteAudio(p) \/ WriteVideo(p))

Next == \E p \in Packets : Write(p)

Spec == Init /\ [][Next]_cacheVars

---------------------------------------------------------------------------
(* Properties                                                              *)

\* The variables have the types the code gives them.
TypeOK ==
    /\ {meta, vseq, aseq} \subseteq Packets \cup {NoPacket}
    /\ start \in BOOLEAN /\ panicked \in BOOLEAN
    /\ num \in 0 .. GopNum
    /\ nextindex \in 0 .. GopNum
    /\ gops \in [Slots -> Seq(Packets)]

\* The ring of slots implements the sequence of the last GopNum groups.
Promise == INSTANCE CacheSpec WITH recent <- SendOrder
CacheRefines == Promise!CacheSafe

\* writeToArray never meets a nil array or an index out of range.  "gop num"
\* (configure/liveconfig.go:134) may be configured to any number.
NoPanic == ~panicked
=============================================================================
