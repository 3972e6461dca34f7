------------------------------- MODULE TsMux -------------------------------
(***************************************************************************)
(* The MPEG-TS muxer, src/container/ts/muxer.go: Mux cuts the PES packet   *)
(* of a frame into TS packets of 188 bytes in one buffer, whose bytes stay *)
(* from packet to packet; PAT and PMT have counters of their own.          *)
(* A byte is a number below 256, or stands for a byte of the PES header,   *)
(* of the frame or of an earlier frame.                                    *)
(***************************************************************************)
EXTENDS Integers, Sequences

CONSTANTS
    Frames,      \* frames: [video, key, dts (their PES header has a DTS), len]
    MaxFrames    \* bound: calls of Mux

ASSUME TsAssumption == Frames \subseteq [video : BOOLEAN, key : BOOLEAN, dts : BOOLEAN, len : Nat]

TsLen   == 188
DataLen == 184
HdrByte(i)   == 1000 + i
FrameByte(i) == 10000 + i
Stale        == 999
Fill(n, b)   == [i \in 1 .. n |-> b]
Less(a, b)   == IF a < b THEN a ELSE b

VARIABLES
    cc,       \* videoCc and audioCc
    patCc, pmtCc,
    tsBuf,    \* tsPacket after its first four bytes, in Mux: byte i is at i - 3
    frame,    \* the packet that Mux is called with, and ...
    hdr, data,\* ... how much of its PES header and of its data is written
    muxing,   \* Mux has not returned
    payload,  \* history: what a demuxer takes for the payload of its packets
    inOrder,  \* history: counters and unit start indicators have been right
    tables,   \* history: the counter in the last PAT
    calls

tsVars == <<cc, patCc, pmtCc, tsBuf, frame, hdr, data, muxing, payload, inOrder, tables, calls>>

TsInit ==
    /\ cc = [v |-> 0, a |-> 0] /\ patCc = 0 /\ pmtCc = 0
    /\ tsBuf = <<>>
    /\ frame = [video |-> FALSE, key |-> FALSE, dts |-> FALSE, len |-> 0]
    /\ hdr = 0 /\ data = 0 /\ muxing = FALSE /\ payload = <<>>
    /\ inOrder = TRUE /\ tables = -1 /\ calls = 0

\* The length of the PES header: pts, and dts when they differ.
PesLen(f) == IF f.video /\ f.dts THEN 19 ELSE 14

\* The buffer with the given bytes copied to index `at`, as far as it goes.
Copied(buf, at, bytes) ==
    SubSeq(buf, 1, at - 4) \o SubSeq(bytes, 1, Less(Len(bytes), TsLen - at))
        \o SubSeq(buf, at + Len(bytes) - 3, DataLen)

\* adaptationBufInit writes its length - 1, flags and stuffing to the end.
Stuffed(buf, at, n) ==
    Copied(buf, at, <<(n - 1) % 256>> \o (IF n = 1 THEN <<>> ELSE <<0>> \o Fill(TsLen - at - 2, 255)))

\* The adaptation field with the PCR.
WithPcr(buf) == Copied(buf, 4, <<7, 80>> \o Fill(6, 0))

\* The packet still has bytes of earlier frames.
MuxStart(f) ==
    /\ ~muxing /\ calls < MaxFrames /\ tsBuf' = Fill(DataLen, Stale)
    /\ frame' = f /\ hdr' = 0 /\ data' = 0 /\ muxing' = TRUE /\ payload' = <<>> /\ calls' = calls + 1
    /\ UNCHANGED <<cc, patCc, pmtCc, inOrder, tables>>

\* Mutant: the PCR takes no room.
FirstRoomFull(i) == DataLen

\* What the first packet has room for.
FirstRoom(i) == DataLen - (i - 4)

NextCounter(n) == (n + 1) % 16

\* What a demuxer takes for the payload.
PayloadOf(adapt, body) == SubSeq(body, IF adapt THEN 2 + body[1] ELSE 1, DataLen)

\* One round of the loop in Mux.  Lengths and indices are bytes.
MuxPacket ==
    LET k     == IF frame.video THEN "v" ELSE "a"
        pes   == PesLen(frame)
        first == hdr = 0
        left  == pes + frame.len - hdr - data
        pcr   == first /\ frame.video /\ frame.key
        i0    == IF pcr THEN 12 ELSE 4
        full  == left >= DataLen
        room  == IF first THEN FirstRoom(i0) ELSE DataLen
        stuff == (room - left) % 256
        i1    == IF full THEN i0 ELSE (i0 + stuff) % 256
        h     == IF first /\ i1 < TsLen THEN Less(pes, TsLen - i1) ELSE 0
        i2    == i1 + h
        d     == IF i2 < TsLen THEN Less(TsLen - i2, ((IF full THEN room ELSE left) - h) % 256) ELSE 0
        buf0  == IF pcr THEN WithPcr(tsBuf) ELSE tsBuf
        buf1  == IF full THEN buf0 ELSE Stuffed(buf0, i0, stuff)
        buf2  == Copied(buf1, i1, [j \in 1 .. h |-> HdrByte(j - 1)])
    IN
    /\ muxing /\ left > 0
    /\ tsBuf' = Copied(buf2, i2, [j \in 1 .. d |-> FrameByte(data + j - 1)])
    /\ hdr' = hdr + h /\ data' = data + d
    /\ cc' = [cc EXCEPT ![k] = NextCounter(@)]
    /\ payload' = payload \o PayloadOf(pcr \/ ~full, tsBuf')
    /\ inOrder' = (inOrder /\ cc'[k] = (cc[k] + 1) % 16 /\ first = (payload = <<>>))
    /\ UNCHANGED <<patCc, pmtCc, frame, muxing, tables, calls>>

MuxReturns ==
    /\ muxing /\ hdr + data = PesLen(frame) + frame.len
    /\ muxing' = FALSE /\ tsBuf' = <<>>
    /\ UNCHANGED <<cc, patCc, pmtCc, frame, hdr, data, payload, inOrder, tables, calls>>

\* PAT and PMT count to 15 and start again at 0.
WrapAt(n) == IF n > 15 THEN 0 ELSE n

PatPmt ==
    /\ ~muxing
    /\ tables' = WrapAt(patCc)
    /\ inOrder' = (inOrder /\ (tables = -1 \/ tables' = (tables + 1) % 16) /\ WrapAt(pmtCc) = tables')
    /\ patCc' = WrapAt(patCc) + 1 /\ pmtCc' = WrapAt(pmtCc) + 1
    /\ UNCHANGED <<cc, tsBuf, frame, hdr, data, muxing, payload, calls>>

TsNext == PatPmt \/ MuxPacket \/ MuxReturns \/ \E f \in Frames : MuxStart(f)

TsSpec == TsInit /\ [][TsNext]_tsVars

---------------------------------------------------------------------------
(* Properties                                                              *)

\* A key frame whose PES packet is smaller than a TS packet: the stuffing is
\* put after the adaptation field that has the PCR (line 125) and is taken for
\* payload; or its length is negative, the index wraps at 256, and the PES
\* header is written over the PCR.  It works if there is nothing to stuff.
SmallKey(f) == f.video /\ f.key /\ PesLen(f) + f.len < DataLen /\ PesLen(f) + f.len # DataLen - 8

\* A demuxer gets the PES packet back, the header and then every byte of the
\* frame once and in order, whatever the length of the frame - exactly if it is
\* no small key frame.
PesComesBack ==
    calls > 0 /\ ~muxing =>
        (payload = [i \in 1 .. PesLen(frame) |-> HdrByte(i - 1)] \o [i \in 1 .. frame.len |-> FrameByte(i - 1)])
        = ~SmallKey(frame)

\* The continuity counters go up by one, modulo 16, from packet to packet of a
\* stream and from table to table, and a frame starts a unit once.
Continuity == inOrder

\* A demuxer that checks counters gets every frame that Mux is given.
TsArrives == PesComesBack /\ Continuity
=============================================================================
