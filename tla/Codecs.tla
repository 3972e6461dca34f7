------------------------------- MODULE Codecs -------------------------------
(***************************************************************************)
(* What the HLS sender makes of a packet before it is muxed (SendPacket of *)
(* src/protocol/hls/source.go): the FLV tag header is taken off            *)
(* (src/container/flv), H.264 becomes an Annex B stream and AAC gets ADTS  *)
(* headers (src/parser), and audio gets an even clock                      *)
(* (src/protocol/hls/align.go).  The parsers keep the last parameter sets  *)
(* from packet to packet.  H.264 is a sequence of units [t, id]; the       *)
(* headers of ADTS are bytes.                                              *)
(***************************************************************************)
EXTENDS Integers, Sequences

CONSTANTS
    VideoPackets,  \* [t |-> "short" | "end" | "seq" | "annexb" | "nalus",
                   \*  units |-> <<[t, id, ok]>>], ok: its length is right
    AudioConfigs,  \* [obj, rate, ch] of AAC sequence headers
    AudioLens,     \* lengths of AAC frames
    Gaps,          \* ms from one audio packet to the next
    MaxMedia       \* bound: packets

NalUnits == [t : STRING, id : Nat \ {0}, ok : BOOLEAN]

\* A video header that has two sets has a sps and a pps.
ASSUME CodecAssumption ==
    /\ Gaps \subseteq Nat /\ AudioLens \subseteq Nat
    /\ AudioConfigs \subseteq [obj : 0 .. 31, rate : 0 .. 15, ch : 0 .. 15]
    /\ \A p \in VideoPackets :
         /\ p.units \in Seq(NalUnits)
         /\ p.t = "seq" /\ Len(p.units) >= 2 =>
              Len(p.units) = 2 /\ p.units[1].t = "sps" /\ p.units[2].t = "pps"

NoCfg == [obj |-> 0, rate |-> 0, ch |-> 0]

VARIABLES
    sender,    \* "runs", or SendPacket "ended" or "panicked"
    specific,  \* specificInfo of the H.264 parser: every header's sets
    gotAac, cfg, adts,  \* AAC: gettedSpecific, cfgInfo, bytes 2 to 5 of adtsHeader
    frameNum, frameBase, dts,  \* align and the dts of the last audio frame
    written,   \* bwriter: the units of the last video frame
    vlast,     \* history: the last video frame, if it was parsed
    latest,    \* history: the sets that the publisher sent last
    inband,    \* history: it has sent sets in a frame since the last header
    alen, atime, prev,  \* history: length and time of the last audio frame;
                        \* time and dts of the one before
    parsed

codecVars == <<sender, specific, gotAac, cfg, adts, frameNum, frameBase, dts, written, vlast, latest, inband,
               alen, atime, prev, parsed>>
audioVars == <<gotAac, cfg, adts, frameNum, frameBase, dts, alen, atime, prev>>
videoVars == <<specific, written, vlast, latest, inband>>

CodecInit ==
    /\ sender = "runs" /\ specific = <<>> /\ gotAac = FALSE /\ cfg = NoCfg /\ adts = <<0, 0, 0, 0>>
    /\ frameNum = 0 /\ frameBase = 0 /\ dts = 0
    /\ written = <<>> /\ vlast = <<>> /\ latest = [sps |-> 0, pps |-> 0] /\ inband = FALSE
    /\ alen = 0 /\ atime = 0 /\ prev = [time |-> 0, dts |-> 0] /\ parsed = 0

Packet == sender = "runs" /\ parsed < MaxMedia /\ parsed' = parsed + 1

---------------------------------------------------------------------------
(* Video                                                                   *)

\* The units up to the first one whose length is wrong.
Good(units) ==
    LET bad == {i \in DOMAIN units : ~units[i].ok}
    IN SubSeq(units, 1, IF bad = {} THEN Len(units) ELSE (CHOOSE i \in bad : \A j \in bad : i <= j) - 1)

\* The units of the given types, in order.
OfTypes(units, ts) ==
    LET of[i \in 0 .. Len(units)] ==
          IF i = 0 THEN <<>> ELSE IF units[i].t \in ts THEN Append(of[i - 1], units[i]) ELSE of[i - 1]
    IN of[Len(units)]

\* Mutant: the first header of the stream is used for ever.
ParseSpecificInfoOnce(u) == specific' = IF specific = <<>> THEN <<u[1], u[2]>> ELSE specific

\* parseSpecificInfo: the first sps; all that follows is taken for one pps; the
\* sets are added to those of earlier headers.
ParseSpecificInfo(u) == specific' = specific \o <<u[1], u[2]>>

\* The units that are written as they come.
Kept == {"idr", "slice", "sei"}

\* getAnnexbH264, but for the delimiter that is written first: sets of the
\* frame are held back and written before the first idr after them; if there
\* are none, specificInfo is.
Annexb(units) ==
    LET idrs == {i \in DOMAIN units : units[i].t = "idr"}
        at   == IF idrs = {} THEN 0 ELSE CHOOSE i \in idrs : \A j \in idrs : i <= j
        pps  == OfTypes(SubSeq(units, 1, at), {"sps", "pps"})
    IN IF at = 0 THEN OfTypes(units, Kept)
       ELSE OfTypes(SubSeq(units, 1, at - 1), Kept) \o (IF pps = <<>> THEN specific ELSE pps)
            \o OfTypes(SubSeq(units, at, Len(units)), Kept)

\* The last set of type t in a sequence of units, else the given one.
LastOf(units, t, else) ==
    LET s == OfTypes(units, {t}) IN IF s = <<>> THEN else ELSE s[Len(s)].id

Latest(units) == [sps |-> LastOf(units, "sps", latest.sps), pps |-> LastOf(units, "pps", latest.pps)]

\* Demux, parse and Parse of a video packet.  A packet without a whole tag
\* header ends the sender; the end of a sequence is skipped.
ParseVideo(p) ==
    /\ Packet
    /\ sender' = IF p.t = "short" THEN "ended" ELSE sender
    /\ \/ p.t \in {"short", "end"} /\ UNCHANGED <<specific, latest, inband>> /\ vlast' = <<>> /\ written' = <<>>
       \/ /\ p.t = "seq" /\ vlast' = <<>> /\ UNCHANGED written
          /\ \/ /\ Len(p.units) >= 2 /\ ParseSpecificInfo(p.units)
                /\ latest' = Latest(p.units) /\ inband' = FALSE
             \/ Len(p.units) < 2 /\ UNCHANGED <<specific, latest, inband>>
       \/ /\ p.t = "annexb" /\ vlast' = p.units /\ written' = p.units
          /\ latest' = Latest(p.units) /\ inband' = (inband \/ latest' # latest) /\ UNCHANGED specific
       \/ /\ p.t = "nalus" /\ written' = Annexb(Good(p.units)) /\ UNCHANGED specific
          /\ vlast' = IF p.units = Good(p.units) /\ p.units # <<>> THEN p.units ELSE <<>>
          /\ latest' = Latest(vlast') /\ inband' = (inband \/ latest' # latest)
    /\ UNCHANGED audioVars

---------------------------------------------------------------------------
(* Audio                                                                   *)

Rates == <<96000, 88200, 64000, 48000, 44100, 32000, 24000, 22050, 16000, 12000, 11025, 8000, 7350>>
SampleRate == IF cfg.rate < Len(Rates) THEN Rates[cfg.rate + 1] ELSE 44100

\* Mutant: the length does not count the header.
AdtsShort(n) ==
    <<((cfg.obj - 1) % 4) * 64 + cfg.rate * 4,
      (cfg.ch % 4) * 64 + ((n \div 2048) % 4),
      (n \div 8) % 256,
      (n % 8) * 32 + 31>>

\* adts: bytes 2 to 5 of the header of a frame; n + 7 has 16 bits.
Adts(n) ==
    LET frameLen == (n + 7) % 2^16 IN
    <<((cfg.obj - 1) % 4) * 64 + cfg.rate * 4,
      (cfg.ch % 4) * 64 + ((frameLen \div 2048) % 4),
      (frameLen \div 8) % 256,
      (frameLen % 8) * 32 + 31>>

Inc == (90000 * 1024) \div SampleRate
Abs(n) == IF n < 0 THEN -n ELSE n

\* Mutant: the number of frames is not reset with the base.
AlignNot(t) ==
    LET est == frameBase + frameNum * Inc IN
    IF Abs(est - t) <= 180
    THEN frameNum' = frameNum + 1 /\ dts' = est /\ UNCHANGED frameBase
    ELSE frameNum' = frameNum + 1 /\ frameBase' = t /\ dts' = est

\* align: within 2 ms (180 ticks) of the count of frames, the count is right.
Align(t) ==
    LET est == frameBase + frameNum * Inc IN
    IF Abs(est - t) <= 180
    THEN frameNum' = frameNum + 1 /\ dts' = est /\ UNCHANGED frameBase
    ELSE frameNum' = 1 /\ frameBase' = t /\ dts' = t

\* A sequence header of fewer than two bytes is refused; an AAC packet with
\* no second byte panics in parseAudioHeader.
AacSeqHdr(c) ==
    /\ Packet /\ gotAac' = TRUE /\ cfg' = c /\ alen' = 0
    /\ UNCHANGED <<sender, adts, frameNum, frameBase, dts, atime, prev>> /\ UNCHANGED videoVars

AacTruncated ==
    /\ Packet /\ sender' = "panicked"
    /\ UNCHANGED audioVars /\ UNCHANGED videoVars

\* A frame before the first sequence header, or an empty one, is an error and
\* is skipped.  calcPtsDts divides by the sample rate.
AacRaw(n, gap) ==
    /\ Packet
    /\ \/ /\ n > 0 /\ gotAac
          /\ adts' = Adts(n) /\ alen' = n /\ atime' = atime + gap
          /\ Align(90 * atime') /\ prev' = [time |-> atime, dts |-> dts]
       \/ /\ n = 0 \/ ~gotAac
          /\ alen' = 0 /\ UNCHANGED <<adts, frameNum, frameBase, dts, atime, prev>>
    /\ UNCHANGED <<sender, gotAac, cfg>> /\ UNCHANGED videoVars

VideoNext == \E p \in VideoPackets : ParseVideo(p)
AudioNext ==
    \/ \E c \in AudioConfigs : AacSeqHdr(c)
    \/ AacTruncated
    \/ \E n \in AudioLens, gap \in Gaps : AacRaw(n, gap)
CodecNext == VideoNext \/ AudioNext

CodecSpec == CodecInit /\ [][CodecNext]_codecVars

---------------------------------------------------------------------------
(* Properties                                                              *)

\* The sets that stand before the first idr of what was written.
Before(units) ==
    LET idrs == {i \in DOMAIN units : units[i].t = "idr"}
        at   == CHOOSE i \in idrs : \A j \in idrs : i <= j
    IN [sps |-> LastOf(SubSeq(units, 1, at), "sps", 0), pps |-> LastOf(SubSeq(units, 1, at), "pps", 0)]

\* A segment starts with an idr, so its sets have to stand before it: they do,
\* and are the ones that the publisher sent last, although the headers of the
\* whole stream are written (line 117) - if the frame has a sps and a pps of its
\* own, or none and none came in a frame since the last header (there they are
\* lost, line 205), and it did not come as Annex B (line 225).
IdrHasLatestSets ==
    (\E i \in DOMAIN vlast : vlast[i].t = "idr") =>
        LET own == Before(vlast)
            excused == \/ (own.sps = 0) # (own.pps = 0)
                       \/ own.sps = 0 /\ (inband \/ written = vlast)
        IN excused \/ Before(written) = IF own.sps = 0 THEN latest ELSE own

\* Slices come out once and in order.
SlicesKept == vlast # <<>> => OfTypes(written, {"idr", "slice", "sei"}) = OfTypes(vlast, {"idr", "slice", "sei"})

\* A video frame can be decoded after getAnnexbH264.
VideoArrives == IdrHasLatestSets /\ SlicesKept

\* What a player reads from the header of an AAC frame is what the publisher
\* said - exactly if the object type has 2 bits (line 74: 5 is HE-AAC), there
\* are fewer than 4 channels (line 78: the third bit is lost) and the frame is
\* shorter than 8 KiB.
AdtsDescribes ==
    alen > 0 =>
        (/\ adts[1] \div 64 + 1 = cfg.obj /\ (adts[1] \div 4) % 16 = cfg.rate
         /\ (adts[1] % 2) * 4 + adts[2] \div 64 = cfg.ch
         /\ (adts[2] % 4) * 2048 + adts[3] * 8 + adts[4] \div 32 = alen + 7)
        <=> (cfg.obj \in 1 .. 4 /\ cfg.ch < 4 /\ alen + 7 < 8192)

\* The clock of the audio stays within 2 ms of the packets' and does not go
\* back if they are more than 4 ms apart, whatever rate the headers announce.
AudioClock ==
    alen > 0 =>
        /\ Abs(dts - 90 * atime) <= 180
        /\ atime > prev.time + 4 => dts > prev.dts
=============================================================================
