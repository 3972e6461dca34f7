---------------------------- MODULE CodecsProofs ----------------------------
(***************************************************************************)
(* Proofs about the audio side of Codecs: the clock that align gives the   *)
(* audio frames, for every sequence of configurations and of time stamps;  *)
(* about TsMux: the packets of every frame, of whatever length; and about  *)
(* the video side of Codecs: the units of every frame, however many.       *)
(***************************************************************************)
EXTENDS Codecs, TsMux, TLAPS, SequenceTheorems, WellFoundedInduction

\* The types that the arithmetic of the clock needs.
ClockTypes ==
    /\ frameNum \in Nat /\ frameBase \in Nat /\ dts \in Nat /\ atime \in Nat /\ alen \in Nat
    /\ cfg \in [obj : 0 .. 31, rate : 0 .. 15, ch : 0 .. 15]
    /\ prev \in [time : Nat, dts : Nat]

\* Inductive: the last dts is near the last time stamp, also when the last
\* packet was none of audio's frames.
ClockInv == ClockTypes /\ Abs(dts - 90 * atime) <= 180 /\ AudioClock

\* A sample rate is positive, so that the increment is a natural number.
LEMMA IncType == ASSUME ClockTypes PROVE Inc \in Nat
<1> DEFINE r == cfg.rate
<1>1. r \in 0 .. 15
  BY DEF ClockTypes
<1>2. Len(Rates) = 13 /\ DOMAIN Rates = 1 .. 13
  BY DEF Rates
<1>3. \A i \in 1 .. 13 : Rates[i] \in Nat /\ Rates[i] > 0
  BY SMT DEF Rates
<1>4. SampleRate \in Nat /\ SampleRate > 0
  BY <1>1, <1>2, <1>3 DEF SampleRate
<1>5. \A n \in Nat : n > 0 => (90000 * 1024) \div n \in Nat
  BY SMT
<1> QED BY <1>4, <1>5 DEF Inc

\* What align does to the clock.
LEMMA AlignStep ==
    ASSUME ClockTypes, NEW t \in Nat, Align(t)
    PROVE  /\ frameNum' \in Nat /\ frameBase' \in Nat /\ dts' \in Nat
           /\ Abs(dts' - t) <= 180
<1>1. Inc \in Nat
  BY IncType
<1>2. frameNum * Inc \in Nat
  BY <1>1 DEF ClockTypes
<1> DEFINE est == frameBase + frameNum * Inc
<1>3. est \in Nat
  BY <1>2 DEF ClockTypes
<1>4. CASE Abs(est - t) <= 180
  BY <1>3, <1>4 DEF Align, ClockTypes
<1>5. CASE ~(Abs(est - t) <= 180)
  <2>1. frameNum' = 1 /\ frameBase' = t /\ dts' = t
    BY <1>5 DEF Align
  <2> QED BY <2>1 DEF Abs
<1> QED BY <1>4, <1>5

\* Times that stay within 2 ms of stamps more than 4 ms apart are in order.
LEMMA NearIsOrdered ==
    ASSUME NEW d \in Nat, NEW e \in Nat, NEW a \in Nat, NEW b \in Nat,
           Abs(d - 90 * a) <= 180, Abs(e - 90 * b) <= 180, b > a + 4
    PROVE  e > d
BY DEF Abs

LEMMA InitClock == CodecInit => ClockInv
BY DEF CodecInit, ClockInv, ClockTypes, AudioClock, Abs, NoCfg

LEMMA VideoKeeps == ClockInv /\ UNCHANGED audioVars => ClockInv'
BY DEF ClockInv, ClockTypes, AudioClock, audioVars, Abs

LEMMA AacRawKeeps ==
    ASSUME ClockInv, NEW n \in Nat, NEW gap \in Nat, AacRaw(n, gap)
    PROVE  ClockInv'
<1>1. CASE n > 0 /\ gotAac
  <2>1. /\ alen' = n /\ atime' = atime + gap /\ Align(90 * atime')
        /\ prev' = [time |-> atime, dts |-> dts] /\ cfg' = cfg
    BY <1>1 DEF AacRaw
  <2>2. atime' \in Nat /\ 90 * atime' \in Nat
    BY <2>1 DEF ClockInv, ClockTypes
  <2>3. /\ frameNum' \in Nat /\ frameBase' \in Nat /\ dts' \in Nat
        /\ Abs(dts' - 90 * atime') <= 180
    BY <2>1, <2>2, AlignStep DEF ClockInv
  <2>4. ClockTypes'
    BY <2>1, <2>2, <2>3 DEF ClockInv, ClockTypes
  <2>5. atime' > prev'.time + 4 => dts' > prev'.dts
    BY <2>1, <2>2, <2>3, NearIsOrdered DEF ClockInv, ClockTypes
  <2> QED BY <2>3, <2>4, <2>5 DEF ClockInv, AudioClock, Abs
<1>2. CASE n = 0 \/ ~gotAac
  <2>1. alen' = 0 /\ UNCHANGED <<adts, frameNum, frameBase, dts, atime, prev, cfg>>
    BY <1>2 DEF AacRaw
  <2> QED BY <2>1 DEF ClockInv, ClockTypes, AudioClock, Abs
<1> QED BY <1>1, <1>2

LEMMA AacSeqHdrKeeps ==
    ASSUME ClockInv, NEW c \in AudioConfigs, AacSeqHdr(c)
    PROVE  ClockInv'
<1>1. alen' = 0 /\ cfg' = c /\ UNCHANGED <<frameNum, frameBase, dts, atime, prev>>
  BY DEF AacSeqHdr
<1> QED BY <1>1, CodecAssumption DEF ClockInv, ClockTypes, AudioClock, Abs

LEMMA NextClock == ClockInv /\ [CodecNext]_codecVars => ClockInv'
<1> SUFFICES ASSUME ClockInv, [CodecNext]_codecVars PROVE ClockInv'
  OBVIOUS
<1>1. ASSUME NEW p \in VideoPackets, ParseVideo(p) PROVE ClockInv'
  BY <1>1, VideoKeeps DEF ParseVideo
<1>2. ASSUME NEW c \in AudioConfigs, AacSeqHdr(c) PROVE ClockInv'
  BY <1>2, AacSeqHdrKeeps
<1>3. CASE AacTruncated
  BY <1>3, VideoKeeps DEF AacTruncated
<1>4. ASSUME NEW n \in AudioLens, NEW gap \in Gaps, AacRaw(n, gap) PROVE ClockInv'
  BY <1>4, AacRawKeeps, CodecAssumption
<1>5. CASE UNCHANGED codecVars
  BY <1>5, VideoKeeps DEF codecVars, audioVars
<1> QED BY <1>1, <1>2, <1>3, <1>4, <1>5 DEF CodecNext, VideoNext, AudioNext

\* The audio clock of a segment (calcPtsDts, align) stays within 2 ms of the
\* time stamps and never goes back when they are more than 4 ms apart, for any
\* configurations and any gaps.
THEOREM AudioClockHolds == CodecSpec => []AudioClock
<1>1. ClockInv => AudioClock
  BY DEF ClockInv
<1> QED BY <1>1, InitClock, NextClock, PTL DEF CodecSpec

---------------------------------------------------------------------------
(* The headers of AAC frames                                               *)

\* Inductive: the header is the one of the last frame.
AdtsInv == ClockTypes /\ (alen > 0 => adts = Adts(alen))

\* The quotient and remainder of a length of 16 bits by the width of its two
\* lower fields, and of that by the lowest.
LEMMA Split2048 ==
    ASSUME NEW x \in Int, 0 <= x, x <= 65535
    PROVE  /\ x = 2048 * (x \div 2048) + (x % 2048)
           /\ x \div 2048 \in 0 .. 31 /\ x % 2048 \in 0 .. 2047
OBVIOUS

LEMMA Split8 ==
    ASSUME NEW x \in Int, 0 <= x, x <= 2047
    PROVE  /\ x = 8 * (x \div 8) + (x % 8)
           /\ x \div 8 \in 0 .. 255 /\ x % 8 \in 0 .. 7
OBVIOUS

\* The fields that Adts (line 62) cuts a length into are the length again, but
\* for what is above 13 bits.
LEMMA Fields ==
    ASSUME NEW q \in 0 .. 31, NEW s \in 0 .. 255, NEW t \in 0 .. 7
    PROVE  LET f == 2048 * q + 8 * s + t
           IN /\ f \div 2048 = q /\ (f \div 8) % 256 = s /\ f % 8 = t
              /\ f % 8192 = (q % 4) * 2048 + 8 * s + t
<1> DEFINE f == 2048 * q + 8 * s + t
<1>1. f \div 2048 = q
  OBVIOUS
<1>2. f \div 8 = 256 * q + s /\ f % 8 = t
  OBVIOUS
<1>3. (256 * q + s) % 256 = s
  OBVIOUS
<1>4. f % 8192 = (q % 4) * 2048 + 8 * s + t
  OBVIOUS
<1> QED BY <1>1, <1>2, <1>3, <1>4

\* ... which is nothing exactly if the length is below 2^13.
LEMMA Cut ==
    ASSUME NEW a \in Nat
    PROVE  ((a % 65536) % 8192 = a) <=> (a < 8192)
OBVIOUS

\* The length is cut to 13 bits.
LEMMA LengthField ==
    ASSUME NEW n \in Nat
    PROVE  LET f == (n + 7) % 2^16
           IN (((f \div 2048) % 4) * 2048 + ((f \div 8) % 256) * 8 + (f % 8) = n + 7) <=> (n + 7 < 8192)
<1> DEFINE f == (n + 7) % 2^16
<1>1. f = (n + 7) % 65536 /\ f \in Int /\ 0 <= f /\ f <= 65535
  <2>1. 2^16 = 65536
    OBVIOUS
  <2> QED BY <2>1
<1>2. (f % 8192 = n + 7) <=> (n + 7 < 8192)
  BY <1>1, Cut
<1> HIDE DEF f
<1> DEFINE r == f % 2048
<1>3. f = 2048 * (f \div 2048) + r /\ f \div 2048 \in 0 .. 31 /\ r \in 0 .. 2047
  BY <1>1, Split2048
<1> HIDE DEF r
<1>4. r = 8 * (r \div 8) + (r % 8) /\ r \div 8 \in 0 .. 255 /\ r % 8 \in 0 .. 7
  BY <1>3, Split8
<1> DEFINE q == f \div 2048
           s == r \div 8
           t == r % 8
<1>5. f = 2048 * q + 8 * s + t /\ q \in 0 .. 31 /\ s \in 0 .. 255 /\ t \in 0 .. 7
  BY <1>3, <1>4
<1> HIDE DEF q, s, t
<1>6. /\ f \div 2048 = q /\ (f \div 8) % 256 = s /\ f % 8 = t
      /\ f % 8192 = (q % 4) * 2048 + 8 * s + t
  BY <1>5, Fields
<1>7. ((q % 4) * 2048 + s * 8 + t = n + 7) <=> (n + 7 < 8192)
  <2>1. q % 4 \in Int /\ s \in Int /\ t \in Int
    BY <1>5
  <2> QED BY <1>2, <1>6, <2>1
<1> QED BY <1>6, <1>7 DEF f

\* What a player reads from the header of a frame of n bytes.
LEMMA AdtsRead ==
    ASSUME ClockTypes, NEW n \in Nat, adts = Adts(n), alen = n, n > 0
    PROVE  AdtsDescribes
<1> DEFINE f == (n + 7) % 2^16
           hi == (f \div 2048) % 4
<1>1. f \in Nat /\ f \div 2048 \in Nat /\ hi \in 0 .. 3 /\ f % 8 \in 0 .. 7 /\ (f \div 8) % 256 \in 0 .. 255
  <2>1. 2^16 = 65536
    OBVIOUS
  <2> QED BY <2>1
<1>2. /\ cfg.obj \in 0 .. 31 /\ cfg.rate \in 0 .. 15 /\ cfg.ch \in 0 .. 15
  BY DEF ClockTypes
<1>3. /\ adts[1] = ((cfg.obj - 1) % 4) * 64 + cfg.rate * 4
      /\ adts[2] = (cfg.ch % 4) * 64 + hi
      /\ adts[3] = (f \div 8) % 256
      /\ adts[4] = (f % 8) * 32 + 31
  BY DEF Adts
<1> HIDE DEF f, hi
<1>4. (adts[1] \div 64 + 1 = cfg.obj) <=> (cfg.obj \in 1 .. 4)
  BY <1>2, <1>3
<1>5. (adts[1] \div 4) % 16 = cfg.rate /\ adts[1] % 2 = 0
  BY <1>2, <1>3
<1>6. adts[2] \div 64 = cfg.ch % 4 /\ adts[2] % 4 = hi
  <2> DEFINE c == cfg.ch % 4
  <2>1. c \in 0 .. 3
    BY <1>2
  <2> HIDE DEF c
  <2>2. \A h \in 0 .. 3 : (c * 64 + h) \div 64 = c /\ (c * 64 + h) % 4 = h
    BY <2>1
  <2> QED BY <1>1, <1>3, <2>2 DEF c
<1>7. ((adts[1] % 2) * 4 + adts[2] \div 64 = cfg.ch) <=> (cfg.ch < 4)
  BY <1>2, <1>5, <1>6
<1>8. adts[4] \div 32 = f % 8
  BY <1>1, <1>3
<1>9. ((adts[2] % 4) * 2048 + adts[3] * 8 + adts[4] \div 32 = n + 7) <=> (n + 7 < 8192)
  BY <1>3, <1>6, <1>8, LengthField DEF f, hi
<1>10. (/\ adts[1] \div 64 + 1 = cfg.obj /\ (adts[1] \div 4) % 16 = cfg.rate
        /\ (adts[1] % 2) * 4 + adts[2] \div 64 = cfg.ch
        /\ (adts[2] % 4) * 2048 + adts[3] * 8 + adts[4] \div 32 = n + 7)
       <=> (cfg.obj \in 1 .. 4 /\ cfg.ch < 4 /\ n + 7 < 8192)
  BY <1>4, <1>5, <1>7, <1>9
<1> QED BY <1>10 DEF AdtsDescribes

LEMMA NextAdts == AdtsInv /\ ClockInv /\ [CodecNext]_codecVars => AdtsInv'
<1> SUFFICES ASSUME AdtsInv, ClockInv, [CodecNext]_codecVars PROVE AdtsInv'
  OBVIOUS
<1>1. ClockTypes'
  BY NextClock DEF ClockInv
<1>2. ASSUME UNCHANGED audioVars PROVE AdtsInv'
  BY <1>1, <1>2 DEF AdtsInv, audioVars, Adts
<1>3. ASSUME NEW p \in VideoPackets, ParseVideo(p) PROVE AdtsInv'
  BY <1>2, <1>3 DEF ParseVideo
<1>4. ASSUME NEW c \in AudioConfigs, AacSeqHdr(c) PROVE AdtsInv'
  BY <1>1, <1>4 DEF AacSeqHdr, AdtsInv
<1>5. CASE AacTruncated
  BY <1>2, <1>5 DEF AacTruncated
<1>6. ASSUME NEW n \in AudioLens, NEW gap \in Gaps, AacRaw(n, gap) PROVE AdtsInv'
  BY <1>1, <1>6 DEF AacRaw, AdtsInv, Adts
<1>7. CASE UNCHANGED codecVars
  BY <1>2, <1>7 DEF codecVars, audioVars
<1> QED BY <1>3, <1>4, <1>5, <1>6, <1>7 DEF CodecNext, VideoNext, AudioNext

\* An ADTS header (adts of the AAC parser) says what the configuration said,
\* and the frame's length, exactly for object types 1 to 4, fewer than four
\* channels and frames shorter than 8 KiB - for every configuration and length.
THEOREM AdtsDescribesHolds == CodecSpec => []AdtsDescribes
<1>1. CodecInit => AdtsInv
  BY DEF CodecInit, AdtsInv, ClockTypes, NoCfg
<1>2. AdtsInv => AdtsDescribes
  <2> SUFFICES ASSUME AdtsInv, alen > 0 PROVE AdtsDescribes
    BY DEF AdtsDescribes
  <2> QED BY AdtsRead DEF AdtsInv, ClockTypes
<1> QED BY <1>1, <1>2, InitClock, NextClock, NextAdts, PTL DEF CodecSpec

---------------------------------------------------------------------------
(* The MPEG-TS muxer                                                       *)

\* The PES packet of the frame with the first n bytes of its data.
PesPart(n) ==
    [i \in 1 .. PesLen(frame) + n |->
        IF i <= PesLen(frame) THEN HdrByte(i - 1) ELSE FrameByte((i - PesLen(frame)) - 1)]

TsTypes ==
    /\ cc \in [{"v", "a"} -> 0 .. 15]
    /\ frame \in [video : BOOLEAN, key : BOOLEAN, dts : BOOLEAN, len : Nat]
    /\ hdr \in Nat /\ data \in Nat /\ calls \in Nat /\ muxing \in BOOLEAN
    /\ payload \in Seq(Nat)
    /\ muxing => tsBuf \in Seq(Nat) /\ Len(tsBuf) = DataLen

\* The tables have been counted together.
TablesInv ==
    /\ patCc = pmtCc
    /\ \/ tables = -1 /\ patCc = 0
       \/ tables \in 0 .. 15 /\ patCc = tables + 1

\* What a demuxer has of a frame: nothing, or the header and the bytes of the
\* frame that are written - except that a small key frame is over in one
\* packet, and that packet has a payload of another length.
Written ==
    calls > 0 =>
        /\ data <= frame.len
        /\ \/ hdr = 0 /\ data = 0 /\ payload = <<>> /\ muxing
           \/ hdr = PesLen(frame) /\ ~SmallKey(frame) /\ payload = PesPart(data)
           \/ hdr = PesLen(frame) /\ SmallKey(frame) /\ data = frame.len /\ Len(payload) = 176
        /\ ~muxing => data = frame.len

TsInv == TsTypes /\ TablesInv /\ Written /\ (muxing => calls > 0) /\ inOrder = TRUE

\* The sequence t is s from the index m to the index n.
IsCut(t, s, m, n) ==
    /\ t \in Seq(Nat) /\ Len(t) = (n - m) + 1
    /\ \A i \in 1 .. (n - m) + 1 : t[i] = s[(m + i) - 1]

\* What SubSeq returns inside a sequence.
LEMMA Cutting ==
    ASSUME NEW s \in Seq(Nat), NEW m \in Int, NEW n \in Int, m >= 1, n <= Len(s), m <= n + 1
    PROVE  IsCut(SubSeq(s, m, n), s, m, n)
<1>1. \A i \in m .. n : s[i] \in Nat
  <2>1. Len(s) \in Nat
    BY LenProperties
  <2> QED BY <2>1, ElementOfSeq
<1> DEFINE t == SubSeq(s, m, n)
<1>2. t \in Seq(Nat)
  BY <1>1, SubSeqProperties, SMTT(30)
<1>3. Len(t) = IF m <= n THEN n - m + 1 ELSE 0
  BY <1>1, SubSeqProperties, SMTT(30)
<1>4. \A i \in 1 .. n - m + 1 : t[i] = s[m + i - 1]
  BY <1>1, SubSeqProperties, SMTT(30)
<1> HIDE DEF t
<1>5. Len(t) = (n - m) + 1
  BY <1>3
<1>6. \A i \in 1 .. (n - m) + 1 : t[i] = s[(m + i) - 1]
  <2>1. n - m + 1 = (n - m) + 1 /\ \A i \in Int : m + i - 1 = (m + i) - 1
    OBVIOUS
  <2> QED BY <1>4, <2>1
<1>7. IsCut(t, s, m, n)
  BY <1>2, <1>5, <1>6 DEF IsCut
<1> QED BY <1>7 DEF t

\* Two sequences joined.
LEMMA Joined ==
    ASSUME NEW s \in Seq(Nat), NEW t \in Seq(Nat)
    PROVE  /\ s \o t \in Seq(Nat) /\ Len(s \o t) = Len(s) + Len(t) /\ Len(s) \in Nat /\ Len(t) \in Nat
           /\ \A i \in 1 .. Len(s) : (s \o t)[i] = s[i]
           /\ \A i \in 1 .. Len(t) : (s \o t)[Len(s) + i] = t[i]
<1>1. Len(s) \in Nat /\ Len(t) \in Nat
  BY LenProperties
<1>2. /\ s \o t \in Seq(Nat) /\ Len(s \o t) = Len(s) + Len(t)
      /\ \A i \in 1 .. Len(s) + Len(t) : (s \o t)[i] = IF i <= Len(s) THEN s[i] ELSE t[i - Len(s)]
  BY ConcatProperties
<1> DEFINE st == s \o t
           m == Len(s)
           n == Len(t)
<1> HIDE DEF st, m, n
<1>3. m \in Nat /\ n \in Nat /\ \A i \in 1 .. m + n : st[i] = IF i <= m THEN s[i] ELSE t[i - m]
  BY <1>1, <1>2 DEF st, m, n
<1>4. \A i \in 1 .. m : st[i] = s[i]
  BY <1>3
<1>5. \A i \in 1 .. n : st[m + i] = t[i]
  <2> TAKE i \in 1 .. n
  <2>1. m + i \in 1 .. m + n /\ ~(m + i <= m) /\ (m + i) - m = i
    BY <1>3
  <2> QED BY <2>1, <1>3
<1> QED BY <1>1, <1>2, <1>4, <1>5 DEF st, m, n

\* The buffer c is buf with the bytes at the index.
IsCopy(c, buf, at, bytes) ==
    /\ c \in Seq(Nat) /\ Len(c) = DataLen
    /\ \A j \in 1 .. at - 4 : c[j] = buf[j]
    /\ \A j \in 1 .. Len(bytes) : c[(at - 4) + j] = bytes[j]

\* Copying leaves the bytes before it and the length of the buffer.
LEMMA CopiedForm ==
    ASSUME NEW buf \in Seq(Nat), Len(buf) = DataLen, NEW at \in 4 .. 188,
           NEW bytes \in Seq(Nat), at + Len(bytes) <= 188
    PROVE  IsCopy(Copied(buf, at, bytes), buf, at, bytes)
<1> DEFINE n == Len(bytes)
           a == SubSeq(buf, 1, at - 4)
           b == SubSeq(bytes, 1, n)
           c == SubSeq(buf, (at + n) - 3, DataLen)
<1>0. n \in Nat
  BY LenProperties
<1>1. Copied(buf, at, bytes) = (a \o b) \o c
  <2>1. Less(Len(bytes), TsLen - at) = n
    BY <1>0 DEF Less, TsLen
  <2>2. at + Len(bytes) - 3 = (at + n) - 3
    BY <1>0
  <2> QED BY <2>1, <2>2 DEF Copied
<1>2. a \in Seq(Nat) /\ Len(a) = at - 4 /\ \A i \in 1 .. at - 4 : a[i] = buf[i]
  <2>1. at - 4 \in Int /\ 1 <= (at - 4) + 1 /\ at - 4 <= Len(buf) /\ ((at - 4) - 1) + 1 = at - 4
    BY DEF DataLen
  <2>2. IsCut(a, buf, 1, at - 4)
    BY <2>1, Cutting
  <2>3. \A i \in 1 .. at - 4 : (1 + i) - 1 = i
    OBVIOUS
  <2> HIDE DEF a
  <2> QED BY <2>1, <2>2, <2>3 DEF IsCut
<1>3. b \in Seq(Nat) /\ Len(b) = n /\ \A i \in 1 .. n : b[i] = bytes[i]
  <2>1. n \in Int /\ n <= Len(bytes) /\ 1 <= n + 1 /\ (n - 1) + 1 = n
    BY <1>0
  <2>2. IsCut(b, bytes, 1, n)
    BY <2>1, Cutting
  <2>3. \A i \in 1 .. n : (1 + i) - 1 = i
    BY <1>0
  <2> HIDE DEF b, n
  <2> QED BY <2>1, <2>2, <2>3 DEF IsCut
<1>4. c \in Seq(Nat) /\ Len(c) = 188 - (at + n)
  <2>1. /\ (at + n) - 3 \in Int /\ DataLen \in Int /\ (at + n) - 3 >= 1 /\ DataLen <= Len(buf)
        /\ (at + n) - 3 <= DataLen + 1 /\ (DataLen - ((at + n) - 3)) + 1 = 188 - (at + n)
    BY <1>0 DEF DataLen
  <2>2. IsCut(c, buf, (at + n) - 3, DataLen)
    BY <2>1, Cutting
  <2> HIDE DEF c
  <2> QED BY <2>1, <2>2 DEF IsCut
<1> HIDE DEF n, a, b, c
<1>5. a \o b \in Seq(Nat) /\ Len(a \o b) = (at - 4) + n
  BY <1>2, <1>3, Joined
<1>6. \A i \in 1 .. at - 4 : (a \o b)[i] = buf[i]
  BY <1>2, <1>3, Joined
<1>7. \A i \in 1 .. n : (a \o b)[(at - 4) + i] = bytes[i]
  <2>1. \A i \in 1 .. Len(b) : (a \o b)[Len(a) + i] = b[i]
    BY <1>2, <1>3, Joined
  <2> QED BY <2>1, <1>2, <1>3
<1> DEFINE ab == a \o b
<1> HIDE DEF ab
<1>8. ab \in Seq(Nat) /\ Len(ab) = (at - 4) + n
  BY <1>5 DEF ab
<1>9. ab \o c \in Seq(Nat) /\ Len(ab \o c) = DataLen /\ \A i \in 1 .. (at - 4) + n : (ab \o c)[i] = ab[i]
  <2>1. Len(ab) + Len(c) = DataLen
    BY <1>0, <1>4, <1>8 DEF DataLen
  <2> QED BY <2>1, <1>4, <1>8, Joined
<1>10. Copied(buf, at, bytes) = ab \o c
  BY <1>1 DEF ab
<1>11. \A i \in 1 .. at - 4 : (ab \o c)[i] = buf[i]
  <2> TAKE i \in 1 .. at - 4
  <2>1. i \in 1 .. (at - 4) + n
    BY <1>0
  <2> QED BY <2>1, <1>9, <1>6 DEF ab
<1>12. \A i \in 1 .. n : (ab \o c)[(at - 4) + i] = bytes[i]
  <2> TAKE i \in 1 .. n
  <2>1. (at - 4) + i \in 1 .. (at - 4) + n
    BY <1>0
  <2>2. (ab \o c)[(at - 4) + i] = ab[(at - 4) + i]
    BY <2>1, <1>9
  <2> QED BY <2>2, <1>7 DEF ab
<1> QED BY <1>9, <1>10, <1>11, <1>12 DEF n, IsCopy

\* A filled sequence.
LEMMA FillForm ==
    ASSUME NEW n \in Nat, NEW b \in Nat
    PROVE  Fill(n, b) \in Seq(Nat) /\ Len(Fill(n, b)) = n
BY DEF Fill

\* The adaptation field with the PCR says 7 for its length.
LEMMA PcrForm ==
    ASSUME NEW buf \in Seq(Nat), Len(buf) = DataLen
    PROVE  WithPcr(buf) \in Seq(Nat) /\ Len(WithPcr(buf)) = DataLen /\ WithPcr(buf)[1] = 7
<1> DEFINE f == Fill(6, 0)
           b == <<7, 80>> \o f
<1>1. f \in Seq(Nat) /\ Len(f) = 6
  BY FillForm
<1> HIDE DEF f
<1>2. b \in Seq(Nat) /\ Len(b) = 8 /\ b[1] = 7
  <2>1. <<7, 80>> \in Seq(Nat) /\ Len(<<7, 80>>) = 2 /\ <<7, 80>>[1] = 7
    OBVIOUS
  <2>2. 1 \in 1 .. Len(<<7, 80>>)
    BY <2>1
  <2> DEFINE u == <<7, 80>>
  <2> HIDE DEF u
  <2>3. u \in Seq(Nat) /\ Len(u) = 2 /\ 1 \in 1 .. Len(u) /\ u[1] = 7
    BY <2>1, <2>2 DEF u
  <2>4. u \o f \in Seq(Nat) /\ Len(u \o f) = 8 /\ (u \o f)[1] = 7
    <3>1. u \o f \in Seq(Nat) /\ Len(u \o f) = Len(u) + Len(f)
      BY <2>3, <1>1, Joined
    <3>2. \A i \in 1 .. Len(u) : (u \o f)[i] = u[i]
      BY <2>3, <1>1, Joined
    <3> QED BY <2>3, <1>1, <3>1, <3>2
  <2> QED BY <2>4 DEF u
<1> HIDE DEF b
<1>3. WithPcr(buf) = Copied(buf, 4, b)
  BY DEF WithPcr, b, f
<1>4. /\ Copied(buf, 4, b) \in Seq(Nat) /\ Len(Copied(buf, 4, b)) = DataLen
      /\ \A j \in 1 .. 8 : Copied(buf, 4, b)[(4 - 4) + j] = b[j]
  <2>1. 4 \in 4 .. 188 /\ 4 + Len(b) <= 188
    BY <1>2
  <2>2. IsCopy(Copied(buf, 4, b), buf, 4, b)
    BY <2>1, <1>2, CopiedForm
  <2> QED BY <1>2, <2>2 DEF IsCopy
<1>5. Copied(buf, 4, b)[1] = b[1]
  BY <1>4
<1> QED BY <1>2, <1>3, <1>4, <1>5

\* Stuffing writes its length - 1 at its index and leaves what is before it.
LEMMA StuffedForm ==
    ASSUME NEW buf \in Seq(Nat), Len(buf) = DataLen, NEW at \in 4 .. 12, NEW n \in 0 .. 255
    PROVE  /\ Stuffed(buf, at, n) \in Seq(Nat) /\ Len(Stuffed(buf, at, n)) = DataLen
           /\ \A j \in 1 .. at - 4 : Stuffed(buf, at, n)[j] = buf[j]
           /\ n > 0 => Stuffed(buf, at, n)[at - 3] = n - 1
<1> DEFINE f == Fill(TsLen - at - 2, 255)
           t == IF n = 1 THEN <<>> ELSE <<0>> \o f
           b == <<(n - 1) % 256>> \o t
<1>1. f \in Seq(Nat) /\ Len(f) = 186 - at
  <2>1. TsLen - at - 2 = 186 - at /\ 186 - at \in Nat /\ 255 \in Nat
    BY DEF TsLen
  <2>2. Fill(186 - at, 255) \in Seq(Nat) /\ Len(Fill(186 - at, 255)) = 186 - at
    BY <2>1, FillForm
  <2> QED BY <2>1, <2>2
<1> HIDE DEF f
<1>2. <<0>> \o f \in Seq(Nat) /\ Len(<<0>> \o f) = 187 - at
  BY <1>1, ConcatProperties
<1>3. t \in Seq(Nat) /\ Len(t) \in Nat /\ Len(t) <= 187 - at
  BY <1>2
<1> HIDE DEF t
<1>4. (n - 1) % 256 \in Nat /\ (n > 0 => (n - 1) % 256 = n - 1)
  <2>1. \A k \in Int : k % 256 \in Nat /\ (k \in 0 .. 255 => k % 256 = k)
    OBVIOUS
  <2>2. n - 1 \in Int /\ (n > 0 => n - 1 \in 0 .. 255)
    OBVIOUS
  <2> QED BY <2>1, <2>2
<1> DEFINE x == (n - 1) % 256
<1> HIDE DEF x
<1>5. <<x>> \in Seq(Nat) /\ Len(<<x>>) = 1 /\ <<x>>[1] = x
  BY <1>4 DEF x
<1>6. b \in Seq(Nat) /\ Len(b) \in Nat /\ Len(b) >= 1 /\ Len(b) <= 188 - at /\ b[1] = x
  <2> DEFINE u == <<x>>
  <2> HIDE DEF u
  <2>1. u \in Seq(Nat) /\ Len(u) = 1 /\ u[1] = x /\ 1 \in 1 .. Len(u)
    BY <1>5 DEF u
  <2>2. /\ u \o t \in Seq(Nat) /\ Len(u \o t) = 1 + Len(t) /\ (u \o t)[1] = x
    <3>1. u \o t \in Seq(Nat) /\ Len(u \o t) = Len(u) + Len(t)
      BY <2>1, <1>3, Joined
    <3>2. \A i \in 1 .. Len(u) : (u \o t)[i] = u[i]
      BY <2>1, <1>3, Joined
    <3> QED BY <2>1, <1>3, <3>1, <3>2
  <2>3. b = u \o t
    BY DEF u, x
  <2> HIDE DEF b
  <2> QED BY <2>2, <2>3, <1>3
<1> HIDE DEF b
<1>7. Stuffed(buf, at, n) = Copied(buf, at, b)
  BY DEF Stuffed, b, t, f
<1>8. /\ Copied(buf, at, b) \in Seq(Nat) /\ Len(Copied(buf, at, b)) = DataLen
      /\ \A j \in 1 .. at - 4 : Copied(buf, at, b)[j] = buf[j]
      /\ \A j \in 1 .. Len(b) : Copied(buf, at, b)[(at - 4) + j] = b[j]
  <2>1. at \in 4 .. 188 /\ at + Len(b) <= 188
    BY <1>6
  <2>2. IsCopy(Copied(buf, at, b), buf, at, b)
    BY <2>1, <1>6, CopiedForm
  <2> QED BY <2>2 DEF IsCopy
<1>9. Copied(buf, at, b)[(at - 4) + 1] = b[1] /\ (at - 4) + 1 = at - 3
  BY <1>6, <1>8
<1> QED BY <1>4, <1>6, <1>7, <1>8, <1>9 DEF x

\* The bytes of the header and of the frame, from index i to the end.
Rest(n, h, d) ==
    [j \in 1 .. h + d |-> IF j <= h THEN HdrByte(j - 1) ELSE FrameByte((n + (j - h)) - 1)]

\* The buffer with the header and the bytes of the frame at the index i.
Body(buf, i, n, h, d) ==
    Copied(Copied(buf, i, [j \in 1 .. h |-> HdrByte(j - 1)]), i + h, [j \in 1 .. d |-> FrameByte(n + j - 1)])

IsBody(b, buf, i, n, h, d) ==
    /\ b \in Seq(Nat) /\ Len(b) = DataLen
    /\ \A j \in 1 .. i - 4 : b[j] = buf[j]
    /\ SubSeq(b, i - 3, DataLen) = Rest(n, h, d)

\* The packet that a round of the loop writes: what comes before index i, the
\* header and the bytes of the frame.
LEMMA BodyForm ==
    ASSUME NEW buf \in Seq(Nat), Len(buf) = DataLen, NEW i \in 4 .. 188,
           NEW n \in Nat, NEW h \in Nat, NEW d \in Nat, (i + h) + d = 188
    PROVE  IsBody(Body(buf, i, n, h, d), buf, i, n, h, d)
<1> DEFINE x == [j \in 1 .. h |-> HdrByte(j - 1)]
           y == [j \in 1 .. d |-> FrameByte(n + j - 1)]
           c == Copied(buf, i, x)
           b == Copied(c, i + h, y)
<1>1. x \in Seq(Nat) /\ Len(x) = h /\ \A j \in 1 .. h : x[j] = HdrByte(j - 1)
  BY DEF HdrByte
<1>2. y \in Seq(Nat) /\ Len(y) = d /\ \A j \in 1 .. d : y[j] = FrameByte((n + j) - 1)
  BY DEF FrameByte
<1> HIDE DEF x, y
<1>3. /\ c \in Seq(Nat) /\ Len(c) = DataLen
      /\ \A j \in 1 .. i - 4 : c[j] = buf[j]
      /\ \A j \in 1 .. h : c[(i - 4) + j] = x[j]
  <2>1. x \in Seq(Nat) /\ i + Len(x) <= 188
    BY <1>1
  <2>2. IsCopy(c, buf, i, x)
    BY <2>1, CopiedForm
  <2> HIDE DEF c
  <2> QED BY <1>1, <2>2 DEF IsCopy
<1> HIDE DEF c
<1>4. /\ b \in Seq(Nat) /\ Len(b) = DataLen
      /\ \A j \in 1 .. (i + h) - 4 : b[j] = c[j]
      /\ \A j \in 1 .. d : b[((i + h) - 4) + j] = y[j]
  <2>1. i + h \in 4 .. 188 /\ (i + h) + Len(y) <= 188
    BY <1>2
  <2> DEFINE k == i + h
  <2> HIDE DEF k
  <2>2. /\ k \in 4 .. 188 /\ k + Len(y) <= 188
        /\ c \in Seq(Nat) /\ Len(c) = DataLen /\ y \in Seq(Nat)
    BY <2>1, <1>2, <1>3 DEF k
  <2>3. IsCopy(Copied(c, k, y), c, k, y)
    BY <2>2, CopiedForm
  <2>4. b = Copied(c, k, y)
    BY DEF k
  <2> HIDE DEF b
  <2> QED BY <1>2, <2>3, <2>4 DEF k, IsCopy
<1> HIDE DEF b
<1>5. \A j \in 1 .. i - 4 : b[j] = buf[j]
  <2> TAKE j \in 1 .. i - 4
  <2>1. j \in 1 .. (i + h) - 4
    OBVIOUS
  <2>2. b[j] = c[j]
    BY <2>1, <1>4
  <2> QED BY <2>2, <1>3
<1> DEFINE s == SubSeq(b, i - 3, DataLen)
           r == Rest(n, h, d)
<1>6. s \in Seq(Nat) /\ Len(s) = h + d /\ \A j \in 1 .. h + d : s[j] = b[(i - 4) + j]
  <2>1. (DataLen - (i - 3)) + 1 = h + d /\ i - 3 \in Int /\ DataLen \in Int /\ i - 3 >= 1 /\ i - 3 <= DataLen + 1
    BY DEF DataLen
  <2>0. b \in Seq(Nat) /\ DataLen <= Len(b)
    BY <1>4 DEF DataLen
  <2>2. IsCut(s, b, i - 3, DataLen)
    BY <2>0, <2>1, Cutting
  <2> HIDE DEF s
  <2>4. s \in Seq(Nat) /\ Len(s) = h + d /\ \A j \in 1 .. h + d : s[j] = b[((i - 3) + j) - 1]
    BY <2>1, <2>2 DEF IsCut
  <2>3. \A j \in 1 .. h + d : ((i - 3) + j) - 1 = (i - 4) + j
    OBVIOUS
  <2> QED BY <2>4, <2>3
<1>7. r \in Seq(Nat) /\ Len(r) = h + d
  BY DEF Rest, HdrByte, FrameByte
<1>8. \A j \in 1 .. h + d : r[j] = IF j <= h THEN HdrByte(j - 1) ELSE FrameByte((n + (j - h)) - 1)
  BY DEF Rest
<1> HIDE DEF s, r
<1>9. \A j \in 1 .. h + d : s[j] = r[j]
  <2> TAKE j \in 1 .. h + d
  <2>1. CASE j <= h
    <3>1. j \in 1 .. h /\ (i - 4) + j \in 1 .. (i + h) - 4
      BY <2>1
    <3> DEFINE m == (i - 4) + j
    <3> HIDE DEF m
    <3>a. m \in 1 .. (i + h) - 4 /\ s[j] = b[m]
      BY <3>1, <1>6 DEF m
    <3>b. s[j] = c[m]
      BY <3>a, <1>4
    <3>2. s[j] = c[(i - 4) + j]
      BY <3>b DEF m
    <3>3. s[j] = HdrByte(j - 1)
      BY <3>1, <3>2, <1>1, <1>3
    <3> QED BY <3>3, <1>8, <2>1
  <2>2. CASE ~(j <= h)
    <3>1. j - h \in 1 .. d /\ (i - 4) + j = ((i + h) - 4) + (j - h)
      BY <2>2
    <3> DEFINE m == j - h
    <3> HIDE DEF m
    <3>b. s[j] = b[(i - 4) + j]
      BY <1>6
    <3>a. m \in 1 .. d /\ s[j] = b[((i + h) - 4) + m]
      BY <3>1, <3>b DEF m
    <3>2. s[j] = y[j - h]
      BY <3>a, <1>4 DEF m
    <3> QED BY <3>1, <3>2, <1>2, <1>8, <2>2
  <2> QED BY <2>1, <2>2
<1>10. s = r
  BY <1>6, <1>7, <1>9, SeqEqual
<1>11. b = Body(buf, i, n, h, d)
  BY DEF Body, b, c, x, y
<1> QED BY <1>4, <1>5, <1>10, <1>11 DEF IsBody, s, r

\* Remainders as far as the lengths of a packet go.
LEMMA Byte ==
    ASSUME NEW k \in Int
    PROVE  (k \in 0 .. 255 => k % 256 = k) /\ (k \in -256 .. -1 => k % 256 = k + 256)
OBVIOUS

LEMMA LessSame == ASSUME NEW k, NEW m, m = k PROVE Less(k, m) = k
BY DEF Less

\* The indices of a round of the loop (first: of a frame, pcr: with one, pes: the
\* length of the header, left: the bytes that are not written).
I0(pcr)               == IF pcr THEN 12 ELSE 4
Room(first, pcr)      == IF first THEN FirstRoom(I0(pcr)) ELSE DataLen
Stuff(first, pcr, left) == (Room(first, pcr) - left) % 256
I1(first, pcr, left)  == IF left >= DataLen THEN I0(pcr) ELSE (I0(pcr) + Stuff(first, pcr, left)) % 256
H(first, pcr, pes, left) ==
    IF first /\ I1(first, pcr, left) < TsLen THEN Less(pes, TsLen - I1(first, pcr, left)) ELSE 0
I2(first, pcr, pes, left) == I1(first, pcr, left) + H(first, pcr, pes, left)
D(first, pcr, pes, left) ==
    IF I2(first, pcr, pes, left) < TsLen
    THEN Less(TsLen - I2(first, pcr, pes, left),
              ((IF left >= DataLen THEN Room(first, pcr) ELSE left) - H(first, pcr, pes, left)) % 256)
    ELSE 0

\* The packet is filled, with the header and as much of the frame as there is
\* room for; what is over is stuffed, but not so next to a PCR.
IndicesRight(first, pcr, pes, left, stuff, i1, h, d) ==
    /\ i1 \in 4 .. 188 /\ h = (IF first THEN pes ELSE 0) /\ d \in Nat /\ d <= left - h
    /\ (i1 + h) + d = 188
    /\ left >= DataLen => i1 = I0(pcr)
    /\ left < DataLen => i1 = 188 - left /\ i1 > 4 /\ stuff \in 0 .. 255 /\ d = left - h
    /\ left < DataLen /\ ~pcr => stuff = i1 - 4

LEMMA Indices ==
    ASSUME NEW first \in BOOLEAN, NEW pcr \in BOOLEAN, NEW pes \in {14, 19}, NEW left \in Nat,
           pcr => first, left > 0, first => left >= pes
    PROVE  IndicesRight(first, pcr, pes, left, Stuff(first, pcr, left), I1(first, pcr, left),
                        H(first, pcr, pes, left), D(first, pcr, pes, left))
<1> DEFINE full == left >= DataLen
           i0 == I0(pcr)
           room == Room(first, pcr)
           stuff == Stuff(first, pcr, left)
           i1 == I1(first, pcr, left)
           h == H(first, pcr, pes, left)
           i2 == I2(first, pcr, pes, left)
           d == D(first, pcr, pes, left)
<1>e0. i0 = IF pcr THEN 12 ELSE 4
  BY DEF I0
<1>e1. room = IF first THEN FirstRoom(i0) ELSE DataLen
  BY DEF Room
<1>e2. stuff = (room - left) % 256
  BY DEF Stuff
<1>e3. i1 = IF full THEN i0 ELSE (i0 + stuff) % 256
  BY DEF I1
<1>e4. h = IF first /\ i1 < TsLen THEN Less(pes, TsLen - i1) ELSE 0
  BY DEF H
<1>e5. i2 = i1 + h
  BY DEF I2
<1>e6. d = IF i2 < TsLen THEN Less(TsLen - i2, ((IF full THEN room ELSE left) - h) % 256) ELSE 0
  BY DEF D
<1>e7. full <=> left >= DataLen
  OBVIOUS
<1> HIDE DEF full, i0, room, stuff, i1, h, i2, d
<1>1. pes \in Nat /\ i0 \in {4, 12} /\ room = 188 - i0
  BY <1>e0, <1>e1 DEF FirstRoom, DataLen
<1>3. IF full THEN left >= 184 ELSE left <= 183
  BY <1>e7 DEF DataLen
<1>5. CASE full
  <2>1. i1 = i0
    BY <1>e3, <1>5
  <2>2. h = IF first THEN pes ELSE 0
    BY <1>e4, <1>1, <2>1 DEF Less, TsLen
  <2>3. (room - h) % 256 = room - h
    <3> DEFINE m == room - h
    <3>1. m \in Int /\ m \in 0 .. 255
      BY <1>1, <2>2
    <3> HIDE DEF m
    <3>2. m % 256 = m
      BY <3>1, Byte
    <3> QED BY <3>2 DEF m
  <2>4. d = (188 - i1) - h
    <3>1. i2 < TsLen /\ TsLen - i2 = (188 - i1) - h /\ room - h = (188 - i1) - h
      BY <1>e5, <1>1, <2>1, <2>2 DEF TsLen
    <3>2. d = Less(TsLen - i2, (room - h) % 256)
      BY <1>e6, <1>5, <3>1
    <3> QED BY <3>1, <3>2, <2>3, LessSame
  <2>5. i1 \in 4 .. 188 /\ d \in Nat /\ (i1 + h) + d = 188
    BY <1>1, <2>1, <2>2, <2>4
  <2>6. d <= left - h
    BY <1>1, <1>3, <1>5, <2>1, <2>2, <2>4
  <2>7. left >= DataLen /\ ~(left < DataLen)
    BY <1>e7, <1>5 DEF DataLen
  <2> QED BY <2>1, <2>2, <2>5, <2>6, <2>7, Zenon DEF IndicesRight, i0, stuff, i1, h, d
<1>6. CASE ~full
  <2>0. left <= 183
    BY <1>3, <1>6
  <2>2. stuff = IF left <= room THEN room - left ELSE (room - left) + 256
    <3> DEFINE m == room - left
    <3>0. m \in Int /\ m >= -256 /\ m <= 255
      BY <1>1, <2>0
    <3>1. left <= room <=> m >= 0
      BY <1>1
    <3> HIDE DEF m
    <3>2. stuff = m % 256
      BY <1>e2 DEF m
    <3>3. m \in 0 .. 255 => m % 256 = m
      BY <3>0, Byte
    <3>4. m \in -256 .. -1 => m % 256 = m + 256
      BY <3>0, Byte
    <3>5. stuff = IF m >= 0 THEN m ELSE m + 256
      BY <3>0, <3>2, <3>3, <3>4
    <3> QED BY <3>1, <3>5 DEF m
  <2>3. stuff \in 0 .. 255
    BY <1>1, <2>0, <2>2
  <2>4. i1 = 188 - left
    <3>1. i1 = (i0 + stuff) % 256
      BY <1>e3, <1>6
    <3> DEFINE m == 188 - left
    <3>2. m \in Int /\ m \in 0 .. 255 /\ (i0 + stuff = m \/ i0 + stuff = m + 256)
      BY <1>1, <2>0, <2>2
    <3> HIDE DEF m
    <3>3. m % 256 = m
      BY <3>2, Byte
    <3>4. (m + 256) % 256 = m
      BY <3>2
    <3> QED BY <3>1, <3>2, <3>3, <3>4 DEF m
  <2>5. i1 \in 5 .. 187
    BY <2>0, <2>4
  <2>6. h = IF first THEN pes ELSE 0
    BY <1>e4, <1>1, <2>4, <2>5 DEF Less, TsLen
  <2>7. left - h = (188 - i1) - h /\ left - h \in Nat /\ left - h \in 0 .. 255
    BY <1>1, <2>0, <2>4, <2>6
  <2>8. (left - h) % 256 = left - h
    <3> DEFINE m == left - h
    <3>1. m \in Int /\ m \in 0 .. 255
      BY <2>7
    <3> HIDE DEF m
    <3>2. m % 256 = m
      BY <3>1, Byte
    <3> QED BY <3>2 DEF m
  <2>9. d = left - h
    <3>1. i2 \in Int /\ TsLen - i2 = left - h
      BY <1>e5, <1>1, <2>5, <2>6, <2>7 DEF TsLen
    <3>2. CASE i2 < TsLen
      <4>1. d = Less(TsLen - i2, (left - h) % 256)
        BY <1>e6, <1>6, <3>2
      <4> QED BY <4>1, <3>1, <2>8, LessSame
    <3>3. CASE ~(i2 < TsLen)
      <4>1. d = 0
        BY <1>e6, <3>3
      <4> QED BY <4>1, <3>1, <3>3, <2>7 DEF TsLen
    <3> QED BY <3>2, <3>3
  <2>10. ~pcr => stuff = i1 - 4
    BY <1>e0, <1>1, <2>0, <2>2, <2>4
  <2>12. i1 \in 4 .. 188 /\ d \in Nat /\ d <= left - h /\ (i1 + h) + d = 188 /\ i1 > 4
    BY <1>1, <2>4, <2>5, <2>6, <2>7, <2>9
  <2>13. ~(left >= DataLen)
    BY <1>e7, <1>6
  <2> QED BY <2>3, <2>4, <2>6, <2>9, <2>10, <2>12, <2>13, Zenon DEF IndicesRight, stuff, i1, h, d
<1> QED BY <1>5, <1>6

\* The bytes of a PES packet.
LEMMA PesForm ==
    ASSUME NEW m \in Nat
    PROVE  /\ PesLen(frame) \in {14, 19} /\ PesLen(frame) \in Nat
           /\ PesPart(m) \in Seq(Nat) /\ Len(PesPart(m)) = PesLen(frame) + m
           /\ \A i \in 1 .. PesLen(frame) + m :
                  PesPart(m)[i] = IF i <= PesLen(frame) THEN HdrByte(i - 1) ELSE FrameByte((i - PesLen(frame)) - 1)
<1> DEFINE p == PesLen(frame)
           q == PesPart(m)
<1>1. p \in {14, 19} /\ p \in Nat
  BY DEF PesLen
<1>2. q = [i \in 1 .. p + m |-> IF i <= p THEN HdrByte(i - 1) ELSE FrameByte((i - p) - 1)]
  BY DEF PesPart
<1> HIDE DEF p, q
<1>3. \A i \in 1 .. p + m : q[i] = IF i <= p THEN HdrByte(i - 1) ELSE FrameByte((i - p) - 1)
  BY <1>2
<1>4. q \in [1 .. p + m -> Nat]
  BY <1>1, <1>2 DEF HdrByte, FrameByte
<1>5. p + m \in Nat
  BY <1>1
<1>6. q \in Seq(Nat) /\ Len(q) = p + m
  BY <1>4, <1>5
<1> QED BY <1>1, <1>3, <1>6 DEF p, q

\* The two parts of a PES packet.
LEMMA PesJoin ==
    ASSUME TsTypes, NEW n \in Nat, NEW d \in Nat
    PROVE  /\ <<>> \o Rest(0, PesLen(frame), d) = PesPart(d)
           /\ PesPart(n) \o Rest(n, 0, d) = PesPart(n + d)
           /\ PesPart(n) \in Seq(Nat) /\ PesPart(n) # <<>>
<1> DEFINE p == PesLen(frame)
<1>0. p \in {14, 19} /\ p \in Nat
  BY PesForm
<1>1. \A m \in Nat : /\ PesPart(m) \in Seq(Nat) /\ Len(PesPart(m)) = p + m
                     /\ \A i \in 1 .. p + m :
                           PesPart(m)[i] = IF i <= p THEN HdrByte(i - 1) ELSE FrameByte((i - p) - 1)
  BY PesForm
<1> HIDE DEF p
<1>2. /\ Rest(0, p, d) \in Seq(Nat) /\ Len(Rest(0, p, d)) = p + d
      /\ \A i \in 1 .. p + d : Rest(0, p, d)[i] = IF i <= p THEN HdrByte(i - 1) ELSE FrameByte((0 + (i - p)) - 1)
  BY <1>0 DEF Rest, HdrByte, FrameByte
<1>3. <<>> \o Rest(0, p, d) = PesPart(d)
  <2>1. <<>> \o Rest(0, p, d) = Rest(0, p, d)
    <3> DEFINE r == Rest(0, p, d)
    <3>1. r \in Seq(Nat)
      BY <1>2
    <3> HIDE DEF r
    <3> DEFINE e == <<>>
    <3>2. e \in Seq(Nat) /\ Len(e) = 0
      OBVIOUS
    <3> HIDE DEF e
    <3>3. /\ e \o r \in Seq(Nat) /\ Len(e \o r) = Len(e) + Len(r) /\ Len(r) \in Nat
          /\ \A i \in 1 .. Len(r) : (e \o r)[Len(e) + i] = r[i]
      BY <3>1, <3>2, Joined
    <3>4. Len(e \o r) = Len(r) /\ \A i \in 1 .. Len(e \o r) : (e \o r)[i] = r[i]
      BY <3>2, <3>3
    <3>5. e \o r = r
      BY <3>1, <3>3, <3>4, SeqEqual
    <3> QED BY <3>5 DEF r, e
  <2>2. \A i \in 1 .. p + d : Rest(0, p, d)[i] = PesPart(d)[i]
    <3> DEFINE r == Rest(0, p, d)
               q == PesPart(d)
    <3>1. \A i \in 1 .. p + d : q[i] = IF i <= p THEN HdrByte(i - 1) ELSE FrameByte((i - p) - 1)
      BY <1>1
    <3>2. \A i \in 1 .. p + d : r[i] = IF i <= p THEN HdrByte(i - 1) ELSE FrameByte((0 + (i - p)) - 1)
      BY <1>2
    <3> HIDE DEF r, q
    <3>3. \A i \in 1 .. p + d : 0 + (i - p) = i - p
      BY <1>0
    <3>4. \A i \in 1 .. p + d : r[i] = q[i]
      BY <3>1, <3>2, <3>3
    <3> QED BY <3>4 DEF r, q
  <2>3. PesPart(d) \in Seq(Nat) /\ Len(PesPart(d)) = p + d
    BY <1>1
  <2>4. Rest(0, p, d) = PesPart(d)
    BY <1>2, <2>2, <2>3, SeqEqual
  <2> QED BY <2>1, <2>4
<1> DEFINE a == PesPart(n)
           b == Rest(n, 0, d)
           c == PesPart(n + d)
<1>4. /\ a \in Seq(Nat) /\ Len(a) = p + n
      /\ \A i \in 1 .. p + n : a[i] = IF i <= p THEN HdrByte(i - 1) ELSE FrameByte((i - p) - 1)
  BY <1>1
<1>5. /\ b \in Seq(Nat) /\ Len(b) = d /\ \A i \in 1 .. d : b[i] = FrameByte((n + i) - 1)
  BY DEF Rest, HdrByte, FrameByte
<1>6. /\ c \in Seq(Nat) /\ Len(c) = p + (n + d)
      /\ \A i \in 1 .. p + (n + d) : c[i] = IF i <= p THEN HdrByte(i - 1) ELSE FrameByte((i - p) - 1)
  BY <1>1
<1> HIDE DEF a, b, c
<1>7. /\ a \o b \in Seq(Nat) /\ Len(a \o b) = Len(a) + Len(b)
      /\ \A i \in 1 .. Len(a) : (a \o b)[i] = a[i]
      /\ \A i \in 1 .. Len(b) : (a \o b)[Len(a) + i] = b[i]
  BY <1>4, <1>5, Joined
<1> DEFINE ab == a \o b
<1> HIDE DEF ab
<1>8. /\ ab \in Seq(Nat) /\ Len(ab) = p + (n + d)
      /\ \A i \in 1 .. p + n : ab[i] = a[i]
      /\ \A i \in 1 .. d : ab[(p + n) + i] = b[i]
  BY <1>0, <1>4, <1>5, <1>7 DEF ab
<1>9. \A i \in 1 .. p + (n + d) : ab[i] = c[i]
  <2> TAKE i \in 1 .. p + (n + d)
  <2>1. CASE i <= p + n
    <3>1. i \in 1 .. p + n
      BY <1>0, <2>1
    <3> QED BY <3>1, <1>4, <1>6, <1>8
  <2>2. CASE ~(i <= p + n)
    <3> DEFINE m == i - (p + n)
    <3> HIDE DEF m
    <3>1. m \in 1 .. d /\ i = (p + n) + m /\ (n + m) - 1 = (i - p) - 1 /\ ~(i <= p)
      BY <1>0, <2>2 DEF m
    <3>2. ab[i] = FrameByte((n + m) - 1)
      BY <3>1, <1>5, <1>8
    <3> QED BY <3>1, <3>2, <1>6
  <2> QED BY <2>1, <2>2
<1>10. ab = c
  BY <1>6, <1>8, <1>9, SeqEqual
<1>11. a # <<>>
  <2>1. Len(a) > 0 /\ Len(<<>>) = 0
    BY <1>0, <1>4
  <2> QED BY <2>1
<1> QED BY <1>3, <1>4, <1>10, <1>11 DEF a, b, c, ab, p

\* One round of the loop.
LEMMA PacketStep == TsInv /\ MuxPacket => TsInv'
<1> SUFFICES ASSUME TsInv, MuxPacket PROVE TsInv'
  OBVIOUS
<1> DEFINE k     == IF frame.video THEN "v" ELSE "a"
           pes   == PesLen(frame)
           first == hdr = 0
           left  == pes + frame.len - hdr - data
           pcr   == first /\ frame.video /\ frame.key
           i0    == IF pcr THEN 12 ELSE 4
           full  == left >= DataLen
           room  == IF first THEN FirstRoom(i0) ELSE DataLen
           stuff == (room - left) % 256
           i1    == IF full THEN i0 ELSE (i0 + stuff) % 256
           h     == IF first /\ i1 < TsLen THEN Less(pes, TsLen - i1) ELSE 0
           i2    == i1 + h
           d     == IF i2 < TsLen THEN Less(TsLen - i2, ((IF full THEN room ELSE left) - h) % 256) ELSE 0
           buf0  == IF pcr THEN WithPcr(tsBuf) ELSE tsBuf
           buf1  == IF full THEN buf0 ELSE Stuffed(buf0, i0, stuff)
           x     == [j \in 1 .. h |-> HdrByte(j - 1)]
           y     == [j \in 1 .. d |-> FrameByte(data + j - 1)]
           body  == Copied(Copied(buf1, i1, x), i2, y)
<1>1. /\ muxing /\ left > 0
      /\ tsBuf' = body /\ hdr' = hdr + h /\ data' = data + d
      /\ cc' = [cc EXCEPT ![k] = NextCounter(@)]
      /\ payload' = payload \o PayloadOf(pcr \/ ~full, tsBuf')
      /\ inOrder' = (inOrder /\ cc'[k] = (cc[k] + 1) % 16 /\ first = (payload = <<>>))
      /\ UNCHANGED <<patCc, pmtCc, frame, muxing, tables, calls>>
  BY DEF MuxPacket
<1>0. left > 0
  BY DEF MuxPacket
<1>2. /\ pes \in {14, 19} /\ frame.len \in Nat /\ data \in Nat /\ hdr \in Nat /\ data <= frame.len
      /\ tsBuf \in Seq(Nat) /\ Len(tsBuf) = DataLen /\ calls > 0 /\ inOrder = TRUE /\ k \in {"v", "a"}
      /\ frame.video \in BOOLEAN /\ frame.key \in BOOLEAN /\ cc \in [{"v", "a"} -> 0 .. 15]
      /\ payload \in Seq(Nat) /\ calls \in Nat
  BY <1>1 DEF TsInv, TsTypes, Written, PesLen
<1>3. \/ hdr = 0 /\ data = 0 /\ payload = <<>>
      \/ hdr = pes /\ ~SmallKey(frame) /\ payload = PesPart(data)
  <2>1. hdr = pes /\ SmallKey(frame) /\ data = frame.len => left = 0
    BY <1>2
  <2>2. \/ hdr = 0 /\ data = 0 /\ payload = <<>>
        \/ hdr = pes /\ ~SmallKey(frame) /\ payload = PesPart(data)
        \/ hdr = pes /\ SmallKey(frame) /\ data = frame.len
    BY <1>2 DEF TsInv, Written
  <2>3. left # 0
    BY <1>0, <1>2
  <2> QED BY <2>1, <2>2, <2>3
<1>4. IF first THEN data = 0 /\ left = pes + frame.len ELSE left = frame.len - data
  BY <1>2, <1>3
<1>5. left \in Nat
  BY <1>2, <1>4
<1>6. first \in BOOLEAN /\ pcr \in BOOLEAN /\ full \in BOOLEAN /\ (pcr => first)
  BY <1>2
<1>7. /\ i0 = I0(pcr)
      /\ stuff = Stuff(first, pcr, left)
      /\ i1 = I1(first, pcr, left)
      /\ h = H(first, pcr, pes, left)
      /\ d = D(first, pcr, pes, left)
  BY DEF I0, Room, Stuff, I1, H, I2, D
<1>e7. full <=> left >= DataLen
  OBVIOUS
<1>e5. i2 = i1 + h
  OBVIOUS
<1>8. SmallKey(frame) <=> frame.video /\ frame.key /\ pes + frame.len < 184 /\ pes + frame.len # 176
  BY DEF SmallKey, DataLen
<1>9. /\ buf0 = IF pcr THEN WithPcr(tsBuf) ELSE tsBuf
      /\ buf1 = IF full THEN buf0 ELSE Stuffed(buf0, i0, stuff)
      /\ x = [j \in 1 .. h |-> HdrByte(j - 1)]
      /\ y = [j \in 1 .. d |-> FrameByte(data + j - 1)]
      /\ body = Copied(Copied(buf1, i1, x), i2, y)
  OBVIOUS
<1>10. pcr <=> first /\ frame.video /\ frame.key
  OBVIOUS
<1>11. first <=> hdr = 0
  OBVIOUS
<1> HIDE DEF k, pes, first, left, pcr, i0, full, room, stuff, i1, h, i2, d, buf0, buf1, x, y, body
<1>i. i0 = IF pcr THEN 12 ELSE 4
  BY <1>7 DEF I0
<1>12. /\ i1 \in 4 .. 188 /\ h = (IF first THEN pes ELSE 0) /\ d \in Nat /\ data + d <= frame.len
       /\ (i1 + h) + d = 188
       /\ full => i1 = i0
       /\ ~full => i1 = 188 - left /\ i1 > 4 /\ stuff \in 0 .. 255 /\ data + d = frame.len
       /\ ~full /\ ~pcr => stuff = i1 - 4
  <2>1. left > 0 /\ (first => left >= pes)
    BY <1>1, <1>2, <1>4
  <2>2. IndicesRight(first, pcr, pes, left, stuff, i1, h, d)
    BY <2>1, <1>2, <1>5, <1>6, <1>7, Indices
  <2>3. left - h = frame.len - data
    BY <2>2, <1>2, <1>4 DEF IndicesRight
  <2>4. full \/ left < DataLen
    BY <1>e7, <1>5 DEF DataLen
  <2>5. d \in Nat /\ d <= frame.len - data /\ (~full => d = frame.len - data)
    BY <2>2, <2>3, <2>4 DEF IndicesRight
  <2> DEFINE n == frame.len
  <2>7. n \in Nat /\ data \in Nat
    BY <1>2
  <2> HIDE DEF n
  <2>8. d \in Nat /\ d <= n - data /\ (~full => d = n - data)
    BY <2>5 DEF n
  <2>9. data + d <= n /\ (~full => data + d = n)
    BY <2>7, <2>8
  <2>6. data + d <= frame.len /\ (~full => data + d = frame.len)
    BY <2>9 DEF n
  <2> QED BY <2>2, <2>4, <2>5, <2>6, <1>e7, <1>7 DEF IndicesRight
<1>13. /\ buf0 \in Seq(Nat) /\ Len(buf0) = DataLen /\ (pcr => buf0[1] = 7)
  BY <1>2, <1>9, PcrForm
<1>14. /\ buf1 \in Seq(Nat) /\ Len(buf1) = DataLen
       /\ pcr => buf1[1] = 7
       /\ ~pcr /\ ~full => buf1[1] = i1 - 5
  <2>1. CASE full
    BY <2>1, <1>9, <1>13
  <2>2. CASE ~full
    <3>1. i0 \in 4 .. 12 /\ stuff \in 0 .. 255 /\ buf1 = Stuffed(buf0, i0, stuff)
      BY <2>2, <1>i, <1>9, <1>12
    <3>2. /\ buf1 \in Seq(Nat) /\ Len(buf1) = DataLen
          /\ \A j \in 1 .. i0 - 4 : buf1[j] = buf0[j]
          /\ stuff > 0 => buf1[i0 - 3] = stuff - 1
      BY <3>1, <1>13, StuffedForm
    <3>3. pcr => i0 = 12
      BY <1>i
    <3>4. pcr => buf1[1] = 7
      BY <3>2, <3>3, <1>13
    <3>5. ~pcr => i0 = 4 /\ stuff = i1 - 4 /\ stuff > 0
      BY <2>2, <1>i, <1>12
    <3>6. ~pcr => buf1[1] = i1 - 5
      BY <3>2, <3>5, <1>12
    <3> QED BY <3>2, <3>4, <3>6
  <2> QED BY <2>1, <2>2
<1>15. /\ body \in Seq(Nat) /\ Len(body) = DataLen
       /\ \A j \in 1 .. i1 - 4 : body[j] = buf1[j]
       /\ SubSeq(body, i1 - 3, DataLen) = Rest(data, h, d)
  <2>1. h \in Nat
    BY <1>2, <1>12
  <2>2. body = Body(buf1, i1, data, h, d)
    BY <1>e5, <1>9 DEF Body
  <2>3. /\ buf1 \in Seq(Nat) /\ Len(buf1) = DataLen /\ i1 \in 4 .. 188 /\ data \in Nat /\ d \in Nat /\ (i1 + h) + d = 188
    BY <1>2, <1>12, <1>14
  <2>4. IsBody(body, buf1, i1, data, h, d)
    BY <2>1, <2>2, <2>3, BodyForm
  <2> QED BY <2>4 DEF IsBody
<1>16. pcr \/ ~full => i1 > 4 /\ body[1] = buf1[1]
  <2>1. pcr \/ ~full => i1 > 4
    BY <1>i, <1>12
  <2>2. i1 > 4 => 1 \in 1 .. i1 - 4
    BY <1>12
  <2> QED BY <2>1, <2>2, <1>15
<1>17. (~full /\ pcr /\ left # 176) <=> (first /\ SmallKey(frame))
  BY <1>4, <1>2, <1>5, <1>e7, <1>8, <1>10 DEF DataLen
<1> DEFINE pay == PayloadOf(pcr \/ ~full, body)
<1>18. pay = SubSeq(body, IF pcr \/ ~full THEN 2 + body[1] ELSE 1, DataLen)
  BY DEF PayloadOf
<1> HIDE DEF pay
<1>19. payload' = payload \o pay
  BY <1>1 DEF pay
<1>20. ASSUME first /\ SmallKey(frame)
       PROVE  payload' \in Seq(Nat) /\ data' \in Nat /\ hdr' \in Nat /\ Written'
  <2>1. pay = SubSeq(body, 9, DataLen)
    <3>1. pcr /\ body[1] = 7
      BY <1>14, <1>16, <1>17, <1>20
    <3>2. pay = SubSeq(body, 2 + body[1], DataLen)
      BY <3>1, <1>18
    <3>3. 2 + body[1] = 9
      BY <3>1
    <3> QED BY <3>2, <3>3
  <2>2. pay \in Seq(Nat) /\ Len(pay) = 176
    <3>1. 9 \in Int /\ DataLen \in Int /\ 9 >= 1 /\ DataLen <= Len(body) /\ 9 <= DataLen + 1 /\ (DataLen - 9) + 1 = 176
      BY <1>15 DEF DataLen
    <3> DEFINE m == 9
               n == DataLen
    <3> HIDE DEF m, n
    <3>2. m \in Int /\ n \in Int /\ m >= 1 /\ n <= Len(body) /\ m <= n + 1 /\ (n - m) + 1 = 176
      BY <3>1 DEF m, n
    <3>3. pay = SubSeq(body, m, n) /\ body \in Seq(Nat)
      BY <2>1, <1>15 DEF m, n
    <3>4. IsCut(pay, body, m, n)
      BY <3>2, <3>3, Cutting
    <3> QED BY <3>2, <3>4 DEF IsCut
  <2>3. payload' \in Seq(Nat) /\ Len(payload') = 176
    <3>1. payload \in Seq(Nat) /\ Len(payload) = 0
      BY <1>2, <1>3, <1>11, <1>20, PesJoin DEF TsInv
    <3>2. payload \o pay \in Seq(Nat) /\ Len(payload \o pay) = Len(payload) + Len(pay)
      BY <3>1, <2>2, Joined
    <3> QED BY <1>19, <3>1, <3>2, <2>2
  <2>4. hdr' = pes /\ data' = frame.len
    BY <1>1, <1>2, <1>11, <1>12, <1>17, <1>20
  <2>5. SmallKey(frame')
    BY <1>1, <1>20
  <2>6. Written'
    <3>0. frame' = frame /\ PesLen(frame') = pes /\ muxing' = TRUE
      BY <1>1, <1>2 DEF pes, TsInv, TsTypes
    <3>1. frame' = frame /\ PesLen(frame') = pes /\ muxing' = TRUE /\ data' <= frame'.len
      BY <3>0, <2>4, <1>2
    <3>2. (hdr = PesLen(frame) /\ SmallKey(frame) /\ data = frame.len /\ Len(payload) = 176)'
      BY <3>1, <2>3, <2>4, <2>5
    <3> QED BY <3>1, <3>2 DEF Written
  <2>7. data' \in Nat /\ hdr' \in Nat
    BY <2>4, <1>2
  <2> QED BY <2>3, <2>6, <2>7
<1>21. ASSUME ~(first /\ SmallKey(frame))
       PROVE  payload' \in Seq(Nat) /\ data' \in Nat /\ hdr' \in Nat /\ Written'
  <2>1. pay = Rest(data, h, d)
    <3>1. pcr \/ ~full => body[1] = i1 - 5
      <4>1. CASE pcr /\ full
        BY <4>1, <1>12, <1>14, <1>16, <1>i
      <4>2. CASE pcr /\ ~full
        <5>1. left = 176
          BY <4>2, <1>17, <1>21
        <5>2. i1 = 12
          BY <4>2, <5>1, <1>12
        <5> QED BY <4>2, <5>2, <1>14, <1>16
      <4>3. CASE ~pcr /\ ~full
        BY <4>3, <1>14, <1>16
      <4> QED BY <4>1, <4>2, <4>3, <1>6
    <3>2. ~(pcr \/ ~full) => i1 - 3 = 1
      BY <1>12, <1>i
    <3>3. pcr \/ ~full => 2 + body[1] = i1 - 3
      BY <3>1, <1>12
    <3>4. pay = SubSeq(body, i1 - 3, DataLen)
      BY <3>2, <3>3, <1>18
    <3> QED BY <3>4, <1>15
  <2>2. ~SmallKey(frame) /\ payload' = PesPart(data + d) /\ hdr' = pes
    <3>1. CASE first
      <4>1. data = 0 /\ payload = <<>> /\ h = pes /\ hdr = 0
        BY <3>1, <1>2, <1>3, <1>11, <1>12
      <4>2. payload' = <<>> \o Rest(0, PesLen(frame), d)
        BY <4>1, <2>1, <1>19 DEF pes
      <4>3. payload' = PesPart(d)
        BY <4>2, <1>2, <1>12, PesJoin DEF TsInv
      <4>4. data + d = d /\ hdr' = pes
        BY <4>1, <1>1, <1>2, <1>12
      <4> QED BY <4>3, <4>4, <3>1, <1>21
    <3>2. CASE ~first
      <4>1. ~SmallKey(frame) /\ payload = PesPart(data) /\ h = 0 /\ hdr = pes
        BY <3>2, <1>3, <1>11, <1>12
      <4>2. payload' = PesPart(data) \o Rest(data, 0, d)
        BY <4>1, <2>1, <1>19
      <4>3. payload' = PesPart(data + d)
        BY <4>2, <1>2, <1>12, PesJoin DEF TsInv
      <4>4. hdr' = pes
        BY <4>1, <1>1, <1>2
      <4> QED BY <4>1, <4>3, <4>4
    <3> QED BY <3>1, <3>2
  <2>3. data' = data + d /\ data' \in Nat /\ hdr' \in Nat /\ data' <= frame.len
    BY <2>2, <1>1, <1>2, <1>12
  <2>4. payload' \in Seq(Nat)
    BY <2>2, <2>3, PesJoin DEF TsInv
  <2>6. Written'
    <3>1. frame' = frame /\ PesLen(frame') = pes /\ SmallKey(frame') = SmallKey(frame) /\ muxing' = TRUE
      BY <1>1, <1>2 DEF pes, TsInv, TsTypes
    <3>2. (hdr = PesLen(frame) /\ ~SmallKey(frame) /\ payload = PesPart(data))'
      BY <3>1, <2>2, <2>3, <1>1 DEF PesPart
    <3>3. data' <= frame'.len /\ muxing' = TRUE
      BY <3>1, <2>3
    <3> QED BY <3>2, <3>3 DEF Written
  <2> QED BY <2>3, <2>4, <2>6
<1>22. payload' \in Seq(Nat) /\ data' \in Nat /\ hdr' \in Nat /\ Written'
  BY <1>20, <1>21
<1>23. cc' \in [{"v", "a"} -> 0 .. 15] /\ cc'[k] = (cc[k] + 1) % 16
  <2>1. cc[k] \in 0 .. 15
    BY <1>2
  <2>2. (cc[k] + 1) % 16 \in 0 .. 15
    BY <2>1
  <2>3. cc' = [cc EXCEPT ![k] = (cc[k] + 1) % 16]
    BY <1>1 DEF NextCounter
  <2> QED BY <1>2, <2>2, <2>3
<1>24. first = (payload = <<>>)
  <2>1. first => payload = <<>>
    BY <1>2, <1>3, <1>11
  <2>2. ~first => payload # <<>>
    BY <1>2, <1>3, <1>11, PesJoin DEF TsInv
  <2> QED BY <2>1, <2>2, <1>6
<1>25. TsTypes'
  <2>1. frame' = frame /\ calls' = calls /\ muxing' = muxing
    BY <1>1
  <2>2. tsBuf' \in Seq(Nat) /\ Len(tsBuf') = DataLen
    BY <1>1, <1>15
  <2> QED BY <1>22, <1>23, <2>1, <2>2 DEF TsTypes, TsInv
<1>26. TablesInv'
  BY <1>1 DEF TsInv, TablesInv
<1>27. inOrder' = TRUE
  BY <1>1, <1>2, <1>23, <1>24
<1>28. (muxing => calls > 0)'
  BY <1>1, <1>2
<1> QED BY <1>22, <1>25, <1>26, <1>27, <1>28 DEF TsInv

LEMMA TsInvInit == TsInit => TsInv
<1> SUFFICES ASSUME TsInit PROVE TsInv
  OBVIOUS
<1>1. TsTypes
  <2>1. cc \in [{"v", "a"} -> 0 .. 15]
    <3>1. DOMAIN [v |-> 0, a |-> 0] = {"v", "a"}
      OBVIOUS
    <3>2. [v |-> 0, a |-> 0] = [k \in {"v", "a"} |-> 0]
      OBVIOUS
    <3> QED BY <3>2 DEF TsInit
  <2>2. payload \in Seq(Nat)
    BY DEF TsInit
  <2>3. frame \in [video : BOOLEAN, key : BOOLEAN, dts : BOOLEAN, len : Nat]
    BY DEF TsInit
  <2> QED BY <2>1, <2>2, <2>3 DEF TsInit, TsTypes
<1> QED BY <1>1 DEF TsInit, TsInv, TablesInv, Written

\* Every step of the muxer keeps TsInv.
LEMMA TsInvNext == TsInv /\ [TsNext]_tsVars => TsInv'
<1> SUFFICES ASSUME TsInv, [TsNext]_tsVars PROVE TsInv'
  OBVIOUS
<1>1. ASSUME NEW f \in Frames, MuxStart(f) PROVE TsInv'
  <2>1. f \in [video : BOOLEAN, key : BOOLEAN, dts : BOOLEAN, len : Nat]
    BY TsAssumption
  <2>2. /\ tsBuf' = Fill(DataLen, Stale) /\ frame' = f /\ hdr' = 0 /\ data' = 0 /\ muxing' = TRUE
        /\ payload' = <<>> /\ calls' = calls + 1 /\ UNCHANGED <<cc, patCc, pmtCc, inOrder, tables>>
    BY <1>1 DEF MuxStart
  <2>3. tsBuf' \in Seq(Nat) /\ Len(tsBuf') = DataLen
    <3>1. DataLen \in Nat /\ Stale \in Nat
      BY DEF DataLen, Stale
    <3>2. Fill(DataLen, Stale) \in Seq(Nat) /\ Len(Fill(DataLen, Stale)) = DataLen
      BY <3>1, FillForm
    <3> QED BY <2>2, <3>2
  <2>4. TsTypes'
    BY <2>1, <2>2, <2>3 DEF TsInv, TsTypes
  <2>5. calls' > 0 /\ calls' \in Nat
    BY <2>2 DEF TsInv, TsTypes
  <2>6. Written'
    BY <2>1, <2>2 DEF Written
  <2> QED BY <2>2, <2>4, <2>5, <2>6 DEF TsInv, TablesInv
<1>2. CASE MuxReturns
  <2>1. /\ muxing /\ hdr + data = PesLen(frame) + frame.len /\ muxing' = FALSE
        /\ UNCHANGED <<cc, patCc, pmtCc, frame, hdr, data, payload, inOrder, tables, calls>>
    BY <1>2 DEF MuxReturns
  <2>2. PesLen(frame) \in {14, 19} /\ frame.len \in Nat /\ data \in Nat /\ calls > 0
    BY <2>1 DEF PesLen, TsInv, TsTypes
  <2>3. hdr # 0 /\ data = frame.len
    <3>1. hdr = 0 => data = 0
      BY <2>2 DEF TsInv, Written
    <3>2. hdr # 0 => hdr = PesLen(frame)
      BY <2>2 DEF TsInv, Written
    <3> QED BY <3>1, <3>2, <2>1, <2>2
  <2>4. TsTypes'
    BY <2>1 DEF TsInv, TsTypes
  <2>5. PesPart(data)' = PesPart(data)
    BY <2>1 DEF PesPart
  <2>6. Written'
    BY <2>1, <2>2, <2>3, <2>5 DEF TsInv, Written
  <2> QED BY <2>1, <2>4, <2>6 DEF TsInv, TablesInv
<1>3. CASE PatPmt
  <2>1. UNCHANGED <<cc, tsBuf, frame, hdr, data, muxing, payload, calls>>
    BY <1>3 DEF PatPmt
  <2>2. TsTypes'
    BY <2>1 DEF TsInv, TsTypes
  <2>3. PesPart(data)' = PesPart(data)
    BY <2>1 DEF PesPart
  <2>4. Written'
    BY <2>1, <2>3 DEF TsInv, Written
  <2>5. TablesInv' /\ inOrder' = TRUE
    <3>1. /\ tables' = WrapAt(patCc) /\ patCc' = WrapAt(patCc) + 1 /\ pmtCc' = WrapAt(pmtCc) + 1
          /\ inOrder' = (inOrder /\ (tables = -1 \/ tables' = (tables + 1) % 16) /\ WrapAt(pmtCc) = tables')
      BY <1>3 DEF PatPmt
    <3>2. pmtCc = patCc /\ inOrder = TRUE
      BY DEF TsInv, TablesInv
    <3>3. CASE tables = -1 /\ patCc = 0
      <4>1. WrapAt(patCc) = 0
        BY <3>3 DEF WrapAt
      <4>2. tables' = 0 /\ patCc' = 1 /\ pmtCc' = 1
        BY <4>1, <3>1, <3>2
      <4>3. WrapAt(pmtCc) = tables'
        BY <4>1, <4>2, <3>2
      <4>4. inOrder' = TRUE
        BY <4>3, <3>1, <3>2, <3>3
      <4> QED BY <4>2, <4>4 DEF TablesInv
    <3>4. CASE tables \in 0 .. 15 /\ patCc = tables + 1
      <4>1. WrapAt(patCc) = (tables + 1) % 16 /\ WrapAt(patCc) \in 0 .. 15
        BY <3>4 DEF WrapAt
      <4> QED BY <4>1, <3>1, <3>2, <3>4 DEF TablesInv
    <3> QED BY <3>3, <3>4 DEF TsInv, TablesInv
  <2> QED BY <2>1, <2>2, <2>4, <2>5 DEF TsInv
<1>4. CASE UNCHANGED tsVars
  <2>1. PesPart(data)' = PesPart(data)
    BY <1>4 DEF PesPart, tsVars
  <2> QED BY <1>4, <2>1 DEF tsVars, TsInv, TsTypes, TablesInv, Written
<1> QED BY <1>1, <1>2, <1>3, <1>4, PacketStep DEF TsNext

\* What the demuxer has of a finished frame is the whole PES packet, or of
\* another length.
LEMMA TsInvArrives == TsInv => TsArrives
<1> SUFFICES ASSUME TsInv PROVE TsArrives
  OBVIOUS
<1>1. Continuity
  BY DEF TsInv, Continuity
<1> DEFINE p == PesLen(frame)
           n == frame.len
           a == [i \in 1 .. PesLen(frame) |-> HdrByte(i - 1)]
           b == [i \in 1 .. frame.len |-> FrameByte(i - 1)]
<1>2. SUFFICES ASSUME calls > 0, ~muxing PROVE (payload = a \o b) = ~SmallKey(frame)
  BY <1>1 DEF TsArrives, PesComesBack
<1>3. p \in {14, 19} /\ p \in Nat /\ n \in Nat
  BY DEF PesLen, TsInv, TsTypes
<1>4. a \in Seq(Nat) /\ Len(a) = p /\ \A i \in 1 .. p : a[i] = HdrByte(i - 1)
  BY <1>3 DEF HdrByte
<1>5. b \in Seq(Nat) /\ Len(b) = n /\ \A i \in 1 .. n : b[i] = FrameByte(i - 1)
  BY <1>3 DEF FrameByte
<1> DEFINE c == PesPart(n)
<1>6. /\ c \in Seq(Nat) /\ Len(c) = p + n
      /\ \A i \in 1 .. p + n : c[i] = IF i <= p THEN HdrByte(i - 1) ELSE FrameByte((i - p) - 1)
  BY <1>3, PesForm
<1>7. \/ ~SmallKey(frame) /\ payload = c
      \/ SmallKey(frame) /\ Len(payload) = 176
  BY <1>2 DEF TsInv, Written
<1>8. SmallKey(frame) => p + n # 176
  BY DEF SmallKey, DataLen
<1>9. SmallKey(frame) \in BOOLEAN
  BY DEF SmallKey, TsInv, TsTypes
<1> HIDE DEF p, n, a, b, c
<1> DEFINE ab == a \o b
<1>10. /\ ab \in Seq(Nat) /\ Len(ab) = Len(a) + Len(b)
       /\ \A i \in 1 .. Len(a) : ab[i] = a[i]
       /\ \A i \in 1 .. Len(b) : ab[Len(a) + i] = b[i]
  BY <1>4, <1>5, Joined
<1> HIDE DEF ab
<1>11. /\ ab \in Seq(Nat) /\ Len(ab) = p + n
       /\ \A i \in 1 .. p : ab[i] = a[i]
       /\ \A i \in 1 .. n : ab[p + i] = b[i]
  BY <1>4, <1>5, <1>10
<1>12. \A i \in 1 .. p + n : ab[i] = c[i]
  <2> TAKE i \in 1 .. p + n
  <2>1. CASE i <= p
    <3>1. i \in 1 .. p
      BY <1>3, <2>1
    <3> QED BY <3>1, <2>1, <1>4, <1>6, <1>11
  <2>2. CASE ~(i <= p)
    <3> DEFINE m == i - p
    <3> HIDE DEF m
    <3>1. m \in 1 .. n /\ i = p + m /\ m - 1 = (i - p) - 1
      BY <1>3, <2>2 DEF m
    <3>2. ab[i] = FrameByte(m - 1)
      BY <3>1, <1>5, <1>11
    <3> QED BY <3>1, <3>2, <2>2, <1>6
  <2> QED BY <2>1, <2>2
<1>13. ab = c
  BY <1>6, <1>11, <1>12, SeqEqual
<1>14. CASE ~SmallKey(frame)
  BY <1>7, <1>13, <1>14 DEF ab
<1>15. CASE SmallKey(frame)
  <2>1. payload # ab
    BY <1>7, <1>8, <1>11, <1>15
  <2> QED BY <2>1, <1>15 DEF ab
<1> QED BY <1>14, <1>15

\* For every set of frames: a demuxer gets back the PES packet of every frame
\* that Mux is given, whole and in order, exactly if the frame is no small key
\* frame, and the continuity counters never jump.
THEOREM TsArrivesHolds == TsSpec => []TsArrives
<1>1. TsInit => TsInv
  BY TsInvInit
<1>2. TsInv /\ [TsNext]_tsVars => TsInv'
  BY TsInvNext
<1>3. TsInv => TsArrives
  BY TsInvArrives
<1> QED BY <1>1, <1>2, <1>3, PTL DEF TsSpec

---------------------------------------------------------------------------
(* Induction.                                                              *)

\* Induction over the naturals and over sequences.  What is to be proved is
\* given as the set of those for which it holds.
LEMMA NaturalsAll ==
    ASSUME NEW G \in SUBSET Nat, 0 \in G, \A n \in G : n + 1 \in G
    PROVE  G = Nat
<1> DEFINE R == OpToRel(<, Nat)
           T == Nat \ G
<1>1. IsWellFoundedOn(R, Nat)
  BY NatLessThanWellFounded
<1>2. SUFFICES ASSUME T # {} PROVE FALSE
  OBVIOUS
<1>3. PICK x \in T : \A y \in T : ~ (<<y, x>> \in R)
  <2> HIDE DEF R
  <2>1. T \in SUBSET Nat
    OBVIOUS
  <2> HIDE DEF T
  <2> QED BY <1>1, <1>2, <2>1, WFMin
<1>4. x \in Nat /\ x # 0 /\ x \notin G
  OBVIOUS
<1>5. x - 1 \in Nat /\ x - 1 < x /\ (x - 1) + 1 = x
  BY <1>4
<1>6. x - 1 \in T
  BY <1>4, <1>5
<1>7. <<x - 1, x>> \in R
  BY <1>4, <1>5 DEF OpToRel
<1> QED BY <1>3, <1>6, <1>7

LEMMA SequencesAll ==
    ASSUME NEW S, NEW G \in SUBSET Seq(S), <<>> \in G, \A u \in G : \A x \in S : Append(u, x) \in G
    PROVE  G = Seq(S)
<1> DEFINE Lens == {n \in Nat : \A u \in Seq(S) : Len(u) = n => u \in G}
<1>1. 0 \in Lens
  BY EmptySeq
<1>2. ASSUME NEW n \in Lens PROVE n + 1 \in Lens
  <2> SUFFICES ASSUME NEW u \in Seq(S), Len(u) = n + 1 PROVE u \in G
    OBVIOUS
  <2>0. n \in Nat
    OBVIOUS
  <2> DEFINE v == SubSeq(u, 1, n)
             x == u[n + 1]
  <2>1. x \in S
    BY <2>0, ElementOfSeq
  <2>2. v \in Seq(S) /\ Len(v) = n /\ \A i \in 1 .. n : v[i] = u[i]
    BY <2>0
  <2>3. u = Append(v, x)
    <3> HIDE DEF v, x
    <3>1. Append(v, x) \in Seq(S) /\ Len(Append(v, x)) = n + 1
      BY <2>1, <2>2, AppendProperties
    <3>2. \A i \in 1 .. n + 1 : Append(v, x)[i] = u[i]
      <4>1. \A i \in 1 .. n : Append(v, x)[i] = v[i]
        BY <2>1, <2>2, AppendProperties
      <4>2. Append(v, x)[n + 1] = x
        BY <2>1, <2>2, AppendProperties
      <4>3. \A i \in 1 .. n + 1 : i \in 1 .. n \/ i = n + 1
        BY <2>0
      <4> QED BY <4>1, <4>2, <4>3, <2>2 DEF x
    <3> QED BY <3>1, <3>2, SeqEqual
  <2>4. v \in G
    BY <2>2
  <2> HIDE DEF v, x
  <2> QED BY <2>1, <2>3, <2>4
<1>3. Lens = Nat
  <2>1. Lens \in SUBSET Nat
    OBVIOUS
  <2> HIDE DEF Lens
  <2> QED BY <1>1, <1>2, <2>1, NaturalsAll
<1>4. \A u \in Seq(S) : Len(u) \in Lens
  BY <1>3
<1> QED BY <1>4

---------------------------------------------------------------------------
(* OfTypes.                                                                *)

\* The function in its definition: f[i] is what is kept of the first i units.
Selects(u, ts, f, n) ==
    f = [i \in 0 .. n |-> IF i = 0 THEN <<>> ELSE IF u[i].t \in ts THEN Append(f[i - 1], u[i]) ELSE f[i - 1]]

LEMMA SelectsExists ==
    ASSUME NEW u, NEW ts, NEW n \in Nat
    PROVE  \E f : Selects(u, ts, f, n)
<1> DEFINE G == {k \in Nat : \E f : Selects(u, ts, f, k)}
<1>1. 0 \in G
  <2> DEFINE f == [i \in 0 .. 0 |-> <<>>]
  <2>1. Selects(u, ts, f, 0)
    BY DEF Selects
  <2> QED BY <2>1
<1>2. ASSUME NEW k \in G PROVE k + 1 \in G
  <2>1. k \in Nat
    OBVIOUS
  <2>2. PICK f : Selects(u, ts, f, k)
    OBVIOUS
  <2> DEFINE last == IF u[k + 1].t \in ts THEN Append(f[k], u[k + 1]) ELSE f[k]
             g == [i \in 0 .. k + 1 |-> IF i = k + 1 THEN last ELSE f[i]]
  <2>3. \A i \in 0 .. k : g[i] = f[i]
    BY <2>1
  <2>4. g[k + 1] = last
    BY <2>1
  <2>5. ASSUME NEW i \in 0 .. k + 1
        PROVE g[i] = IF i = 0 THEN <<>> ELSE IF u[i].t \in ts THEN Append(g[i - 1], u[i]) ELSE g[i - 1]
    <3> HIDE DEF g
    <3>1. CASE i = k + 1
      <4>1. i - 1 = k /\ k \in 0 .. k /\ i # 0
        BY <2>1, <3>1
      <4> QED BY <2>3, <2>4, <3>1, <4>1
    <3>2. CASE i # k + 1
      <4>1. i \in 0 .. k /\ (i # 0 => i - 1 \in 0 .. k)
        BY <2>1, <3>2
      <4>2. f[i] = IF i = 0 THEN <<>> ELSE IF u[i].t \in ts THEN Append(f[i - 1], u[i]) ELSE f[i - 1]
        BY <2>2, <4>1 DEF Selects
      <4> QED BY <2>3, <4>1, <4>2
    <3> QED BY <3>1, <3>2
  <2>6. Selects(u, ts, g, k + 1)
    <3>1. g = [i \in 0 .. k + 1 |-> g[i]]
      OBVIOUS
    <3> HIDE DEF g
    <3> QED BY <2>5, <3>1 DEF Selects
  <2> HIDE DEF g
  <2> QED BY <2>1, <2>6
<1>3. G = Nat
  <2>1. G \in SUBSET Nat
    OBVIOUS
  <2> HIDE DEF G
  <2> QED BY <1>1, <1>2, <2>1, NaturalsAll
<1> QED BY <1>3

Agree(u, v, m) == \A i \in 1 .. m : u[i] = v[i]

LEMMA SelectsSame ==
    ASSUME NEW u, NEW v, NEW ts, NEW f, NEW g, NEW m \in Nat, NEW n,
           Selects(u, ts, f, m), Selects(v, ts, g, n), n = m + 1, Agree(u, v, m)
    PROVE  f[m] = g[m]
<1> DEFINE G == {k \in Nat : k <= m => f[k] = g[k]}
<1>0. /\ \A i \in 0 .. m : f[i] = IF i = 0 THEN <<>> ELSE IF u[i].t \in ts THEN Append(f[i - 1], u[i]) ELSE f[i - 1]
      /\ \A i \in 0 .. m + 1 : g[i] = IF i = 0 THEN <<>> ELSE IF v[i].t \in ts THEN Append(g[i - 1], v[i]) ELSE g[i - 1]
  BY DEF Selects
<1>1. 0 \in G
  BY <1>0
<1>2. ASSUME NEW k \in G PROVE k + 1 \in G
  <2> SUFFICES ASSUME k + 1 <= m PROVE f[k + 1] = g[k + 1]
    OBVIOUS
  <2>1. k \in Nat /\ k <= m /\ k + 1 \in 0 .. m /\ k + 1 \in 0 .. m + 1 /\ k + 1 \in 1 .. m /\ (k + 1) - 1 = k /\ k + 1 # 0
    OBVIOUS
  <2>2. f[k] = g[k] /\ u[k + 1] = v[k + 1]
    BY <2>1 DEF Agree
  <2> QED BY <1>0, <2>1, <2>2
<1>3. G = Nat
  <2>1. G \in SUBSET Nat
    OBVIOUS
  <2> HIDE DEF G
  <2> QED BY <1>1, <1>2, <2>1, NaturalsAll
<1> QED BY <1>3

LEMMA OfTypesChosen ==
    ASSUME NEW u, NEW ts
    PROVE  OfTypes(u, ts) = (CHOOSE f : Selects(u, ts, f, Len(u)))[Len(u)]
  BY DEF OfTypes, Selects

LEMMA OfTypesIs ==
    ASSUME NEW u, NEW ts, Len(u) \in Nat
    PROVE  \E f : Selects(u, ts, f, Len(u)) /\ OfTypes(u, ts) = f[Len(u)]
<1> DEFINE f == CHOOSE f : Selects(u, ts, f, Len(u))
<1>1. Selects(u, ts, f, Len(u))
  BY SelectsExists
<1>2. OfTypes(u, ts) = f[Len(u)]
  BY OfTypesChosen
<1> QED BY <1>1, <1>2

LEMMA OfTypesEmpty == ASSUME NEW ts PROVE OfTypes(<<>>, ts) = <<>>
<1>1. Len(<<>>) = 0
  OBVIOUS
<1>2. PICK f : Selects(<<>>, ts, f, 0) /\ OfTypes(<<>>, ts) = f[0]
  BY <1>1, OfTypesIs
<1> QED BY <1>2 DEF Selects

LEMMA OfTypesAppend ==
    ASSUME NEW u \in Seq(NalUnits), NEW x \in NalUnits, NEW ts
    PROVE  OfTypes(Append(u, x), ts) = IF x.t \in ts THEN Append(OfTypes(u, ts), x) ELSE OfTypes(u, ts)
<1> DEFINE v == Append(u, x)
           n == Len(u)
<1>1. n \in Nat /\ Len(v) = n + 1 /\ v[n + 1] = x /\ \A i \in 1 .. n : u[i] = v[i]
  BY AppendProperties
<1> HIDE DEF v
<1>2. PICK f : Selects(u, ts, f, n) /\ OfTypes(u, ts) = f[n]
  BY <1>1, OfTypesIs
<1>3. PICK g : Selects(v, ts, g, Len(v)) /\ OfTypes(v, ts) = g[Len(v)]
  <2>1. Len(v) \in Nat
    BY <1>1
  <2> QED BY <1>1, <2>1, OfTypesIs
<1> HIDE DEF n
<1>4. n + 1 \in 0 .. n + 1 /\ n + 1 # 0 /\ (n + 1) - 1 = n
  BY <1>1
<1>5. f[n] = g[n]
  <2>1. Agree(u, v, n)
    BY <1>1 DEF Agree
  <2> QED BY <1>1, <1>2, <1>3, <2>1, SelectsSame
<1>6. g[n + 1] = IF v[n + 1].t \in ts THEN Append(g[(n + 1) - 1], v[n + 1]) ELSE g[(n + 1) - 1]
  BY <1>1, <1>3, <1>4 DEF Selects
<1> QED BY <1>1, <1>2, <1>3, <1>4, <1>5, <1>6 DEF v

\* Every property of a sequence of units below is proved along its length.
LEMMA OfTypesType ==
    ASSUME NEW ts
    PROVE  \A u \in Seq(NalUnits) : OfTypes(u, ts) \in Seq(NalUnits)
<1> DEFINE G == {u \in Seq(NalUnits) : OfTypes(u, ts) \in Seq(NalUnits)}
<1>1. G \in SUBSET Seq(NalUnits) /\ <<>> \in G
  <2>1. OfTypes(<<>>, ts) = <<>> /\ <<>> \in Seq(NalUnits)
    BY OfTypesEmpty
  <2>2. OfTypes(<<>>, ts) \in Seq(NalUnits)
    BY <2>1
  <2> QED BY <2>1, <2>2
<1>2. ASSUME NEW u \in G, NEW x \in NalUnits PROVE Append(u, x) \in G
  BY OfTypesAppend, AppendProperties
<1>3. G = Seq(NalUnits)
  <2> HIDE DEF G
  <2> QED BY <1>1, <1>2, SequencesAll
<1> QED BY <1>3

LEMMA OfTypesJoin ==
    ASSUME NEW ts, NEW a \in Seq(NalUnits)
    PROVE  \A b \in Seq(NalUnits) : OfTypes(a \o b, ts) = OfTypes(a, ts) \o OfTypes(b, ts)
<1> DEFINE G == {b \in Seq(NalUnits) : OfTypes(a \o b, ts) = OfTypes(a, ts) \o OfTypes(b, ts)}
<1>0. OfTypes(a, ts) \in Seq(NalUnits)
  BY OfTypesType
<1>1. G \in SUBSET Seq(NalUnits) /\ <<>> \in G
  <2>1. a \o <<>> = a /\ OfTypes(a, ts) \o <<>> = OfTypes(a, ts)
    BY <1>0, ConcatEmptySeq
  <2>2. OfTypes(<<>>, ts) = <<>> /\ <<>> \in Seq(NalUnits)
    BY OfTypesEmpty
  <2>3. OfTypes(a \o <<>>, ts) = OfTypes(a, ts) \o OfTypes(<<>>, ts)
    BY <2>1, <2>2
  <2> QED BY <2>2, <2>3
<1>2. ASSUME NEW b \in G, NEW x \in NalUnits PROVE Append(b, x) \in G
  <2>1. b \in Seq(NalUnits) /\ OfTypes(b, ts) \in Seq(NalUnits) /\ Append(b, x) \in Seq(NalUnits)
    BY OfTypesType, AppendProperties
  <2>2. a \o b \in Seq(NalUnits) /\ a \o Append(b, x) = Append(a \o b, x)
    BY <2>1
  <2> DEFINE p == OfTypes(a, ts)
             q == OfTypes(b, ts)
  <2>3. p \o Append(q, x) = Append(p \o q, x)
    <3> HIDE DEF p, q
    <3> QED BY <1>0, <2>1 DEF p, q
  <2>4. OfTypes(Append(a \o b, x), ts) = IF x.t \in ts THEN Append(OfTypes(a \o b, ts), x) ELSE OfTypes(a \o b, ts)
    BY <2>2, OfTypesAppend
  <2>5. OfTypes(Append(b, x), ts) = IF x.t \in ts THEN Append(q, x) ELSE q
    BY <2>1, OfTypesAppend
  <2>6. OfTypes(a \o b, ts) = p \o q
    OBVIOUS
  <2> HIDE DEF p, q
  <2>7. OfTypes(a \o Append(b, x), ts) = p \o OfTypes(Append(b, x), ts)
    BY <2>2, <2>3, <2>4, <2>5, <2>6
  <2> QED BY <2>1, <2>7 DEF p
<1>3. G = Seq(NalUnits)
  <2> HIDE DEF G
  <2> QED BY <1>1, <1>2, SequencesAll
<1> QED BY <1>3

\* What is kept has one of the types and is one of the units.
In(y, u) == \E i \in 1 .. Len(u) : u[i] = y

LEMMA InAppend ==
    ASSUME NEW u \in Seq(NalUnits), NEW x \in NalUnits
    PROVE  \A y : In(y, Append(u, x)) <=> In(y, u) \/ y = x
<1>1. /\ Len(u) \in Nat /\ Len(Append(u, x)) = Len(u) + 1 /\ Append(u, x)[Len(u) + 1] = x
      /\ \A i \in 1 .. Len(u) : Append(u, x)[i] = u[i]
  BY AppendProperties
<1>2. /\ \A i \in 1 .. Len(Append(u, x)) : i \in 1 .. Len(u) \/ i = Len(u) + 1
      /\ Len(u) + 1 \in 1 .. Len(Append(u, x)) /\ \A i \in 1 .. Len(u) : i \in 1 .. Len(Append(u, x))
  BY <1>1
<1> QED BY <1>1, <1>2 DEF In

LEMMA InEmpty == \A y : ~In(y, <<>>)
<1>1. 1 .. Len(<<>>) = {}
  OBVIOUS
<1> QED BY <1>1 DEF In

LEMMA OfTypesIn ==
    ASSUME NEW ts
    PROVE  \A u \in Seq(NalUnits) : \A y : In(y, OfTypes(u, ts)) <=> In(y, u) /\ y.t \in ts
<1> DEFINE G == {u \in Seq(NalUnits) : \A y : In(y, OfTypes(u, ts)) <=> In(y, u) /\ y.t \in ts}
<1>1. G \in SUBSET Seq(NalUnits) /\ <<>> \in G
  BY OfTypesEmpty, InEmpty
<1>2. ASSUME NEW u \in G, NEW x \in NalUnits PROVE Append(u, x) \in G
  <2>1. u \in Seq(NalUnits) /\ OfTypes(u, ts) \in Seq(NalUnits) /\ Append(u, x) \in Seq(NalUnits)
    BY OfTypesType, AppendProperties
  <2>2. \A y : In(y, Append(u, x)) <=> In(y, u) \/ y = x
    BY <2>1, InAppend
  <2>3. \A y : In(y, Append(OfTypes(u, ts), x)) <=> In(y, OfTypes(u, ts)) \/ y = x
    BY <2>1, InAppend
  <2>4. OfTypes(Append(u, x), ts) = IF x.t \in ts THEN Append(OfTypes(u, ts), x) ELSE OfTypes(u, ts)
    BY <2>1, OfTypesAppend
  <2>5. \A y : In(y, OfTypes(u, ts)) <=> In(y, u) /\ y.t \in ts
    OBVIOUS
  <2>6. \A y : In(y, OfTypes(Append(u, x), ts)) <=> In(y, Append(u, x)) /\ y.t \in ts
    BY <2>2, <2>3, <2>4, <2>5
  <2> QED BY <2>1, <2>6
<1>3. G = Seq(NalUnits)
  <2> HIDE DEF G
  <2> QED BY <1>1, <1>2, SequencesAll
<1> QED BY <1>3

LEMMA NothingIn ==
    ASSUME NEW u \in Seq(NalUnits)
    PROVE  (u = <<>>) <=> \A y : ~In(y, u)
<1>1. CASE u = <<>>
  BY <1>1, InEmpty
<1>2. CASE u # <<>>
  <2>1. 1 \in 1 .. Len(u)
    BY <1>2, EmptySeq
  <2>2. In(u[1], u)
    BY <2>1 DEF In
  <2> QED BY <1>2, <2>2
<1> QED BY <1>1, <1>2

\* Nothing is kept exactly if there is no unit of these types.
LEMMA OfTypesNone ==
    ASSUME NEW ts, NEW u \in Seq(NalUnits)
    PROVE  (OfTypes(u, ts) = <<>>) <=> \A y : In(y, u) => y.t \notin ts
<1>1. OfTypes(u, ts) \in Seq(NalUnits)
  BY OfTypesType
<1>2. (OfTypes(u, ts) = <<>>) <=> \A y : ~In(y, OfTypes(u, ts))
  BY <1>1, NothingIn
<1>3. \A y : In(y, OfTypes(u, ts)) <=> In(y, u) /\ y.t \in ts
  BY OfTypesIn
<1> QED BY <1>2, <1>3

\* Of what has been kept for several types, some types.
LEMMA OfTypesTwice ==
    ASSUME NEW ss, NEW ts \in SUBSET ss
    PROVE  \A u \in Seq(NalUnits) : OfTypes(OfTypes(u, ss), ts) = OfTypes(u, ts)
<1> DEFINE G == {u \in Seq(NalUnits) : OfTypes(OfTypes(u, ss), ts) = OfTypes(u, ts)}
<1>1. G \in SUBSET Seq(NalUnits) /\ <<>> \in G
  BY OfTypesEmpty
<1>2. ASSUME NEW u \in G, NEW x \in NalUnits PROVE Append(u, x) \in G
  <2>1. u \in Seq(NalUnits) /\ OfTypes(u, ss) \in Seq(NalUnits) /\ Append(u, x) \in Seq(NalUnits)
    BY OfTypesType, AppendProperties
  <2>2. OfTypes(Append(u, x), ss) = IF x.t \in ss THEN Append(OfTypes(u, ss), x) ELSE OfTypes(u, ss)
    BY <2>1, OfTypesAppend
  <2>3. OfTypes(Append(u, x), ts) = IF x.t \in ts THEN Append(OfTypes(u, ts), x) ELSE OfTypes(u, ts)
    BY <2>1, OfTypesAppend
  <2>4. OfTypes(Append(OfTypes(u, ss), x), ts)
          = IF x.t \in ts THEN Append(OfTypes(OfTypes(u, ss), ts), x) ELSE OfTypes(OfTypes(u, ss), ts)
    BY <2>1, OfTypesAppend
  <2>5. OfTypes(OfTypes(u, ss), ts) = OfTypes(u, ts)
    OBVIOUS
  <2>6. OfTypes(OfTypes(Append(u, x), ss), ts) = OfTypes(Append(u, x), ts)
    BY <2>2, <2>3, <2>4, <2>5
  <2> QED BY <2>1, <2>6
<1>3. G = Seq(NalUnits)
  <2> HIDE DEF G
  <2> QED BY <1>1, <1>2, SequencesAll
<1> QED BY <1>3

---------------------------------------------------------------------------
(* Frames around their first idr.                                          *)

\* A frame with an idr is what comes before its first idr, the idr, the rest.
NoIdr(u) == \A y : In(y, u) => y.t # "idr"
FirstIdr(u, a, x, c) ==
    /\ a \in Seq(NalUnits) /\ x \in NalUnits /\ c \in Seq(NalUnits)
    /\ u = Append(a, x) \o c /\ NoIdr(a) /\ x.t = "idr"

LEMMA FirstIdrExists ==
    \A u \in Seq(NalUnits) : NoIdr(u) \/ \E a, x, c : FirstIdr(u, a, x, c)
<1> DEFINE G == {u \in Seq(NalUnits) : NoIdr(u) \/ \E a, x, c : FirstIdr(u, a, x, c)}
<1>1. G \in SUBSET Seq(NalUnits) /\ <<>> \in G
  BY InEmpty DEF NoIdr
<1>2. ASSUME NEW u \in G, NEW y \in NalUnits PROVE Append(u, y) \in G
  <2>1. u \in Seq(NalUnits) /\ Append(u, y) \in Seq(NalUnits)
    BY AppendProperties
  <2>2. CASE NoIdr(u) /\ y.t # "idr"
    <3>1. NoIdr(Append(u, y))
      BY <2>1, <2>2, InAppend DEF NoIdr
    <3> QED BY <2>1, <3>1
  <2>3. CASE NoIdr(u) /\ y.t = "idr"
    <3>1. <<>> \in Seq(NalUnits) /\ Append(u, y) = Append(u, y) \o <<>>
      BY <2>1, ConcatEmptySeq
    <3>2. FirstIdr(Append(u, y), u, y, <<>>)
      BY <2>1, <2>3, <3>1 DEF FirstIdr
    <3> QED BY <2>1, <3>2
  <2>4. CASE ~NoIdr(u)
    <3>1. PICK a, x, c : FirstIdr(u, a, x, c)
      BY <2>4
    <3>2. /\ a \in Seq(NalUnits) /\ x \in NalUnits /\ c \in Seq(NalUnits) /\ Append(c, y) \in Seq(NalUnits)
          /\ Append(a, x) \in Seq(NalUnits)
      BY <3>1, AppendProperties DEF FirstIdr
    <3> DEFINE b == Append(a, x)
    <3>3. Append(b \o c, y) = b \o Append(c, y)
      <4> HIDE DEF b
      <4> QED BY <3>2 DEF b
    <3>4. FirstIdr(Append(u, y), a, x, Append(c, y))
      BY <3>1, <3>2, <3>3 DEF FirstIdr
    <3> QED BY <2>1, <3>4
  <2> QED BY <2>2, <2>3, <2>4
<1>3. G = Seq(NalUnits)
  <2> HIDE DEF G
  <2> QED BY <1>1, <1>2, SequencesAll
<1> QED BY <1>3

LEMMA UnitsJoined ==
    ASSUME NEW a \in Seq(NalUnits), NEW b \in Seq(NalUnits)
    PROVE  /\ a \o b \in Seq(NalUnits) /\ Len(a \o b) = Len(a) + Len(b)
           /\ \A i \in 1 .. Len(a) + Len(b) : (a \o b)[i] = IF i <= Len(a) THEN a[i] ELSE b[i - Len(a)]
OBVIOUS

LEMMA InJoin ==
    ASSUME NEW a \in Seq(NalUnits), NEW b \in Seq(NalUnits)
    PROVE  \A y : In(y, a \o b) => In(y, a) \/ In(y, b)
<1> SUFFICES ASSUME NEW y, In(y, a \o b) PROVE In(y, a) \/ In(y, b)
  OBVIOUS
<1>1. PICK i \in 1 .. Len(a \o b) : (a \o b)[i] = y
  BY DEF In
<1>2. /\ Len(a \o b) = Len(a) + Len(b) /\ Len(a) \in Nat /\ Len(b) \in Nat
      /\ \A j \in 1 .. Len(a) + Len(b) : (a \o b)[j] = IF j <= Len(a) THEN a[j] ELSE b[j - Len(a)]
  BY UnitsJoined
<1>3. i \in 1 .. Len(a) + Len(b)
  BY <1>1, <1>2
<1>4. CASE i <= Len(a)
  <2>1. i \in 1 .. Len(a) /\ a[i] = y
    BY <1>1, <1>2, <1>3, <1>4
  <2> QED BY <2>1 DEF In
<1>5. CASE ~(i <= Len(a))
  <2>1. i - Len(a) \in 1 .. Len(b) /\ b[i - Len(a)] = y
    BY <1>1, <1>2, <1>3, <1>5
  <2> QED BY <2>1 DEF In
<1> QED BY <1>4, <1>5

\* Where that idr stands.
LEMMA FirstIdrParts ==
    ASSUME NEW u, NEW a, NEW x, NEW c, FirstIdr(u, a, x, c)
    PROVE  /\ u \in Seq(NalUnits) /\ Len(a) \in Nat
           /\ Len(u) = Len(a) + 1 + Len(c) /\ Len(c) \in Nat
           /\ \A i \in 1 .. Len(a) : u[i] = a[i]
           /\ u[Len(a) + 1] = x
           /\ \A i \in 1 .. Len(c) : u[Len(a) + 1 + i] = c[i]
<1> DEFINE b == Append(a, x)
<1>1. a \in Seq(NalUnits) /\ x \in NalUnits /\ c \in Seq(NalUnits) /\ u = b \o c
  BY DEF FirstIdr
<1>2. /\ b \in Seq(NalUnits) /\ Len(b) = Len(a) + 1 /\ b[Len(a) + 1] = x /\ Len(a) \in Nat /\ Len(c) \in Nat
      /\ \A i \in 1 .. Len(a) : b[i] = a[i]
  BY <1>1, AppendProperties
<1> HIDE DEF b
<1>3. /\ u \in Seq(NalUnits) /\ Len(u) = Len(b) + Len(c)
      /\ \A i \in 1 .. Len(b) + Len(c) : u[i] = IF i <= Len(b) THEN b[i] ELSE c[i - Len(b)]
  BY <1>1, <1>2, UnitsJoined
<1>4. \A i \in 1 .. Len(a) : u[i] = a[i]
  BY <1>2, <1>3
<1>5. u[Len(a) + 1] = x
  BY <1>2, <1>3
<1>6. ASSUME NEW i \in 1 .. Len(c) PROVE u[Len(a) + 1 + i] = c[i]
  <2>1. Len(a) + 1 + i \in 1 .. Len(b) + Len(c) /\ ~(Len(a) + 1 + i <= Len(b)) /\ (Len(a) + 1 + i) - Len(b) = i
    BY <1>2
  <2> QED BY <1>3, <2>1
<1> QED BY <1>2, <1>3, <1>4, <1>5, <1>6

LEMMA FirstIdrAt ==
    ASSUME NEW u, NEW a, NEW x, NEW c, FirstIdr(u, a, x, c), NEW idrs,
           idrs = {i \in DOMAIN u : u[i].t = "idr"}
    PROVE  idrs # {} /\ (CHOOSE i \in idrs : \A j \in idrs : i <= j) = Len(a) + 1
<1>1. /\ u \in Seq(NalUnits) /\ Len(a) \in Nat /\ Len(c) \in Nat /\ Len(u) = Len(a) + 1 + Len(c)
      /\ \A i \in 1 .. Len(a) : u[i] = a[i]
      /\ u[Len(a) + 1] = x
  BY FirstIdrParts
<1>2. DOMAIN u = 1 .. Len(u)
  BY <1>1
<1>3. Len(a) + 1 \in idrs
  BY <1>1, <1>2 DEF FirstIdr
<1>4. ASSUME NEW j \in idrs PROVE j \in Nat /\ Len(a) + 1 <= j
  <2>1. j \in 1 .. Len(u) /\ u[j].t = "idr"
    BY <1>2
  <2>2. SUFFICES ASSUME j \in 1 .. Len(a) PROVE FALSE
    BY <1>1, <2>1
  <2>3. In(u[j], a)
    BY <1>1, <2>2 DEF In
  <2> QED BY <2>1, <2>3 DEF FirstIdr, NoIdr
<1>5. \A i \in idrs : (\A j \in idrs : i <= j) => i = Len(a) + 1
  BY <1>1, <1>3, <1>4
<1> QED BY <1>3, <1>4, <1>5

CutsAt(u, a, x, c, k) ==
    /\ SubSeq(u, 1, k - 1) = a
    /\ SubSeq(u, 1, k) = Append(a, x)
    /\ SubSeq(u, k, Len(u)) = <<x>> \o c

LEMMA FirstIdrCuts ==
    ASSUME NEW u, NEW a, NEW x, NEW c, FirstIdr(u, a, x, c)
    PROVE  CutsAt(u, a, x, c, Len(a) + 1)
<1> DEFINE k == Len(a) + 1
<1>1. /\ u \in Seq(NalUnits) /\ Len(a) \in Nat /\ Len(c) \in Nat /\ Len(u) = Len(a) + 1 + Len(c)
      /\ \A i \in 1 .. Len(a) : u[i] = a[i]
      /\ u[Len(a) + 1] = x
      /\ \A i \in 1 .. Len(c) : u[Len(a) + 1 + i] = c[i]
  BY FirstIdrParts
<1>2. a \in Seq(NalUnits) /\ x \in NalUnits /\ c \in Seq(NalUnits)
  BY DEF FirstIdr
<1>3. k \in 1 .. Len(u) /\ k - 1 = Len(a) /\ Len(a) + 1 = k
  BY <1>1
<1> HIDE DEF k
<1>4. SubSeq(u, 1, Len(a)) = a
  <2> DEFINE s == SubSeq(u, 1, Len(a))
  <2>1. s \in Seq(NalUnits) /\ Len(s) = Len(a) /\ \A i \in 1 .. Len(a) : s[i] = u[i]
    BY <1>1
  <2> HIDE DEF s
  <2>2. \A i \in 1 .. Len(s) : s[i] = a[i]
    BY <1>1, <2>1
  <2>3. s = a
    BY <1>2, <2>1, <2>2, SeqEqual
  <2> QED BY <2>3 DEF s
<1>5. SubSeq(u, 1, k) = Append(a, x)
  <2> DEFINE s == SubSeq(u, 1, k)
             b == Append(a, x)
  <2>1. s \in Seq(NalUnits) /\ Len(s) = k /\ \A i \in 1 .. k : s[i] = u[i]
    BY <1>1, <1>3
  <2>2. b \in Seq(NalUnits) /\ Len(b) = k /\ b[k] = x /\ \A i \in 1 .. Len(a) : b[i] = a[i]
    BY <1>2, <1>3, AppendProperties
  <2> HIDE DEF s, b
  <2>3. \A i \in 1 .. k : i \in 1 .. Len(a) \/ i = k
    BY <1>1, <1>3
  <2>4. \A i \in 1 .. Len(s) : s[i] = b[i]
    BY <1>1, <1>3, <2>1, <2>2, <2>3
  <2>5. s = b
    BY <2>1, <2>2, <2>4, SeqEqual
  <2> QED BY <2>5 DEF s, b
<1>6. SubSeq(u, k, Len(u)) = <<x>> \o c
  <2> DEFINE s == SubSeq(u, k, Len(u))
             o == <<x>>
             b == o \o c
  <2>1. s \in Seq(NalUnits) /\ Len(s) = Len(c) + 1 /\ \A i \in 1 .. Len(c) + 1 : s[i] = u[k + i - 1]
    BY <1>1, <1>3
  <2>2. o \in Seq(NalUnits) /\ Len(o) = 1 /\ o[1] = x
    BY <1>2
  <2> HIDE DEF o
  <2>3. /\ b \in Seq(NalUnits) /\ Len(b) = 1 + Len(c)
        /\ \A i \in 1 .. 1 + Len(c) : b[i] = IF i <= 1 THEN o[i] ELSE c[i - 1]
    <3>1. /\ o \o c \in Seq(NalUnits) /\ Len(o \o c) = Len(o) + Len(c)
          /\ \A i \in 1 .. Len(o) + Len(c) : (o \o c)[i] = IF i <= Len(o) THEN o[i] ELSE c[i - Len(o)]
      BY <1>2, <2>2, UnitsJoined
    <3> QED BY <2>2, <3>1
  <2> HIDE DEF s, b
  <2>4. ASSUME NEW i \in 1 .. Len(s) PROVE s[i] = b[i]
    <3>1. i \in 1 .. Len(c) + 1 /\ i \in 1 .. 1 + Len(c)
      BY <1>1, <2>1
    <3>2. CASE i = 1
      <4>1. k + i - 1 = k /\ i <= 1
        BY <1>3, <3>2
      <4>2. s[i] = u[k] /\ u[k] = x
        BY <1>1, <1>3, <2>1, <3>1, <4>1
      <4>3. b[i] = o[1]
        BY <2>3, <3>1, <3>2, <4>1
      <4> QED BY <2>2, <4>2, <4>3
    <3>3. CASE i # 1
      <4>1. i - 1 \in 1 .. Len(c) /\ k + i - 1 = Len(a) + 1 + (i - 1) /\ ~(i <= 1)
        BY <1>1, <1>3, <3>1, <3>3
      <4> QED BY <1>1, <2>1, <2>3, <3>1, <4>1
    <3> QED BY <3>2, <3>3
  <2>5. s = b
    BY <1>1, <2>1, <2>3, <2>4, SeqEqual
  <2> QED BY <2>5 DEF s, b, o
<1> QED BY <1>3, <1>4, <1>5, <1>6 DEF CutsAt, k

\* What getAnnexbH264 makes of a frame with an idr: the sets go before it.
Sets == {"sps", "pps"}
Held(a) == IF OfTypes(a, Sets) = <<>> THEN specific ELSE OfTypes(a, Sets)

LEMMA AnnexbIs ==
    ASSUME NEW u, NEW a, NEW x, NEW c, FirstIdr(u, a, x, c)
    PROVE  Annexb(u) = OfTypes(a, Kept) \o Held(a) \o (<<x>> \o OfTypes(c, Kept))
<1> DEFINE idrs == {i \in DOMAIN u : u[i].t = "idr"}
           k == Len(a) + 1
<1>1. idrs # {} /\ (CHOOSE i \in idrs : \A j \in idrs : i <= j) = k
  BY FirstIdrAt
<1>2. SubSeq(u, 1, k - 1) = a /\ SubSeq(u, 1, k) = Append(a, x) /\ SubSeq(u, k, Len(u)) = <<x>> \o c
  <2>1. CutsAt(u, a, x, c, k)
    BY FirstIdrCuts
  <2> HIDE DEF k
  <2> QED BY <2>1 DEF CutsAt
<1>3. a \in Seq(NalUnits) /\ x \in NalUnits /\ c \in Seq(NalUnits) /\ x.t = "idr" /\ k # 0
  <2>1. a \in Seq(NalUnits) /\ x \in NalUnits /\ c \in Seq(NalUnits) /\ x.t = "idr"
    BY DEF FirstIdr
  <2>2. Len(a) \in Nat
    BY <2>1
  <2> QED BY <2>1, <2>2
<1>4. OfTypes(Append(a, x), Sets) = OfTypes(a, Sets)
  BY <1>3, OfTypesAppend DEF Sets
<1>5. OfTypes(<<x>> \o c, Kept) = <<x>> \o OfTypes(c, Kept)
  <2>1. <<>> \in Seq(NalUnits) /\ Append(<<>>, x) = <<x>>
    OBVIOUS
  <2>2. OfTypes(Append(<<>>, x), Kept) = Append(OfTypes(<<>>, Kept), x)
    BY <1>3, <2>1, OfTypesAppend DEF Kept
  <2>3. OfTypes(<<x>>, Kept) = <<x>>
    BY <2>1, <2>2, OfTypesEmpty
  <2>4. <<x>> \in Seq(NalUnits)
    BY <1>3
  <2>5. OfTypes(<<x>> \o c, Kept) = OfTypes(<<x>>, Kept) \o OfTypes(c, Kept)
    BY <1>3, <2>4, OfTypesJoin
  <2> QED BY <2>3, <2>5
<1> DEFINE at == IF idrs = {} THEN 0 ELSE CHOOSE i \in idrs : \A j \in idrs : i <= j
           pps == OfTypes(SubSeq(u, 1, at), Sets)
<1>6. Annexb(u) = IF at = 0 THEN OfTypes(u, Kept)
                  ELSE OfTypes(SubSeq(u, 1, at - 1), Kept) \o (IF pps = <<>> THEN specific ELSE pps)
                       \o OfTypes(SubSeq(u, at, Len(u)), Kept)
  BY DEF Annexb, Sets
<1>7. at = k
  BY <1>1
<1> HIDE DEF at, k
<1>8. pps = OfTypes(a, Sets)
  BY <1>2, <1>4, <1>7
<1>9. OfTypes(SubSeq(u, 1, at - 1), Kept) = OfTypes(a, Kept)
  BY <1>2, <1>7
<1>10. OfTypes(SubSeq(u, at, Len(u)), Kept) = <<x>> \o OfTypes(c, Kept)
  BY <1>2, <1>5, <1>7
<1>11. at # 0
  BY <1>3, <1>7
<1> HIDE DEF pps
<1> QED BY <1>6, <1>8, <1>9, <1>10, <1>11 DEF Held

\* The sets before the first idr of a frame.
LEMMA BeforeIs ==
    ASSUME NEW u, NEW a, NEW x, NEW c, FirstIdr(u, a, x, c)
    PROVE  Before(u) = [sps |-> LastOf(a, "sps", 0), pps |-> LastOf(a, "pps", 0)]
<1> DEFINE idrs == {i \in DOMAIN u : u[i].t = "idr"}
           k == Len(a) + 1
<1>1. (CHOOSE i \in idrs : \A j \in idrs : i <= j) = k
  BY FirstIdrAt
<1>2. SubSeq(u, 1, k) = Append(a, x)
  <2>1. CutsAt(u, a, x, c, k)
    BY FirstIdrCuts
  <2> HIDE DEF k
  <2> QED BY <2>1 DEF CutsAt
<1>3. a \in Seq(NalUnits) /\ x \in NalUnits /\ x.t = "idr"
  BY DEF FirstIdr
<1>4. OfTypes(Append(a, x), {"sps"}) = OfTypes(a, {"sps"}) /\ OfTypes(Append(a, x), {"pps"}) = OfTypes(a, {"pps"})
  <2>1. OfTypes(Append(a, x), {"sps"}) = OfTypes(a, {"sps"})
    BY <1>3, OfTypesAppend
  <2>2. OfTypes(Append(a, x), {"pps"}) = OfTypes(a, {"pps"})
    BY <1>3, OfTypesAppend
  <2> QED BY <2>1, <2>2
<1>5. LastOf(Append(a, x), "sps", 0) = LastOf(a, "sps", 0) /\ LastOf(Append(a, x), "pps", 0) = LastOf(a, "pps", 0)
  BY <1>4 DEF LastOf
<1> DEFINE at == CHOOSE i \in idrs : \A j \in idrs : i <= j
<1>6. Before(u) = [sps |-> LastOf(SubSeq(u, 1, at), "sps", 0), pps |-> LastOf(SubSeq(u, 1, at), "pps", 0)]
  BY DEF Before
<1>7. SubSeq(u, 1, at) = Append(a, x)
  BY <1>1, <1>2
<1> HIDE DEF at
<1> QED BY <1>5, <1>6, <1>7

\* The last set of a type: what has been said before is of no matter if there
\* is one, and an id is not 0.
LEMMA LastOfType ==
    ASSUME NEW u \in Seq(NalUnits), NEW t, NEW e
    PROVE  /\ OfTypes(u, {t}) = <<>> => LastOf(u, t, e) = e
           /\ OfTypes(u, {t}) # <<>> => LastOf(u, t, e) \in Nat \ {0} /\ \A d : LastOf(u, t, d) = LastOf(u, t, e)
<1> DEFINE s == OfTypes(u, {t})
<1>1. s \in Seq(NalUnits)
  BY OfTypesType
<1>2. LastOf(u, t, e) = (IF s = <<>> THEN e ELSE s[Len(s)].id) /\ \A d : LastOf(u, t, d) = IF s = <<>> THEN d ELSE s[Len(s)].id
  BY DEF LastOf
<1> HIDE DEF s
<1>3. ASSUME s # <<>> PROVE s[Len(s)].id \in Nat \ {0}
  <2>1. Len(s) \in 1 .. Len(s)
    BY <1>1, <1>3, EmptySeq
  <2>2. s[Len(s)] \in NalUnits
    BY <1>1, <2>1, ElementOfSeq
  <2> QED BY <2>2 DEF NalUnits
<1> QED BY <1>2, <1>3 DEF s

Only(u, t, z) == OfTypes(u, {t}) = <<z>>

LEMMA LastOfJoin ==
    ASSUME NEW a \in Seq(NalUnits), NEW b \in Seq(NalUnits), NEW t, NEW z \in NalUnits, Only(b, t, z)
    PROVE  \A e : LastOf(a \o b, t, e) = z.id /\ LastOf(b, t, e) = z.id
<1> DEFINE p == OfTypes(a, {t})
           s == p \o <<z>>
<1>1. p \in Seq(NalUnits)
  BY OfTypesType
<1>2. OfTypes(a \o b, {t}) = s /\ OfTypes(b, {t}) = <<z>>
  BY OfTypesJoin DEF Only
<1> HIDE DEF p
<1>3. <<z>> # <<>> /\ Len(<<z>>) = 1 /\ <<z>>[1] = z /\ <<z>> \in Seq(NalUnits)
  OBVIOUS
<1>4. s = Append(p, z)
  BY <1>1
<1>5. Len(s) = Len(p) + 1 /\ Len(p) \in Nat /\ s[Len(p) + 1] = z /\ s \in Seq(NalUnits)
  BY <1>1, <1>4, AppendProperties
<1> HIDE DEF s
<1>6. s # <<>> /\ s[Len(s)] = z
  BY <1>5, EmptySeq
<1> QED BY <1>2, <1>3, <1>6 DEF LastOf

---------------------------------------------------------------------------
(* The parameter sets.                                                     *)

\* Inductive: the headers that the parser keeps end with the sets that the
\* publisher sent last, unless it has sent some in a frame since.
SetsInv ==
    /\ specific \in Seq(NalUnits) /\ latest \in [sps : Nat, pps : Nat] /\ inband \in BOOLEAN
    /\ \A y : In(y, specific) => y.t \in Sets
    /\ ~inband => latest = [sps |-> LastOf(specific, "sps", 0), pps |-> LastOf(specific, "pps", 0)]

LEMMA LatestType ==
    ASSUME SetsInv, NEW u \in Seq(NalUnits)
    PROVE  Latest(u) \in [sps : Nat, pps : Nat]
<1>1. latest.sps \in Nat /\ latest.pps \in Nat
  BY DEF SetsInv
<1>2. LastOf(u, "sps", latest.sps) \in Nat
  BY <1>1, LastOfType
<1>3. LastOf(u, "pps", latest.pps) \in Nat
  BY <1>1, LastOfType
<1> QED BY <1>2, <1>3 DEF Latest

\* The header's sets become the last ones, whatever there was before.
LEMMA HeaderSets ==
    ASSUME SetsInv, NEW u \in Seq(NalUnits), Len(u) = 2, u[1].t = "sps", u[2].t = "pps",
           specific' = specific \o <<u[1], u[2]>>, latest' = Latest(u), inband' = FALSE
    PROVE  SetsInv'
<1> DEFINE x == u[1]
           y == u[2]
           b == <<x, y>>
<1>1. x \in NalUnits /\ y \in NalUnits
  <2>1. 1 \in 1 .. Len(u) /\ 2 \in 1 .. Len(u)
    OBVIOUS
  <2> QED BY <2>1, ElementOfSeq
<1>2. u = b
  <2>1. b \in Seq(NalUnits) /\ Len(b) = 2 /\ b[1] = x /\ b[2] = y
    BY <1>1
  <2> HIDE DEF b
  <2>2. \A i \in 1 .. Len(u) : u[i] = b[i]
    BY <2>1
  <2> QED BY <2>1, <2>2, SeqEqual
<1>3. specific' = specific \o u /\ specific \in Seq(NalUnits)
  BY <1>2 DEF SetsInv
<1>4. x.t = "sps" /\ y.t = "pps"
  OBVIOUS
<1> HIDE DEF x, y
<1>5. b = Append(Append(<<>>, x), y) /\ <<>> \in Seq(NalUnits) /\ Append(<<>>, x) \in Seq(NalUnits)
  BY <1>1
<1>6. ASSUME NEW ts
      PROVE OfTypes(b, ts) = IF "pps" \in ts THEN Append(IF "sps" \in ts THEN <<x>> ELSE <<>>, y)
                             ELSE IF "sps" \in ts THEN <<x>> ELSE <<>>
  <2>1. OfTypes(Append(<<>>, x), ts) = IF "sps" \in ts THEN Append(<<>>, x) ELSE <<>>
    <3>1. OfTypes(Append(<<>>, x), ts) = IF x.t \in ts THEN Append(OfTypes(<<>>, ts), x) ELSE OfTypes(<<>>, ts)
      BY <1>1, <1>5, OfTypesAppend
    <3> QED BY <1>4, <3>1, OfTypesEmpty
  <2>2. OfTypes(Append(Append(<<>>, x), y), ts)
          = IF "pps" \in ts THEN Append(OfTypes(Append(<<>>, x), ts), y) ELSE OfTypes(Append(<<>>, x), ts)
    <3> DEFINE o == Append(<<>>, x)
    <3>1. o \in Seq(NalUnits)
      BY <1>5
    <3> HIDE DEF o
    <3>2. OfTypes(Append(o, y), ts) = IF y.t \in ts THEN Append(OfTypes(o, ts), y) ELSE OfTypes(o, ts)
      BY <1>1, <3>1, OfTypesAppend
    <3> QED BY <1>4, <3>2 DEF o
  <2>3. Append(<<>>, x) = <<x>>
    OBVIOUS
  <2> QED BY <1>5, <2>1, <2>2, <2>3
<1>7. Only(u, "sps", x)
  BY <1>2, <1>6 DEF Only
<1>8. Only(u, "pps", y)
  <2>1. OfTypes(b, {"pps"}) = Append(<<>>, y)
    BY <1>6
  <2>2. Append(<<>>, y) = <<y>>
    OBVIOUS
  <2> QED BY <1>2, <2>1, <2>2 DEF Only
<1>9. \A e : LastOf(specific \o u, "sps", e) = x.id /\ LastOf(u, "sps", e) = x.id
  BY <1>1, <1>3, <1>7, LastOfJoin
<1>10. \A e : LastOf(specific \o u, "pps", e) = y.id /\ LastOf(u, "pps", e) = y.id
  BY <1>1, <1>3, <1>8, LastOfJoin
<1>11. latest' = [sps |-> LastOf(specific', "sps", 0), pps |-> LastOf(specific', "pps", 0)]
  BY <1>3, <1>9, <1>10 DEF Latest
<1>12. latest' \in [sps : Nat, pps : Nat]
  BY LatestType
<1>13. ASSUME NEW z, In(z, specific') PROVE z.t \in Sets
  <2>1. In(z, specific) \/ In(z, u)
    BY <1>3, <1>13, InJoin
  <2>2. ASSUME In(z, u) PROVE z.t \in Sets
    <3>1. PICK i \in 1 .. 2 : u[i] = z
      BY <2>2 DEF In
    <3> QED BY <3>1 DEF Sets
  <2> QED BY <2>1, <2>2 DEF SetsInv
<1>14. specific' \in Seq(NalUnits)
  BY <1>3, UnitsJoined
<1> QED BY <1>11, <1>12, <1>13, <1>14 DEF SetsInv

\* Sets in a frame.
LEMMA FrameSets ==
    ASSUME SetsInv, NEW u \in Seq(NalUnits), UNCHANGED specific,
           latest' = Latest(u), inband' = (inband \/ latest' # latest)
    PROVE  SetsInv' /\ (~inband' => ~inband /\ latest' = latest)
<1>1. latest' \in [sps : Nat, pps : Nat]
  BY LatestType
<1> QED BY <1>1 DEF SetsInv, LastOf

---------------------------------------------------------------------------
(* What is written.                                                        *)

\* A frame with an idr in its place, its sets or those of the headers before.
LEMMA AnnexbIdr ==
    ASSUME SetsInv, NEW u, NEW a, NEW x, NEW c, FirstIdr(u, a, x, c)
    PROVE  /\ FirstIdr(Annexb(u), OfTypes(a, Kept) \o Held(a), x, OfTypes(c, Kept))
           /\ Held(a) \in Seq(NalUnits) /\ \A y : In(y, Held(a)) => y.t \in Sets
<1> DEFINE p == OfTypes(a, Kept)
           h == Held(a)
           d == OfTypes(c, Kept)
<1>1. a \in Seq(NalUnits) /\ x \in NalUnits /\ c \in Seq(NalUnits) /\ x.t = "idr" /\ NoIdr(a)
  BY DEF FirstIdr
<1>2. p \in Seq(NalUnits) /\ d \in Seq(NalUnits) /\ OfTypes(a, Sets) \in Seq(NalUnits)
  BY <1>1, OfTypesType
<1>3. \A y : In(y, p) => In(y, a)
  BY <1>1, OfTypesIn
<1>4. \A y : In(y, OfTypes(a, Sets)) => y.t \in Sets
  BY <1>1, OfTypesIn
<1>5. h \in Seq(NalUnits) /\ \A y : In(y, h) => y.t \in Sets
  BY <1>2, <1>4 DEF Held, SetsInv
<1>6. Annexb(u) = p \o h \o (<<x>> \o d)
  BY AnnexbIs
<1> HIDE DEF p, h, d
<1>7. p \o h \in Seq(NalUnits)
  BY <1>2, <1>5
<1>8. p \o h \o (<<x>> \o d) = Append(p \o h, x) \o d
  <2> DEFINE q == p \o h
  <2>1. q \in Seq(NalUnits)
    BY <1>7
  <2> HIDE DEF q
  <2>2. <<x>> \in Seq(NalUnits) /\ Append(q, x) = q \o <<x>>
    BY <1>1, <2>1
  <2>3. (q \o <<x>>) \o d = q \o (<<x>> \o d)
    BY <1>2, <2>1, <2>2, ConcatAssociative
  <2> QED BY <2>2, <2>3 DEF q
<1>9. NoIdr(p \o h)
  <2>1. ASSUME NEW y, In(y, p \o h) PROVE In(y, p) \/ In(y, h)
    BY <1>2, <1>5, <2>1, InJoin
  <2>2. \A y : y.t \in Sets => y.t # "idr"
    BY DEF Sets
  <2> QED BY <1>1, <1>3, <1>5, <2>1, <2>2 DEF NoIdr
<1>10. FirstIdr(Annexb(u), p \o h, x, d)
  BY <1>1, <1>2, <1>6, <1>7, <1>8, <1>9 DEF FirstIdr
<1> QED BY <1>5, <1>10 DEF p, h, d

\* Slices come out once and in order.
LEMMA KeptAround ==
    ASSUME NEW u, NEW a, NEW x, NEW c, FirstIdr(u, a, x, c)
    PROVE  OfTypes(u, Kept) = Append(OfTypes(a, Kept), x) \o OfTypes(c, Kept)
<1>1. a \in Seq(NalUnits) /\ x \in NalUnits /\ c \in Seq(NalUnits) /\ x.t = "idr" /\ u = Append(a, x) \o c
  BY DEF FirstIdr
<1>2. Append(a, x) \in Seq(NalUnits)
  BY <1>1, AppendProperties
<1>3. OfTypes(Append(a, x), Kept) = Append(OfTypes(a, Kept), x)
  BY <1>1, OfTypesAppend DEF Kept
<1> DEFINE b == Append(a, x)
<1> HIDE DEF b
<1>4. OfTypes(b \o c, Kept) = OfTypes(b, Kept) \o OfTypes(c, Kept)
  BY <1>1, <1>2, OfTypesJoin DEF b
<1> QED BY <1>1, <1>3, <1>4 DEF b

LEMMA AnnexbSlices ==
    ASSUME SetsInv, NEW u \in Seq(NalUnits)
    PROVE  OfTypes(Annexb(u), Kept) = OfTypes(u, Kept)
<1>0. Kept \in SUBSET Kept
  OBVIOUS
<1>1. CASE NoIdr(u)
  <2> DEFINE idrs == {i \in DOMAIN u : u[i].t = "idr"}
  <2>1. idrs = {}
    <3> SUFFICES ASSUME NEW i \in DOMAIN u, u[i].t = "idr" PROVE FALSE
      OBVIOUS
    <3>1. i \in 1 .. Len(u)
      OBVIOUS
    <3>2. In(u[i], u)
      BY <3>1 DEF In
    <3> QED BY <1>1, <3>2 DEF NoIdr
  <2>2. Annexb(u) = OfTypes(u, Kept)
    BY <2>1 DEF Annexb
  <2>3. OfTypes(OfTypes(u, Kept), Kept) = OfTypes(u, Kept)
    BY <1>0, OfTypesTwice
  <2> QED BY <2>2, <2>3
<1>2. CASE ~NoIdr(u)
  <2>1. PICK a, x, c : FirstIdr(u, a, x, c)
    BY <1>2, FirstIdrExists
  <2> DEFINE p == OfTypes(a, Kept)
             h == Held(a)
             d == OfTypes(c, Kept)
  <2>2. FirstIdr(Annexb(u), p \o h, x, d) /\ h \in Seq(NalUnits) /\ \A y : In(y, h) => y.t \in Sets
    BY <2>1, AnnexbIdr
  <2>3. a \in Seq(NalUnits) /\ c \in Seq(NalUnits)
    BY <2>1 DEF FirstIdr
  <2>4. p \in Seq(NalUnits) /\ OfTypes(p, Kept) = p /\ OfTypes(d, Kept) = d
    BY <1>0, <2>3, OfTypesType, OfTypesTwice
  <2>5. OfTypes(u, Kept) = Append(p, x) \o d
    BY <2>1, KeptAround
  <2> HIDE DEF p, h, d
  <2>6. OfTypes(Annexb(u), Kept) = Append(OfTypes(p \o h, Kept), x) \o OfTypes(d, Kept)
    BY <2>2, KeptAround
  <2>7. OfTypes(h, Kept) = <<>>
    <3>1. \A y : y.t \in Sets => y.t \notin Kept
      BY DEF Sets, Kept
    <3>2. \A y : In(y, h) => y.t \notin Kept
      BY <2>2, <3>1
    <3> QED BY <2>2, <3>2, OfTypesNone
  <2>8. OfTypes(p \o h, Kept) = p
    <3>1. OfTypes(p \o h, Kept) = OfTypes(p, Kept) \o OfTypes(h, Kept)
      BY <2>2, <2>4, OfTypesJoin
    <3>2. p \o <<>> = p
      BY <2>4, ConcatEmptySeq
    <3> QED BY <2>4, <2>7, <3>1, <3>2
  <2> QED BY <2>4, <2>5, <2>6, <2>8
<1> QED BY <1>1, <1>2

\* The sets before the idr are the ones that were held.
LEMMA AnnexbSets ==
    ASSUME SetsInv, NEW u, NEW a, NEW x, NEW c, FirstIdr(u, a, x, c)
    PROVE  Before(Annexb(u)) = [sps |-> LastOf(Held(a), "sps", 0), pps |-> LastOf(Held(a), "pps", 0)]
<1> DEFINE p == OfTypes(a, Kept)
           h == Held(a)
           d == OfTypes(c, Kept)
<1>1. FirstIdr(Annexb(u), p \o h, x, d) /\ h \in Seq(NalUnits)
  BY AnnexbIdr
<1>2. a \in Seq(NalUnits)
  BY DEF FirstIdr
<1>3. p \in Seq(NalUnits) /\ \A y : In(y, p) => y.t \in Kept
  BY <1>2, OfTypesType, OfTypesIn
<1> HIDE DEF p, h, d
<1>4. Before(Annexb(u)) = [sps |-> LastOf(p \o h, "sps", 0), pps |-> LastOf(p \o h, "pps", 0)]
  BY <1>1, BeforeIs
<1>5. ASSUME NEW t \in Sets PROVE LastOf(p \o h, t, 0) = LastOf(h, t, 0)
  <2> DEFINE ts == {t}
  <2>1. \A y : y.t \in Kept => y.t \notin ts
    BY DEF Sets, Kept
  <2>2. OfTypes(p, ts) = <<>>
    <3> HIDE DEF ts
    <3> QED BY <1>3, <2>1, OfTypesNone
  <2>3. OfTypes(p \o h, ts) = OfTypes(p, ts) \o OfTypes(h, ts) /\ OfTypes(h, ts) \in Seq(NalUnits)
    <3> HIDE DEF ts
    <3> QED BY <1>1, <1>3, OfTypesJoin, OfTypesType
  <2>4. <<>> \o OfTypes(h, ts) = OfTypes(h, ts)
    BY <2>3, ConcatEmptySeq
  <2>5. OfTypes(p \o h, {t}) = OfTypes(h, {t})
    BY <2>2, <2>3, <2>4
  <2> QED BY <2>5 DEF LastOf
<1>6. LastOf(p \o h, "sps", 0) = LastOf(h, "sps", 0) /\ LastOf(p \o h, "pps", 0) = LastOf(h, "pps", 0)
  BY <1>5 DEF Sets
<1> QED BY <1>4, <1>6 DEF h

\* They are the frame's own; if it has none, the ones the publisher sent last.
LEMMA AnnexbDecodes ==
    ASSUME SetsInv, NEW u, NEW a, NEW x, NEW c, FirstIdr(u, a, x, c), NEW own, own = Before(u),
           (own.sps = 0) <=> (own.pps = 0)
    PROVE  /\ own.sps # 0 => Before(Annexb(u)) = own
           /\ own.sps = 0 /\ ~inband => Before(Annexb(u)) = latest
<1>1. own = [sps |-> LastOf(a, "sps", 0), pps |-> LastOf(a, "pps", 0)]
  BY BeforeIs
<1>2. own.sps = LastOf(a, "sps", 0) /\ own.pps = LastOf(a, "pps", 0)
  BY <1>1
<1>3. Before(Annexb(u)) = [sps |-> LastOf(Held(a), "sps", 0), pps |-> LastOf(Held(a), "pps", 0)]
  BY AnnexbSets
<1>4. a \in Seq(NalUnits)
  BY DEF FirstIdr
<1>5. ASSUME NEW t PROVE (LastOf(a, t, 0) = 0) <=> (OfTypes(a, {t}) = <<>>)
  BY <1>4, LastOfType
<1>6. ASSUME NEW t \in Sets PROVE OfTypes(OfTypes(a, Sets), {t}) = OfTypes(a, {t})
  <2>1. {t} \in SUBSET Sets
    OBVIOUS
  <2> DEFINE ts == {t}
  <2> HIDE DEF ts
  <2>2. OfTypes(OfTypes(a, Sets), ts) = OfTypes(a, ts)
    BY <1>4, <2>1, OfTypesTwice DEF ts
  <2> QED BY <2>2 DEF ts
<1>7. CASE own.sps # 0
  <2>1. OfTypes(a, {"sps"}) # <<>>
    BY <1>2, <1>5, <1>7
  <2>2. OfTypes(OfTypes(a, Sets), {"sps"}) = OfTypes(a, {"sps"})
    BY <1>6 DEF Sets
  <2>3. OfTypes(OfTypes(a, Sets), {"pps"}) = OfTypes(a, {"pps"})
    BY <1>6 DEF Sets
  <2>4. OfTypes(a, Sets) # <<>>
    BY <2>1, <2>2, OfTypesEmpty
  <2>5. Held(a) = OfTypes(a, Sets)
    BY <2>4 DEF Held
  <2>6. LastOf(Held(a), "sps", 0) = LastOf(a, "sps", 0) /\ LastOf(Held(a), "pps", 0) = LastOf(a, "pps", 0)
    BY <2>2, <2>3, <2>5 DEF LastOf
  <2> QED BY <1>1, <1>3, <1>7, <2>6
<1>8. CASE own.sps = 0 /\ ~inband
  <2>1. OfTypes(a, {"sps"}) = <<>>
    BY <1>2, <1>5, <1>8
  <2>2. OfTypes(a, {"pps"}) = <<>>
    BY <1>2, <1>5, <1>8
  <2>3. \A y : In(y, a) => y.t \notin {"sps"}
    BY <1>4, <2>1, OfTypesNone
  <2>4. \A y : In(y, a) => y.t \notin {"pps"}
    BY <1>4, <2>2, OfTypesNone
  <2>5. \A y : In(y, a) => y.t \notin Sets
    BY <2>3, <2>4 DEF Sets
  <2>6. OfTypes(a, Sets) = <<>>
    BY <1>4, <2>5, OfTypesNone
  <2>7. Held(a) = specific
    BY <2>6 DEF Held
  <2> QED BY <1>3, <1>8, <2>7 DEF SetsInv
<1> QED BY <1>7, <1>8

---------------------------------------------------------------------------
(* The steps.                                                              *)

VideoInv == SetsInv /\ VideoArrives

LEMMA NoFrame == ASSUME vlast = <<>> PROVE VideoArrives
<1>1. DOMAIN vlast = {}
  OBVIOUS
<1> QED BY <1>1 DEF VideoArrives, IdrHasLatestSets, SlicesKept

LEMMA NoFrameNext == ASSUME vlast' = <<>> PROVE VideoArrives'
<1>1. DOMAIN vlast' = {}
  OBVIOUS
<1> QED BY <1>1 DEF VideoArrives, IdrHasLatestSets, SlicesKept

\* Without units, the last sets stay the last.
LEMMA LatestNone == ASSUME SetsInv PROVE Latest(<<>>) = latest
<1>1. LastOf(<<>>, "sps", latest.sps) = latest.sps
  BY OfTypesEmpty DEF LastOf
<1>2. LastOf(<<>>, "pps", latest.pps) = latest.pps
  BY OfTypesEmpty DEF LastOf
<1> QED BY <1>1, <1>2 DEF Latest, SetsInv

\* A frame of units, whole.
LEMMA NalusStep ==
    ASSUME VideoInv, NEW u \in Seq(NalUnits), vlast' = u, written' = Annexb(u), UNCHANGED specific,
           latest' = Latest(u), inband' = (inband \/ latest' # latest)
    PROVE  VideoInv'
<1>1. SetsInv
  BY DEF VideoInv
<1>2. SetsInv' /\ (~inband' => ~inband /\ latest' = latest)
  BY <1>1, FrameSets
<1>3. SlicesKept'
  <2>1. OfTypes(Annexb(u), Kept) = OfTypes(u, Kept)
    BY <1>1, AnnexbSlices
  <2> QED BY <2>1 DEF SlicesKept, Kept
<1>4. IdrHasLatestSets'
  <2> DEFINE own == Before(u)
  <2> SUFFICES ASSUME \E i \in DOMAIN u : u[i].t = "idr",
                      (own.sps = 0) <=> (own.pps = 0), ~(own.sps = 0 /\ inband')
               PROVE  Before(Annexb(u)) = IF own.sps = 0 THEN latest' ELSE own
    BY DEF IdrHasLatestSets
  <2>1. PICK i \in DOMAIN u : u[i].t = "idr"
    OBVIOUS
  <2>2. In(u[i], u)
    BY <2>1 DEF In
  <2>3. ~NoIdr(u)
    BY <2>1, <2>2 DEF NoIdr
  <2>4. PICK a, x, c : FirstIdr(u, a, x, c)
    BY <2>3, FirstIdrExists
  <2>5. own = Before(u)
    OBVIOUS
  <2> HIDE DEF own
  <2>6. /\ own.sps # 0 => Before(Annexb(u)) = own
        /\ own.sps = 0 /\ ~inband => Before(Annexb(u)) = latest
    BY <1>1, <2>4, <2>5, AnnexbDecodes
  <2> QED BY <1>2, <2>6
<1> QED BY <1>2, <1>3, <1>4 DEF VideoInv, VideoArrives

\* A frame that came as Annex B is written as it is.
LEMMA AnnexbStep ==
    ASSUME VideoInv, NEW u \in Seq(NalUnits), vlast' = u, written' = u, UNCHANGED specific,
           latest' = Latest(u), inband' = (inband \/ latest' # latest)
    PROVE  VideoInv'
<1>1. SetsInv'
  BY FrameSets DEF VideoInv
<1> QED BY <1>1 DEF VideoInv, VideoArrives, IdrHasLatestSets, SlicesKept

LEMMA VideoStep ==
    ASSUME VideoInv, NEW p \in VideoPackets, ParseVideo(p)
    PROVE  VideoInv'
<1> USE CodecAssumption
<1>0. SetsInv /\ p.units \in Seq(NalUnits)
  BY DEF VideoInv
<1>1. CASE p.t \in {"short", "end"} /\ UNCHANGED <<specific, latest, inband>> /\ vlast' = <<>>
  <2>1. SetsInv'
    BY <1>0, <1>1 DEF SetsInv
  <2>2. VideoArrives'
    BY <1>1, NoFrameNext
  <2> QED BY <2>1, <2>2 DEF VideoInv
<1>2. CASE p.t = "seq" /\ vlast' = <<>> /\ Len(p.units) >= 2 /\ ParseSpecificInfo(p.units)
           /\ latest' = Latest(p.units) /\ inband' = FALSE
  <2>1. SetsInv'
    <3>1. Len(p.units) = 2 /\ p.units[1].t = "sps" /\ p.units[2].t = "pps"
      BY <1>2
    <3>2. specific' = specific \o <<p.units[1], p.units[2]>>
      BY <1>2 DEF ParseSpecificInfo
    <3> QED BY <1>0, <1>2, <3>1, <3>2, HeaderSets
  <2>2. VideoArrives'
    BY <1>2, NoFrameNext
  <2> QED BY <2>1, <2>2 DEF VideoInv
<1>3. CASE p.t = "seq" /\ vlast' = <<>> /\ UNCHANGED <<specific, latest, inband>>
  <2>1. SetsInv'
    BY <1>0, <1>3 DEF SetsInv
  <2>2. VideoArrives'
    BY <1>3, NoFrameNext
  <2> QED BY <2>1, <2>2 DEF VideoInv
<1>4. CASE p.t = "annexb" /\ vlast' = p.units /\ written' = p.units
           /\ latest' = Latest(p.units) /\ inband' = (inband \/ latest' # latest) /\ UNCHANGED specific
  BY <1>0, <1>4, AnnexbStep
<1>5. CASE p.t = "nalus" /\ written' = Annexb(Good(p.units)) /\ UNCHANGED specific
           /\ vlast' = (IF p.units = Good(p.units) /\ p.units # <<>> THEN p.units ELSE <<>>)
           /\ latest' = Latest(vlast') /\ inband' = (inband \/ latest' # latest)
  <2>1. CASE p.units = Good(p.units) /\ p.units # <<>>
    <3>1. vlast' = p.units /\ written' = Annexb(p.units) /\ latest' = Latest(p.units)
      BY <1>5, <2>1
    <3> QED BY <1>0, <1>5, <3>1, NalusStep
  <2>2. CASE ~(p.units = Good(p.units) /\ p.units # <<>>)
    <3>1. vlast' = <<>>
      BY <1>5, <2>2
    <3>2. latest' = latest /\ inband' = inband
      BY <1>0, <1>5, <3>1, LatestNone DEF SetsInv
    <3>3. SetsInv'
      BY <1>0, <1>5, <3>2 DEF SetsInv
    <3>4. VideoArrives'
      BY <3>1, NoFrameNext
    <3> QED BY <3>3, <3>4 DEF VideoInv
  <2> QED BY <2>1, <2>2
<1> QED BY <1>1, <1>2, <1>3, <1>4, <1>5 DEF ParseVideo

\* What getAnnexbH264 writes can be decoded: slices once and in order, and
\* before an idr the sets that the publisher sent last (or the frame's own) -
\* for every sequence of packets, of however many units, in whatever order.
THEOREM VideoArrivesHolds == CodecSpec => []VideoArrives
<1>1. CodecInit => VideoInv
  <2> SUFFICES ASSUME CodecInit PROVE VideoInv
    OBVIOUS
  <2>1. VideoArrives
    BY NoFrame DEF CodecInit
  <2>2. LastOf(specific, "sps", 0) = 0 /\ LastOf(specific, "pps", 0) = 0
    BY OfTypesEmpty DEF LastOf, CodecInit
  <2>3. \A y : ~In(y, specific)
    BY InEmpty DEF CodecInit
  <2>4. specific \in Seq(NalUnits) /\ latest = [sps |-> 0, pps |-> 0] /\ inband = FALSE
    BY DEF CodecInit
  <2>5. SetsInv
    BY <2>2, <2>3, <2>4 DEF SetsInv
  <2> QED BY <2>1, <2>5 DEF VideoInv
<1>2. VideoInv /\ [CodecNext]_codecVars => VideoInv'
  <2> SUFFICES ASSUME VideoInv, [CodecNext]_codecVars PROVE VideoInv'
    OBVIOUS
  <2>1. ASSUME UNCHANGED videoVars PROVE VideoInv'
    BY <2>1 DEF videoVars, VideoInv, SetsInv, VideoArrives, IdrHasLatestSets, SlicesKept
  <2>2. CASE VideoNext
    BY <2>2, VideoStep DEF VideoNext
  <2>3. CASE AudioNext
    BY <2>1, <2>3 DEF AudioNext, AacSeqHdr, AacTruncated, AacRaw
  <2>4. CASE UNCHANGED codecVars
    BY <2>1, <2>4 DEF codecVars, videoVars
  <2> QED BY <2>2, <2>3, <2>4 DEF CodecNext
<1>3. VideoInv => VideoArrives
  BY DEF VideoInv
<1> QED BY <1>1, <1>2, <1>3, PTL DEF CodecSpec
=============================================================================
