---------------------------- MODULE CacheProofs ----------------------------
(***************************************************************************)
(* With one or two slots the ring of GopCache never dereferences a nil     *)
(* array and implements CacheSpec: a player that joins is sent exactly the *)
(* last GopNum groups of pictures.  The loop of TransStart around it gives *)
(* every player the publisher's video from a key frame on, with headers    *)
(* that are never older than the frames they are used for.                 *)
(***************************************************************************)
EXTENDS Fanout, TLAPS, SequenceTheorems, FiniteSetTheorems, WellFoundedInduction

OneOrTwo == GopNum \in {1, 2}

(***************************************************************************)
(* The state of the ring.  CurrentSlot is the slot of the newest group     *)
(* because with one or two slots the slot after the next one is the one    *)
(* before it.                                                              *)
(***************************************************************************)
RingInv ==
    /\ panicked = FALSE /\ (start => num > 0) /\ (num > 0 => start)
    /\ num = 0 => nextindex = 0 /\ \A i \in Slots : gops[i] = <<>>
    /\ num = 1 => CurrentSlot = 0 /\ gops[0] # <<>> /\ \A i \in Slots \ {0} : gops[i] = <<>>
    /\ num = 2 => \A i \in Slots : gops[i] # <<>>
    /\ num > 0 => Len(gops[CurrentSlot]) > 0
    /\ \A i \in Slots : Len(gops[i]) <= MaxGopCap

Inv == TypeOK /\ nextindex \in Slots /\ RingInv

\* The arithmetic of the ring.
LEMMA RingIndex ==
    ASSUME OneOrTwo, nextindex \in Slots
    PROVE  /\ CurrentSlot \in Slots
           /\ GopNum = 1 => nextindex = 0 /\ CurrentSlot = 0
           /\ GopNum = 2 => \/ nextindex = 0 /\ CurrentSlot = 1
                            \/ nextindex = 1 /\ CurrentSlot = 0
  BY DEF OneOrTwo, Slots, CurrentSlot

\* The groups of pictures a player is sent, spelled out for any state of the
\* ring: nm arrays, next slot ni, slots g.
Slot(ni) == (ni + 1) % GopNum

OrderIs(nm, ni, g, order) ==
    /\ nm = 0 => order = <<>>
    /\ nm = 1 => order = <<g[Slot(ni)]>>
    /\ nm = 2 => GopNum = 2 /\ order = <<g[ni], g[Slot(ni)]>>

LEMMA OrderValue ==
    ASSUME OneOrTwo, NEW nm \in 0 .. GopNum, NEW ni \in Slots, NEW g
    PROVE  OrderIs(nm, ni, g,
               [i \in 1 .. nm |->
                   g[IF (Slot(ni) - nm + 1) + (i - 1) < 0
                     THEN (Slot(ni) - nm + 1) + (i - 1) + GopNum
                     ELSE (Slot(ni) - nm + 1) + (i - 1)]])
  <1> DEFINE idx(i) == IF (Slot(ni) - nm + 1) + (i - 1) < 0
                       THEN (Slot(ni) - nm + 1) + (i - 1) + GopNum
                       ELSE (Slot(ni) - nm + 1) + (i - 1)
  <1>1. /\ GopNum = 1 => ni = 0 /\ Slot(ni) = 0
        /\ GopNum = 2 => (ni = 0 /\ Slot(ni) = 1) \/ (ni = 1 /\ Slot(ni) = 0)
    BY DEF OneOrTwo, Slots, Slot
  <1>2. nm = 1 => idx(1) = Slot(ni)
    BY <1>1 DEF OneOrTwo
  <1>3. nm = 2 => GopNum = 2 /\ idx(1) = ni /\ idx(2) = Slot(ni)
    BY <1>1 DEF OneOrTwo
  <1> HIDE DEF idx
  <1>4. nm = 0 => [i \in 1 .. nm |-> g[idx(i)]] = <<>>
    OBVIOUS
  <1>5. nm = 1 => [i \in 1 .. nm |-> g[idx(i)]] = <<g[Slot(ni)]>>
    BY <1>2
  <1>6. nm = 2 => [i \in 1 .. nm |-> g[idx(i)]] = <<g[ni], g[Slot(ni)]>>
    BY <1>3
  <1>7. OrderIs(nm, ni, g, [i \in 1 .. nm |-> g[idx(i)]])
    BY <1>3, <1>4, <1>5, <1>6 DEF OrderIs
  <1> QED  BY <1>7 DEF idx

LEMMA OrderForm ==
    ASSUME OneOrTwo, Inv
    PROVE  OrderIs(num, nextindex, gops, SendOrder)
  BY OrderValue DEF Inv, TypeOK, SendOrder, SendIndex, CurrentSlot, Slot

LEMMA OrderFormNext ==
    ASSUME OneOrTwo, Inv'
    PROVE  OrderIs(num', nextindex', gops', SendOrder')
  BY OrderValue DEF Inv, TypeOK, SendOrder, SendIndex, CurrentSlot, Slot

\* Appending to a short sequence.
LEMMA AppendOne ==
    ASSUME NEW a, NEW b
    PROVE  Append(<<a>>, b) = <<a, b>>
  <1> DEFINE S == {a, b}
             x == Append(<<a>>, b)
             y == <<a, b>>
  <1>1. <<a>> \in Seq(S) /\ x \in Seq(S) /\ y \in Seq(S)
    OBVIOUS
  <1>2. Len(x) = 2 /\ Len(y) = 2 /\ x[1] = y[1] /\ x[2] = y[2]
    BY <1>1
  <1>3. \A i \in 1 .. Len(x) : x[i] = y[i]
    BY <1>2
  <1> HIDE DEF S, x, y
  <1>4. x = y
    BY <1>1, <1>2, <1>3, SeqEqual
  <1> QED  BY <1>4 DEF x, y

LEMMA AppendTwo ==
    ASSUME NEW a, NEW b, NEW c
    PROVE  Append(<<a, b>>, c) = <<a, b, c>>
  <1> DEFINE S == {a, b, c}
             x == Append(<<a, b>>, c)
             y == <<a, b, c>>
  <1>1. <<a, b>> \in Seq(S) /\ x \in Seq(S) /\ y \in Seq(S)
    OBVIOUS
  <1>2. Len(x) = 3 /\ Len(y) = 3 /\ x[1] = y[1] /\ x[2] = y[2] /\ x[3] = y[3]
    BY <1>1
  <1>3. \A i \in 1 .. Len(x) : x[i] = y[i]
    BY <1>2
  <1> HIDE DEF S, x, y
  <1>4. x = y
    BY <1>1, <1>2, <1>3, SeqEqual
  <1> QED  BY <1>4 DEF x, y

\* What CacheSpec makes of a new group q.
LEMMA NewestForms ==
    ASSUME NEW a, NEW q
    PROVE  /\ OneOrTwo => Promise!Newest(Append(<<>>, q)) = <<q>>
           /\ GopNum = 1 => Promise!Newest(Append(<<a>>, q)) = <<q>>
           /\ GopNum = 2 => Promise!Newest(Append(<<a>>, q)) = <<a, q>>
  <1>1. Append(<<>>, q) = <<q>>
    OBVIOUS
  <1>2. Append(<<a>>, q) = <<a, q>>
    BY AppendOne
  <1>3. Tail(<<a, q>>) = <<q>>
    OBVIOUS
  <1>4. Len(<<q>>) = 1 /\ Len(<<a, q>>) = 2
    OBVIOUS
  <1>5. OneOrTwo => Promise!Newest(<<q>>) = <<q>>
    BY <1>4 DEF Promise!Newest, OneOrTwo
  <1>6. GopNum = 1 => Promise!Newest(<<a, q>>) = <<q>>
    BY <1>3, <1>4 DEF Promise!Newest
  <1>7. GopNum = 2 => Promise!Newest(<<a, q>>) = <<a, q>>
    BY <1>4 DEF Promise!Newest
  <1> QED
    BY <1>1, <1>2, <1>5, <1>6, <1>7, Zenon

LEMMA NewestOfThree ==
    ASSUME NEW a, NEW b, NEW q, GopNum = 2
    PROVE  Promise!Newest(Append(<<a, b>>, q)) = <<b, q>>
  <1>1. Append(<<a, b>>, q) = <<a, b, q>>
    BY AppendTwo
  <1>2. Len(<<a, b, q>>) = 3 /\ Tail(<<a, b, q>>) = <<b, q>>
    OBVIOUS
  <1>3. Promise!Newest(<<a, b, q>>) = <<b, q>>
    BY <1>2 DEF Promise!Newest
  <1> QED  BY <1>1, <1>3, Zenon

\* Replacing the last element of a short sequence.
LEMMA ExceptForms ==
    ASSUME NEW a, NEW b, NEW c
    PROVE  /\ [<<a>> EXCEPT ![1] = c] = <<c>>
           /\ [<<a, b>> EXCEPT ![2] = c] = <<a, c>>
           /\ Len(<<a>>) = 1 /\ <<a>>[1] = a /\ <<a>> # <<>>
           /\ Len(<<a, b>>) = 2 /\ <<a, b>>[2] = b /\ <<a, b>> # <<>>
  <1>1. [<<a>> EXCEPT ![1] = c] = <<c>>
    OBVIOUS
  <1>2. [<<a, b>> EXCEPT ![2] = c] = <<a, c>>
    OBVIOUS
  <1> QED  BY <1>1, <1>2

---------------------------------------------------------------------------
(* The invariant                                                           *)

LEMMA InvInit ==
    ASSUME OneOrTwo, Init
    PROVE  Inv
  <1>1. nextindex \in Slots /\ num \in 0 .. GopNum /\ nextindex \in 0 .. GopNum
    BY DEF OneOrTwo, Init, Slots
  <1>2. TypeOK
    <2>1. gops \in [Slots -> Seq(Packets)]
      BY DEF Init
    <2>2. {meta, vseq, aseq} \subseteq Packets \cup {NoPacket}
      BY DEF Init
    <2> QED  BY <1>1, <2>1, <2>2 DEF Init, TypeOK
  <1>3. RingInv
    BY CacheAssumption DEF Init, RingInv
  <1> QED  BY <1>1, <1>2, <1>3 DEF Inv

\* What array.write does to an array of the cache.
LEMMA ArrayWriteForm ==
    ASSUME NEW a \in Seq(Packets), NEW p \in Packets, Len(a) <= MaxGopCap
    PROVE  /\ ArrayWrite(a, p) \in Seq(Packets)
           /\ Len(ArrayWrite(a, p)) <= MaxGopCap
           /\ Len(ArrayWrite(a, p)) >= Len(a)
           /\ Len(a) \in Nat /\ Len(ArrayWrite(a, p)) \in Nat
           /\ ArrayWrite(<<>>, p) = <<p>>
  <1>1. Append(a, p) \in Seq(Packets) /\ Len(Append(a, p)) = Len(a) + 1 /\ Len(a) \in Nat
    OBVIOUS
  <1>2. ArrayWrite(<<>>, p) = <<p>>
    BY CacheAssumption DEF ArrayWrite
  <1> QED
    BY <1>1, <1>2, CacheAssumption DEF ArrayWrite

\* A key frame opens a group: the new state of the ring.
LEMMA KeyStep ==
    ASSUME OneOrTwo, Inv, NEW p \in Packets, p.kind = "key", GopWrite(p)
    PROVE  /\ panicked' = FALSE /\ start' = TRUE
           /\ gops' = [gops EXCEPT ![nextindex] = <<p>>]
           /\ nextindex' \in Slots
           /\ CurrentSlot' = nextindex
           /\ num' = IF num = GopNum THEN num ELSE num + 1
           /\ num < GopNum => nextindex = num
  <1>1. GopNum # 0 /\ nextindex \in Slots /\ num \in 0 .. GopNum
    BY DEF OneOrTwo, Inv, TypeOK
  <1>2. panicked' = FALSE /\ start' = TRUE /\ StartGop(p)
    BY <1>1 DEF GopWrite, Inv, RingInv
  <1>3. ArrayWrite(<<>>, p) = <<p>>
    BY CacheAssumption DEF ArrayWrite
  <1>4. nextindex' \in Slots /\ CurrentSlot' = nextindex
    BY <1>1, <1>2 DEF StartGop, CurrentSlot, Slots, OneOrTwo
  <1>5. num < GopNum => nextindex = num
    BY <1>1, RingIndex DEF Inv, RingInv, OneOrTwo
  <1>6. gops[nextindex] = <<>> <=> num # GopNum
    BY <1>1, <1>5, RingIndex DEF Inv, RingInv, OneOrTwo, Slots
  <1> QED
    BY <1>2, <1>3, <1>4, <1>5, <1>6 DEF StartGop

\* An inter frame goes to the newest group.
LEMMA InterStep ==
    ASSUME OneOrTwo, Inv, NEW p \in Packets, p.kind = "inter", GopWrite(p)
    PROVE  /\ panicked' = FALSE /\ start' = start /\ num' = num /\ nextindex' = nextindex
           /\ num = 0 => gops' = gops
           /\ num > 0 => gops' = [gops EXCEPT ![CurrentSlot] = ArrayWrite(@, p)]
  <1>1. GopNum # 0 /\ nextindex \in Slots /\ num \in 0 .. GopNum /\ CurrentSlot \in Slots
    BY RingIndex DEF OneOrTwo, Inv, TypeOK
  <1>2. num > 0 => gops[CurrentSlot] # <<>>
    BY <1>1 DEF Inv, RingInv
  <1> QED
    BY <1>1, <1>2 DEF GopWrite, ExtendGop, Inv, RingInv, gopVars

LEMMA GopWriteInv ==
    ASSUME OneOrTwo, Inv, NEW p \in Packets, GopWrite(p), p.kind \in {"key", "inter"},
           UNCHANGED specialVars
    PROVE  Inv'
  <1>t. /\ num \in 0 .. GopNum /\ nextindex \in Slots /\ CurrentSlot \in Slots
        /\ gops \in [Slots -> Seq(Packets)]
    BY RingIndex DEF Inv, TypeOK
  <1>s. {meta', vseq', aseq'} \subseteq Packets \cup {NoPacket}
    BY DEF Inv, TypeOK, specialVars
  <1>1. CASE p.kind = "key"
    <2>0. /\ panicked' = FALSE /\ start' = TRUE
          /\ gops' = [gops EXCEPT ![nextindex] = <<p>>]
          /\ nextindex' \in Slots /\ CurrentSlot' = nextindex
          /\ num' = IF num = GopNum THEN num ELSE num + 1
          /\ num < GopNum => nextindex = num
      BY <1>1, KeyStep
    <2>1. <<p>> \in Seq(Packets) /\ Len(<<p>>) = 1 /\ <<p>> # <<>>
      OBVIOUS
    <2>2. /\ num' \in 0 .. GopNum /\ nextindex' \in Slots /\ CurrentSlot' \in Slots
          /\ nextindex' \in 0 .. GopNum
          /\ gops' \in [Slots -> Seq(Packets)]
      BY <1>t, <2>0, <2>1 DEF OneOrTwo, Slots
    <2>3. TypeOK'
      BY <1>s, <2>0, <2>2 DEF TypeOK
    <2>4. RingInv'
      <3>1. num' # 0 /\ panicked' = FALSE /\ start' = TRUE /\ num' > 0
        BY <1>t, <2>0 DEF OneOrTwo
      <3>2. num' = 1 => CurrentSlot' = 0 /\ gops'[0] # <<>> /\ \A i \in Slots \ {0} : gops'[i] = <<>>
        BY <1>t, <2>0, <2>1 DEF OneOrTwo, Slots, Inv, RingInv
      <3>3. num' = 2 => \A i \in Slots : gops'[i] # <<>>
        <4>1. \A i \in Slots : num = 2 \/ (num = 1 /\ i = 0) => gops[i] # <<>>
          BY <1>t DEF Slots, Inv, RingInv
        <4>2. gops'[nextindex] # <<>> /\ \A i \in Slots \ {nextindex} : gops'[i] = gops[i]
          BY <1>t, <2>0, <2>1
        <4>3. num' = 2 => GopNum = 2 /\ (num = 2 \/ (num = 1 /\ nextindex = 1))
          BY <1>t, <2>0 DEF OneOrTwo
        <4>4. num' = 2 => \A i \in Slots \ {nextindex} : num = 2 \/ (num = 1 /\ i = 0)
          BY <4>3 DEF Slots
        <4> QED  BY <4>1, <4>2, <4>4
      <3>4. num' > 0 => Len(gops'[CurrentSlot']) > 0
        BY <1>t, <2>0, <2>1
      <3>5. \A i \in Slots : Len(gops'[i]) <= MaxGopCap
        BY <1>t, <2>0, <2>1, CacheAssumption DEF Inv, RingInv
      <3> QED  BY <3>1, <3>2, <3>3, <3>4, <3>5 DEF RingInv
    <2> QED  BY <2>2, <2>3, <2>4 DEF Inv
  <1>2. CASE p.kind = "inter"
    <2>0. panicked' = FALSE /\ start' = start /\ num' = num /\ nextindex' = nextindex
      BY <1>2, InterStep
    <2> DEFINE g == ArrayWrite(gops[CurrentSlot], p)
    <2>1. /\ g \in Seq(Packets) /\ Len(g) <= MaxGopCap /\ Len(g) >= Len(gops[CurrentSlot])
          /\ Len(g) \in Nat /\ Len(gops[CurrentSlot]) \in Nat
      BY <1>t, ArrayWriteForm DEF Inv, RingInv
    <2>2. num > 0 => g # <<>> /\ Len(g) > 0
      BY <2>1 DEF Inv, RingInv
    <2>3. /\ num = 0 => gops' = gops
          /\ num > 0 => gops' = [gops EXCEPT ![CurrentSlot] = g]
          /\ CurrentSlot' = CurrentSlot
      BY <1>2, InterStep DEF CurrentSlot
    <2> HIDE DEF g
    <2>4. gops' \in [Slots -> Seq(Packets)]
      <3>1. CASE num = 0
        BY <1>t, <2>3, <3>1
      <3>2. CASE num > 0
        BY <1>t, <2>1, <2>3, <3>2
      <3> QED  BY <1>t, <3>1, <3>2 DEF OneOrTwo
    <2>5. TypeOK' /\ nextindex' \in Slots
      BY <1>s, <1>t, <2>0, <2>4 DEF Inv, TypeOK
    <2>6. RingInv'
      BY <1>t, <2>0, <2>1, <2>2, <2>3 DEF Inv, RingInv
    <2> QED  BY <2>5, <2>6 DEF Inv
  <1> QED  BY <1>1, <1>2

LEMMA InvStep ==
    ASSUME OneOrTwo, Inv, [Next]_cacheVars
    PROVE  Inv'
  <1>1. ASSUME NEW p \in Packets, WriteMeta(p) \/ WriteAudio(p) PROVE Inv'
    <2>1. UNCHANGED <<start, num, nextindex, gops, panicked>>
      BY <1>1 DEF WriteMeta, WriteAudio, gopVars
    <2>2. {meta', vseq', aseq'} \subseteq Packets \cup {NoPacket}
      BY <1>1 DEF WriteMeta, WriteAudio, Inv, TypeOK
    <2> QED  BY <2>1, <2>2 DEF Inv, TypeOK, RingInv, CurrentSlot
  <1>2. ASSUME NEW p \in Packets, WriteVideo(p) PROVE Inv'
    <2>1. CASE p.kind = "seq"
      BY <1>2, <2>1 DEF WriteVideo, gopVars, Inv, TypeOK, RingInv, CurrentSlot
    <2>2. CASE p.kind # "seq"
      BY <1>2, <2>2, GopWriteInv DEF WriteVideo
    <2> QED  BY <2>1, <2>2
  <1>3. CASE UNCHANGED cacheVars
    BY <1>3 DEF cacheVars, specialVars, gopVars, Inv, TypeOK, RingInv, CurrentSlot
  <1> QED
    BY <1>1, <1>2, <1>3 DEF Next, Write

\* A server configured with one or two groups of pictures never panics in
\* the cache, whatever packets a publisher sends.
THEOREM NoPanicUpToTwo ==
    ASSUME OneOrTwo
    PROVE  Spec => []NoPanic
  <1>1. Inv => NoPanic
    BY DEF Inv, RingInv, NoPanic
  <1> QED
    BY <1>1, InvInit, InvStep, PTL DEF Spec

---------------------------------------------------------------------------
(* Refinement                                                              *)

LEMMA RefInit ==
    ASSUME OneOrTwo, Init
    PROVE  Promise!SpecInit
  <1>1. SendOrder = <<>>
    BY InvInit, OrderForm DEF Init, OrderIs
  <1> QED
    BY <1>1 DEF Init, Promise!SpecInit, NoPacket, Promise!NoPacket

\* Steps that do not touch the ring.
LEMMA RefSpecial ==
    ASSUME NEW p \in Packets, WriteMeta(p) \/ WriteAudio(p) \/ (p.kind = "seq" /\ WriteVideo(p))
    PROVE  [Promise!SpecNext]_(Promise!specVars)
  <1>1. SendOrder' = SendOrder
    BY DEF WriteMeta, WriteAudio, WriteVideo, gopVars, SendOrder, SendIndex, CurrentSlot
  <1> QED
    BY <1>1 DEF WriteMeta, WriteAudio, WriteVideo, Promise!SpecNext, Promise!specVars,
                Promise!SpecMeta, Promise!SpecVideoSeq, Promise!SpecAudioSeq

LEMMA RefKey ==
    ASSUME OneOrTwo, Inv, Inv', NEW p \in Packets, p.kind = "key", GopWrite(p),
           UNCHANGED specialVars
    PROVE  Promise!SpecKey(p)
  <1>t. /\ num \in 0 .. GopNum /\ nextindex \in Slots /\ CurrentSlot \in Slots
        /\ gops \in [Slots -> Seq(Packets)]
    BY RingIndex DEF Inv, TypeOK
  <1>0. /\ gops' = [gops EXCEPT ![nextindex] = <<p>>]
        /\ nextindex' \in Slots /\ CurrentSlot' = nextindex
        /\ num' = IF num = GopNum THEN num ELSE num + 1
        /\ num < GopNum => nextindex = num
    BY KeyStep
  <1>1. OrderIs(num, nextindex, gops, SendOrder) /\ OrderIs(num', nextindex', gops', SendOrder')
    BY OrderForm, OrderFormNext
  <1>2. Slot(nextindex) = CurrentSlot /\ Slot(nextindex') = nextindex
    BY <1>0 DEF Slot, CurrentSlot
  <1>3. gops'[nextindex] = <<p>>
    BY <1>0, <1>t
  <1>4. SendOrder' = Promise!Newest(Append(SendOrder, <<p>>))
    <2>1. CASE num = 0
      <3>1. num' = 1 /\ SendOrder = <<>> /\ SendOrder' = <<<<p>>>>
        BY <1>0, <1>1, <1>2, <1>3, <2>1 DEF OneOrTwo, OrderIs
      <3> QED  BY <3>1, NewestForms, Zenon
    <2>2. CASE num = 1 /\ GopNum = 1
      <3>1. num' = 1 /\ SendOrder = <<gops[CurrentSlot]>> /\ SendOrder' = <<<<p>>>>
        BY <1>0, <1>1, <1>2, <1>3, <2>2 DEF OrderIs
      <3> QED  BY <2>2, <3>1, NewestForms, Zenon
    <2>3. CASE num = 1 /\ GopNum = 2
      <3>1. nextindex = 1 /\ CurrentSlot = 0
        BY <1>0, <1>t, <2>3, RingIndex
      <3>2. nextindex' = 0
        <4>1. nextindex' \in {0, 1}
          BY <1>0, <2>3 DEF Slots
        <4> QED  BY <1>2, <2>3, <3>1, <4>1 DEF Slot
      <3>3. gops'[nextindex'] = gops[CurrentSlot]
        BY <1>0, <1>t, <3>1, <3>2
      <3>4. SendOrder = <<gops[CurrentSlot]>> /\ SendOrder' = <<gops[CurrentSlot], <<p>>>>
        BY <1>0, <1>1, <1>2, <1>3, <2>3, <3>3 DEF OrderIs
      <3> QED  BY <2>3, <3>4, NewestForms, Zenon
    <2>4. CASE num = 2
      <3>0. GopNum = 2 /\ num' = 2
        BY <1>0, <1>1, <2>4 DEF OrderIs
      <3>1. nextindex # CurrentSlot
        BY <1>t, <3>0, RingIndex
      <3>2. nextindex' = CurrentSlot
        <4>1. \/ nextindex = 0 /\ CurrentSlot = 1
              \/ nextindex = 1 /\ CurrentSlot = 0
          BY <1>t, <3>0, RingIndex
        <4>2. nextindex' \in {0, 1}
          BY <1>0, <3>0 DEF Slots
        <4> QED  BY <1>2, <3>0, <4>1, <4>2 DEF Slot
      <3>3. gops'[nextindex'] = gops[CurrentSlot]
        BY <1>0, <1>t, <3>1, <3>2
      <3>4. /\ SendOrder = <<gops[nextindex], gops[CurrentSlot]>>
            /\ SendOrder' = <<gops[CurrentSlot], <<p>>>>
        BY <1>1, <1>2, <1>3, <2>4, <3>0, <3>3 DEF OrderIs
      <3>5. Promise!Newest(Append(<<gops[nextindex], gops[CurrentSlot]>>, <<p>>))
                = <<gops[CurrentSlot], <<p>>>>
        <4> DEFINE a == gops[nextindex]
                   b == gops[CurrentSlot]
                   q == <<p>>
        <4> HIDE DEF a, b, q
        <4>1. Promise!Newest(Append(<<a, b>>, q)) = <<b, q>>
          BY <3>0, NewestOfThree
        <4> QED  BY <4>1 DEF a, b, q
      <3> QED  BY <3>4, <3>5, Zenon
    <2> QED
      BY <1>t, <2>1, <2>2, <2>3, <2>4 DEF OneOrTwo
  <1> QED
    BY <1>4 DEF Promise!SpecKey, specialVars

LEMMA RefInter ==
    ASSUME OneOrTwo, Inv, Inv', NEW p \in Packets, p.kind = "inter", GopWrite(p),
           UNCHANGED specialVars
    PROVE  Promise!SpecInter(p) \/ UNCHANGED (Promise!specVars)
  <1>t. /\ num \in 0 .. GopNum /\ nextindex \in Slots /\ CurrentSlot \in Slots
        /\ gops \in [Slots -> Seq(Packets)]
    BY RingIndex DEF Inv, TypeOK
  <1>0. /\ num' = num /\ nextindex' = nextindex
        /\ num = 0 => gops' = gops
        /\ num > 0 => gops' = [gops EXCEPT ![CurrentSlot] = ArrayWrite(@, p)]
    BY InterStep
  <1>c. CurrentSlot' = CurrentSlot
    BY <1>0 DEF CurrentSlot
  <1>1. CASE gops' = gops
    <2>1. SendOrder' = SendOrder
      BY <1>0, <1>1, <1>c DEF SendOrder, SendIndex
    <2> QED  BY <2>1 DEF Promise!specVars, specialVars
  <1>2. CASE gops' # gops
    <2> DEFINE g == gops[CurrentSlot]
    <2>1. num > 0
      BY <1>0, <1>2, <1>t DEF OneOrTwo
    <2>2. Len(g) < MaxGopCap /\ ArrayWrite(g, p) = Append(g, p)
      <3>1. Len(g) \in Nat
        BY <1>t
      <3>2. ArrayWrite(g, p) # g
        BY <1>0, <1>2, <1>t, <2>1
      <3> QED  BY <3>1, <3>2, CacheAssumption DEF ArrayWrite
    <2>3. gops' = [gops EXCEPT ![CurrentSlot] = Append(g, p)]
      BY <1>0, <2>1, <2>2
    <2>4. OrderIs(num, nextindex, gops, SendOrder) /\ OrderIs(num', nextindex', gops', SendOrder')
      BY OrderForm, OrderFormNext
    <2>5. Slot(nextindex) = CurrentSlot /\ Slot(nextindex') = CurrentSlot
      BY <1>0 DEF Slot, CurrentSlot
    <2>6. gops'[CurrentSlot] = Append(g, p)
      BY <1>t, <2>3
    <2>7. CASE num = 1
      <3>1. SendOrder = <<g>> /\ SendOrder' = <<Append(g, p)>>
        BY <1>0, <2>4, <2>5, <2>6, <2>7 DEF OrderIs
      <3>2. /\ SendOrder # <<>> /\ Len(SendOrder) = 1 /\ SendOrder[1] = g
            /\ SendOrder' = [SendOrder EXCEPT ![1] = Append(g, p)]
        BY <3>1, ExceptForms, Zenon
      <3> QED  BY <2>2, <3>2 DEF Promise!SpecInter, specialVars
    <2>8. CASE num = 2
      <3>0. GopNum = 2 /\ CurrentSlot # nextindex
        BY <1>t, <2>4, <2>8, RingIndex DEF OrderIs
      <3>1. gops'[nextindex'] = gops[nextindex]
        BY <1>0, <1>t, <2>3, <3>0
      <3>2. SendOrder = <<gops[nextindex], g>> /\ SendOrder' = <<gops[nextindex], Append(g, p)>>
        BY <1>0, <2>4, <2>5, <2>6, <2>8, <3>1 DEF OrderIs
      <3>3. /\ SendOrder # <<>> /\ Len(SendOrder) = 2 /\ SendOrder[2] = g
            /\ SendOrder' = [SendOrder EXCEPT ![2] = Append(g, p)]
        <4> DEFINE a == gops[nextindex]
                   c == Append(g, p)
        <4>1. /\ [<<a, g>> EXCEPT ![2] = c] = <<a, c>>
              /\ Len(<<a, g>>) = 2 /\ <<a, g>>[2] = g /\ <<a, g>> # <<>>
          <5> HIDE DEF a, c, g
          <5> QED  BY ExceptForms
        <4> QED  BY <3>2, <4>1, Zenon
      <3> QED  BY <2>2, <3>3 DEF Promise!SpecInter, specialVars
    <2> QED
      BY <1>t, <2>1, <2>7, <2>8 DEF OneOrTwo
  <1> QED  BY <1>1, <1>2

LEMMA RefStep ==
    ASSUME OneOrTwo, Inv, Inv', [Next]_cacheVars
    PROVE  [Promise!SpecNext]_(Promise!specVars)
  <1>1. ASSUME NEW p \in Packets, WriteMeta(p) \/ WriteAudio(p) \/ (p.kind = "seq" /\ WriteVideo(p))
        PROVE  [Promise!SpecNext]_(Promise!specVars)
    BY <1>1, RefSpecial
  <1>2. ASSUME NEW p \in Packets, p.kind # "seq", WriteVideo(p)
        PROVE  [Promise!SpecNext]_(Promise!specVars)
    BY <1>2, RefKey, RefInter DEF WriteVideo, Promise!SpecNext
  <1>3. CASE UNCHANGED cacheVars
    BY <1>3 DEF cacheVars, specialVars, gopVars, Promise!specVars, SendOrder, SendIndex, CurrentSlot
  <1> QED
    BY <1>1, <1>2, <1>3 DEF Next, Write

\* The cache keeps the promise of CacheSpec: whatever it is sent, a joining
\* player gets the last GopNum groups of pictures and the latest headers.
THEOREM CacheImplements ==
    ASSUME OneOrTwo
    PROVE  Spec => CacheRefines
  BY InvInit, InvStep, RefInit, RefStep, PTL DEF Spec, CacheRefines, Promise!CacheSafe

---------------------------------------------------------------------------
(* Largest elements and FlattenSeq                                         *)

\* Induction over the naturals in the form of WFMin: a set of naturals that
\* is not empty has a least element.
LEMMA LeastElement ==
    ASSUME NEW T \in SUBSET Nat, T # {}
    PROVE  \E x \in T : \A y \in T : x <= y
  <1> DEFINE R == OpToRel(<, Nat)
  <1>1. IsWellFoundedOn(R, Nat)
    BY NatLessThanWellFounded
  <1>2. \E x \in T : \A y \in T : ~ (<<y, x>> \in R)
    <2> HIDE DEF R
    <2> QED  BY <1>1, WFMin
  <1>3. PICK x \in T : \A y \in T : ~ (<<y, x>> \in R)
    BY <1>2
  <1>4. \A y \in T : ~ (y < x)
    BY <1>3 DEF OpToRel
  <1> QED  BY <1>4

\* Max of FiniteSetsExt is what its name says.
LEMMA MaxOf ==
    ASSUME NEW n \in Nat, NEW S \in SUBSET (1 .. n), S # {}
    PROVE  Max(S) \in S /\ \A y \in S : Max(S) >= y
  <1> DEFINE T == {n - y : y \in S}
  <1>0. \A y \in S : n - y \in Nat
    OBVIOUS
  <1>1. T \in SUBSET Nat /\ T # {}
    BY <1>0
  <1>2. PICK x \in T : \A y \in T : x <= y
    <2> HIDE DEF T
    <2> QED  BY <1>1, LeastElement
  <1>3. \A y \in S : n - y \in T /\ x <= n - y
    BY <1>2
  <1>4. n - x \in S /\ \A y \in S : n - x >= y
    BY <1>2, <1>3
  <1> QED  BY <1>4 DEF Max

\* FlattenSeq unfolded for the one or two groups the ring holds.
LEMMA FlattenOne ==
    ASSUME NEW a
    PROVE  FlattenSeq(<<a>>) = a
  <1> DEFINE seqs == <<a>>
             P(f) == f = [i \in 1 .. Len(seqs) |-> IF i = 1 THEN seqs[i] ELSE f[i-1] \o seqs[i]]
             f1 == [i \in {1} |-> a]
  <1>1. P(f1)
    OBVIOUS
  <1>2. P(CHOOSE f : P(f))
    BY <1>1
  <1>3. (CHOOSE f : P(f))[1] = a
    BY <1>2
  <1> QED  BY <1>3 DEF FlattenSeq

LEMMA FlattenTwo ==
    ASSUME NEW a, NEW b
    PROVE  FlattenSeq(<<a, b>>) = a \o b
  <1> DEFINE seqs == <<a, b>>
             P(f) == f = [i \in 1 .. Len(seqs) |-> IF i = 1 THEN seqs[i] ELSE f[i-1] \o seqs[i]]
             f2 == [i \in 1 .. 2 |-> IF i = 1 THEN a ELSE a \o b]
  <1>0. Len(seqs) = 2 /\ seqs[1] = a /\ seqs[2] = b
    OBVIOUS
  <1>1. P(f2)
    <2>1. \A i \in 1 .. 2 : f2[i] = IF i = 1 THEN seqs[i] ELSE f2[i-1] \o seqs[i]
      BY <1>0
    <2> QED BY <2>1, <1>0
  <1>2. P(CHOOSE f : P(f))
    BY <1>1
  <1> DEFINE c == CHOOSE f : P(f)
  <1>3. c = [i \in 1 .. Len(seqs) |-> IF i = 1 THEN seqs[i] ELSE c[i-1] \o seqs[i]]
    BY <1>2
  <1>4. c[2] = c[1] \o b /\ c[1] = a
    <2> DEFINE d == c
    <2>1. c = [i \in 1 .. Len(seqs) |-> IF i = 1 THEN seqs[i] ELSE d[i-1] \o seqs[i]]
      BY <1>3
    <2>2. d = c
      OBVIOUS
    <2> HIDE DEF c, d, seqs
    <2>3. c = [i \in 1 .. 2 |-> IF i = 1 THEN a ELSE d[i-1] \o seqs[i]]
      BY <1>0, <2>1
    <2>4. c[1] = a
      BY <2>3
    <2>5. c[2] = d[1] \o seqs[2]
      <3>1. c[2] = IF 2 = 1 THEN a ELSE d[2-1] \o seqs[2]
        <4>1. 2 \in 1 .. 2
          OBVIOUS
        <4> QED  BY <2>3, <4>1, Zenon
      <3>2. 2 # 1 /\ 2 - 1 = 1
        OBVIOUS
      <3> QED  BY <3>1, <3>2, Zenon
    <2> QED  BY <1>0, <2>2, <2>4, <2>5
  <1>5. FlattenSeq(seqs) = c[Len(seqs)]
    <2> HIDE DEF seqs
    <2> QED  BY <1>0 DEF FlattenSeq
  <1> QED  BY <1>0, <1>4, <1>5

---------------------------------------------------------------------------
(* Where the contents of the cache come from                               *)

NoKeyIn(P, a, b) == \A j \in a .. b : P[j].kind # "key"

\* The array g holds frames, in their order, of the group of pictures that
\* begins with the key frame at position k and of which n is the last packet.
Group(P, g, k, n) ==
    /\ k \in 1 .. n /\ P[k].kind = "key" /\ NoKeyIn(P, k + 1, n)
    /\ g \in Seq(Packets) /\ Len(g) > 0
    /\ \A j \in 1 .. Len(g) : IsFrame(g[j]) /\ g[j].id \in k .. n /\ g[j] = P[g[j].id]
    /\ \A i, j \in 1 .. Len(g) : i < j => g[i].id < g[j].id

\* It holds all of them.
Whole(P, g, k, n) ==
    /\ FrameCount(P, k, n) = Len(g)
    /\ \A i \in k .. n : IsFrame(P[i]) => \E j \in 1 .. Len(g) : g[j] = P[i]

\* The ring holds the last groups of P.
Holds(P, nm, old, new) ==
    /\ nm = 0 => NoKeyIn(P, 1, Len(P))
    /\ nm > 0 => Group(P, new, new[1].id, Len(P))
    /\ nm = 2 => Group(P, old, old[1].id, new[1].id - 1)
    /\ GopTooBig(P, Len(P)) \/
           /\ nm > 0 => Whole(P, new, new[1].id, Len(P))
           /\ nm = 2 => Whole(P, old, old[1].id, new[1].id - 1)

Numbered(P) == P \in Seq(Packets) /\ \A i \in 1 .. Len(P) : P[i].id = i

FanType ==
    /\ Numbered(pub)
    /\ ws \subseteq Players /\ todo \subseteq ws /\ (todo # {} => Len(pub) > 0)
    /\ init \in [Players -> BOOLEAN] /\ got \in [Players -> Seq(Packets)]

SpecialInv ==
    /\ meta = NoPacket \/ meta.kind = "meta"
    /\ aseq = NoPacket \/ aseq.kind = "aacseq"
    /\ vseq = NoPacket \/ vseq.kind = "seq"
    /\ vseq.id = HeaderIn(pub, Len(pub))

CacheInv == Inv /\ SpecialInv /\ Holds(pub, num, gops[nextindex], gops[CurrentSlot])

\* What w was sent are packets of the publisher with recent enough headers.
Sent(s, P) ==
    \A j \in 1 .. Len(s) :
        IsFrame(s[j]) => s[j].id \in 1 .. Len(P) /\ HeaderIn(s, j) >= HeaderIn(P, s[j].id)

\* s continues the first n packets of P.
UpToDate(s, P, n) ==
    /\ HeaderIn(s, Len(s)) = HeaderIn(P, n)
    /\ GopTooBig(P, n) \/
           \E k \in 1 .. n + 1 :
               /\ SameFrames(s, P, k, n)
               /\ (k <= n /\ P[k].kind = "key") \/ NoKeyIn(P, 1, k - 1)

PlayerInv(w) ==
    /\ Sent(got[w], pub)
    /\ w \in ws /\ ~init[w] => got[w] = <<>>
    /\ w \in ws /\ init[w] => UpToDate(got[w], pub, Offered(w))

FanInv == FanType /\ CacheInv /\ \A w \in Players : PlayerInv(w)

---------------------------------------------------------------------------
(* Headers                                                                 *)

LEMMA HeaderForm ==
    ASSUME NEW s, NEW n \in Nat
    PROVE  \/ (\A i \in 1 .. n : ~IsSeq(s[i])) /\ HeaderIn(s, n) = 0
           \/ \E h \in 1 .. n : /\ IsSeq(s[h]) /\ HeaderIn(s, n) = s[h].id
                                /\ \A i \in 1 .. n : IsSeq(s[i]) => i <= h
  <1> DEFINE H == {i \in 1 .. n : IsSeq(s[i])}
  <1>1. CASE H = {}
    <2>1. HeaderIn(s, n) = 0
      BY <1>1 DEF HeaderIn
    <2> QED  BY <1>1, <2>1
  <1>2. CASE H # {}
    <2>1. HeaderIn(s, n) = s[Max(H)].id
      BY <1>2 DEF HeaderIn
    <2>2. H \in SUBSET (1 .. n)
      OBVIOUS
    <2>3. Max(H) \in H /\ \A y \in H : Max(H) >= y
      <3> HIDE DEF H
      <3> QED  BY <1>2, <2>2, MaxOf
    <2>4. \A i \in 1 .. n : IsSeq(s[i]) => i <= Max(H)
      <3>1. \A i \in 1 .. n : IsSeq(s[i]) => i \in H
        OBVIOUS
      <3>2. Max(H) \in 1 .. n
        BY <2>3
      <3> HIDE DEF H
      <3> QED  BY <2>3, <3>1, <3>2
    <2>5. Max(H) \in 1 .. n /\ IsSeq(s[Max(H)])
      BY <2>3
    <2> QED  BY <2>1, <2>4, <2>5
  <1> QED  BY <1>1, <1>2

\* A header is found where all headers are the same packet v.
LEMMA HeaderOnly ==
    ASSUME NEW s, NEW n \in Nat, NEW v,
           \A i \in 1 .. n : IsSeq(s[i]) => s[i] = v,
           (\E i \in 1 .. n : IsSeq(s[i])) \/ v.id = 0
    PROVE  HeaderIn(s, n) = v.id
  BY HeaderForm

\* Only the first n packets count.
LEMMA HeaderLocal ==
    ASSUME NEW s, NEW t, NEW n \in Nat, \A i \in 1 .. n : s[i] = t[i]
    PROVE  HeaderIn(s, n) = HeaderIn(t, n)
  <1>1. \A i \in 1 .. n : IsSeq(s[i]) <=> IsSeq(t[i])
    BY DEF IsSeq
  <1>2. CASE \A i \in 1 .. n : ~IsSeq(s[i])
    BY <1>1, <1>2, HeaderForm
  <1>3. CASE \E i \in 1 .. n : IsSeq(s[i])
    <2>1. PICK h \in 1 .. n : /\ IsSeq(s[h]) /\ HeaderIn(s, n) = s[h].id
                              /\ \A i \in 1 .. n : IsSeq(s[i]) => i <= h
      BY <1>3, HeaderForm
    <2>2. PICK k \in 1 .. n : /\ IsSeq(t[k]) /\ HeaderIn(t, n) = t[k].id
                              /\ \A i \in 1 .. n : IsSeq(t[i]) => i <= k
      BY <1>1, <1>3, HeaderForm
    <2>3. h = k
      BY <1>1, <2>1, <2>2
    <2> QED  BY <2>1, <2>2, <2>3
  <1> QED  BY <1>2, <1>3

LEMMA AppendParts ==
    ASSUME NEW s \in Seq(Packets), NEW p \in Packets
    PROVE  /\ Append(s, p) \in Seq(Packets) /\ Len(Append(s, p)) = Len(s) + 1 /\ Len(s) \in Nat
           /\ \A i \in 1 .. Len(s) : Append(s, p)[i] = s[i]
           /\ Append(s, p)[Len(s) + 1] = p
  BY AppendProperties, LenProperties

\* The header after one more packet.
LEMMA HeaderNext ==
    ASSUME NEW t, NEW n \in Nat
    PROVE  HeaderIn(t, n + 1) = IF IsSeq(t[n + 1]) THEN t[n + 1].id ELSE HeaderIn(t, n)
  <1> DEFINE p == t[n + 1]
  <1>1. n + 1 \in Nat /\ n + 1 \in 1 .. n + 1 /\ p = t[n + 1]
    OBVIOUS
  <1> HIDE DEF p
  <1>2. CASE IsSeq(p)
    <2>1. PICK h \in 1 .. n + 1 : /\ HeaderIn(t, n + 1) = t[h].id
                                  /\ \A i \in 1 .. n + 1 : IsSeq(t[i]) => i <= h
      BY <1>1, <1>2, HeaderForm
    <2>2. h = n + 1
      BY <1>1, <1>2, <2>1
    <2> QED  BY <1>1, <1>2, <2>1, <2>2
  <1>3. CASE ~IsSeq(p)
    <2>1. \A i \in 1 .. n + 1 : IsSeq(t[i]) => i \in 1 .. n
      BY <1>1, <1>3
    <2>2. CASE \A i \in 1 .. n : ~IsSeq(t[i])
      <3>1. \A i \in 1 .. n + 1 : ~IsSeq(t[i])
        BY <2>1, <2>2
      <3> QED  BY <1>1, <1>3, <2>2, <3>1, HeaderForm
    <2>3. CASE \E i \in 1 .. n : IsSeq(t[i])
      <3>1. PICK h \in 1 .. n : /\ IsSeq(t[h]) /\ HeaderIn(t, n) = t[h].id
                                /\ \A i \in 1 .. n : IsSeq(t[i]) => i <= h
        BY <2>3, HeaderForm
      <3>2. \E i \in 1 .. n + 1 : IsSeq(t[i])
        BY <3>1
      <3>3. PICK k \in 1 .. n + 1 : /\ IsSeq(t[k]) /\ HeaderIn(t, n + 1) = t[k].id
                                    /\ \A i \in 1 .. n + 1 : IsSeq(t[i]) => i <= k
        BY <1>1, <3>2, HeaderForm
      <3>4. h = k
        BY <2>1, <3>1, <3>3
      <3> QED  BY <1>1, <1>3, <3>1, <3>3, <3>4
    <2> QED  BY <2>2, <2>3
  <1> QED  BY <1>1, <1>2, <1>3

LEMMA HeaderAppend ==
    ASSUME NEW s \in Seq(Packets), NEW p \in Packets
    PROVE  HeaderIn(Append(s, p), Len(s) + 1) =
               IF IsSeq(p) THEN p.id ELSE HeaderIn(s, Len(s))
  <1> DEFINE t == Append(s, p)
             n == Len(s)
  <1>1. /\ n \in Nat /\ t[n + 1] = p /\ \A i \in 1 .. n : t[i] = s[i]
    BY AppendParts
  <1> HIDE DEF t, n
  <1>2. HeaderIn(t, n) = HeaderIn(s, n)
    BY <1>1, HeaderLocal
  <1>3. HeaderIn(t, n + 1) = IF IsSeq(p) THEN p.id ELSE HeaderIn(s, n)
    BY <1>1, <1>2, HeaderNext
  <1> QED  BY <1>3 DEF t, n

\* The publisher's headers only get newer.
LEMMA HeaderMono ==
    ASSUME NEW P, Numbered(P), NEW n \in 0 .. Len(P), NEW m \in 0 .. n
    PROVE  HeaderIn(P, m) <= HeaderIn(P, n) /\ HeaderIn(P, m) \in Nat /\ HeaderIn(P, n) \in Nat
  <1>0. Len(P) \in Nat /\ \A i \in 1 .. Len(P) : P[i].id = i
    BY LenProperties DEF Numbered
  <1>1. n \in Nat /\ m \in Nat
    BY <1>0
  <1>2. CASE \A i \in 1 .. n : ~IsSeq(P[i])
    <2>1. HeaderIn(P, n) = 0
      BY <1>1, <1>2, HeaderForm
    <2>2. HeaderIn(P, m) = 0
      BY <1>1, <1>2, HeaderForm
    <2> QED  BY <2>1, <2>2
  <1>3. CASE \E i \in 1 .. n : IsSeq(P[i])
    <2>1. PICK h \in 1 .. n : /\ HeaderIn(P, n) = P[h].id
                              /\ \A i \in 1 .. n : IsSeq(P[i]) => i <= h
      BY <1>1, <1>3, HeaderForm
    <2>2. HeaderIn(P, n) = h
      BY <1>0, <2>1
    <2>3. CASE \A i \in 1 .. m : ~IsSeq(P[i])
      BY <1>1, <2>2, <2>3, HeaderForm
    <2>4. CASE \E i \in 1 .. m : IsSeq(P[i])
      <3>1. PICK k \in 1 .. m : IsSeq(P[k]) /\ HeaderIn(P, m) = P[k].id
        BY <1>1, <2>4, HeaderForm
      <3> QED  BY <1>0, <2>1, <2>2, <3>1
    <2> QED  BY <2>3, <2>4
  <1> QED  BY <1>2, <1>3

---------------------------------------------------------------------------
(* Groups of pictures                                                      *)

\* The facts about the packets of the publisher and the one it sends next.
LEMMA NextPacket ==
    ASSUME NEW P, Numbered(P), NEW p \in Packets, p.id = Len(P) + 1
    PROVE  /\ Numbered(Append(P, p)) /\ Len(P) \in Nat /\ Len(Append(P, p)) = Len(P) + 1
           /\ \A i \in 1 .. Len(P) : Append(P, p)[i] = P[i]
           /\ Append(P, p)[Len(P) + 1] = p
  <1>1. P \in Seq(Packets) /\ \A i \in 1 .. Len(P) : P[i].id = i
    BY DEF Numbered
  <1>2. /\ Append(P, p) \in Seq(Packets) /\ Len(Append(P, p)) = Len(P) + 1 /\ Len(P) \in Nat
        /\ \A i \in 1 .. Len(P) : Append(P, p)[i] = P[i]
        /\ Append(P, p)[Len(P) + 1] = p
    BY <1>1, AppendParts
  <1>3. \A i \in 1 .. Len(P) + 1 : Append(P, p)[i].id = i
    BY <1>1, <1>2
  <1> QED  BY <1>2, <1>3 DEF Numbered

\* One more packet, one more frame or none.
LEMMA FramesGrow ==
    ASSUME NEW P, NEW Q, NEW n \in Nat, NEW k \in 1 .. n + 1,
           \A i \in 1 .. n : Q[i] = P[i]
    PROVE  FrameCount(Q, k, n + 1) =
               IF IsFrame(Q[n + 1]) THEN FrameCount(P, k, n) + 1
                                    ELSE FrameCount(P, k, n)
  <1> DEFINE F == {j \in k .. n : IsFrame(P[j])}
             G == {j \in k .. n + 1 : IsFrame(Q[j])}
  <1>1. IsFiniteSet(F)
    <2>1. k \in Int /\ n \in Int
      OBVIOUS
    <2>2. IsFiniteSet(k .. n)
      BY <2>1, FS_Interval
    <2> QED  BY <2>2, FS_Subset
  <1>2. n + 1 \notin F
    OBVIOUS
  <1>3. \A j \in k .. n : IsFrame(Q[j]) <=> IsFrame(P[j])
    BY DEF IsFrame
  <1>4. \A j : j \in k .. n + 1 <=> j \in k .. n \/ j = n + 1
    OBVIOUS
  <1>5. IsFrame(Q[n + 1]) => G = F \cup {n + 1}
    BY <1>3, <1>4
  <1>6. ~IsFrame(Q[n + 1]) => G = F
    BY <1>3, <1>4
  <1>7. Cardinality(F \cup {n + 1}) = Cardinality(F) + 1
    <2> HIDE DEF F
    <2> QED  BY <1>1, <1>2, FS_AddElement
  <1> QED  BY <1>5, <1>6, <1>7 DEF FrameCount

\* The part of the packets before n does not change.
LEMMA FramesSame ==
    ASSUME NEW P, NEW Q, NEW n \in Nat, NEW k \in 1 .. n + 1,
           \A i \in 1 .. n : Q[i] = P[i]
    PROVE  FrameCount(Q, k, n) = FrameCount(P, k, n)
  <1>1. \A j \in k .. n : IsFrame(Q[j]) <=> IsFrame(P[j])
    BY DEF IsFrame
  <1>2. {j \in k .. n : IsFrame(Q[j])} = {j \in k .. n : IsFrame(P[j])}
    BY <1>1
  <1> QED  BY <1>2 DEF FrameCount

LEMMA TooBigStays ==
    ASSUME NEW P, NEW Q, NEW n \in Nat, NEW m \in Nat, n <= m,
           \A i \in 1 .. n : Q[i] = P[i], GopTooBig(P, n)
    PROVE  GopTooBig(Q, m)
  <1>1. PICK a \in 1 .. n, b \in 1 .. n :
           /\ P[a].kind = "key"
           /\ \A j \in a + 1 .. b : P[j].kind # "key"
           /\ FrameCount(P, a, b) > MaxGopCap
    BY DEF GopTooBig
  <1>2. FrameCount(Q, a, b) = FrameCount(P, a, b)
    <2>1. \A j \in a .. b : IsFrame(Q[j]) <=> IsFrame(P[j])
      BY DEF IsFrame
    <2>2. {j \in a .. b : IsFrame(Q[j])} = {j \in a .. b : IsFrame(P[j])}
      BY <2>1
    <2> QED  BY <2>2 DEF FrameCount
  <1>3. a \in 1 .. m /\ b \in 1 .. m /\ Q[a].kind = "key"
    BY <1>1
  <1>4. \A j \in a + 1 .. b : Q[j].kind # "key"
    BY <1>1
  <1> QED  BY <1>1, <1>2, <1>3, <1>4 DEF GopTooBig

\* A group that has ended stays what it is.
LEMMA GroupStays ==
    ASSUME NEW P, NEW Q, NEW n \in Nat, \A i \in 1 .. n : Q[i] = P[i],
           NEW g, NEW k, Group(P, g, k, n)
    PROVE  /\ Group(Q, g, k, n)
           /\ Whole(P, g, k, n) => Whole(Q, g, k, n)
  <1>1. k \in 1 .. n
    BY DEF Group
  <1>2. Q[k].kind = "key" /\ NoKeyIn(Q, k + 1, n)
    BY <1>1 DEF Group, NoKeyIn
  <1>3. \A j \in 1 .. Len(g) : g[j].id \in k .. n => Q[g[j].id] = P[g[j].id]
    BY <1>1
  <1>4. Group(Q, g, k, n)
    BY <1>1, <1>2, <1>3 DEF Group
  <1>5. FrameCount(Q, k, n) = FrameCount(P, k, n)
    BY <1>1, FramesSame
  <1>6. \A i \in k .. n : Q[i] = P[i]
    BY <1>1
  <1> QED  BY <1>4, <1>5, <1>6 DEF Whole

\* A packet that is not a key frame belongs to the group but need not be in g.
LEMMA GroupSkips ==
    ASSUME NEW P, Numbered(P), NEW p \in Packets, p.id = Len(P) + 1, p.kind # "key",
           NEW g, NEW k, Group(P, g, k, Len(P))
    PROVE  /\ Group(Append(P, p), g, k, Len(P) + 1)
           /\ Whole(P, g, k, Len(P)) /\ ~IsFrame(p) => Whole(Append(P, p), g, k, Len(P) + 1)
  <1> DEFINE Q == Append(P, p)
             n == Len(P)
  <1>0. n \in Nat /\ Q[n + 1] = p /\ \A i \in 1 .. n : Q[i] = P[i]
    BY NextPacket
  <1>1. k \in 1 .. n /\ Group(P, g, k, n)
    BY DEF Group
  <1> HIDE DEF Q, n
  <1>2. Group(Q, g, k, n) /\ (Whole(P, g, k, n) => Whole(Q, g, k, n))
    BY <1>0, <1>1, GroupStays
  <1>3. k \in 1 .. n + 1 /\ NoKeyIn(Q, k + 1, n + 1)
    <2>1. k \in 1 .. n + 1
      BY <1>0, <1>1
    <2>2. \A j \in k + 1 .. n + 1 : j \in k + 1 .. n \/ j = n + 1
      BY <1>0, <1>1
    <2>3. NoKeyIn(Q, k + 1, n)
      BY <1>2 DEF Group
    <2>4. Q[n + 1].kind # "key"
      BY <1>0
    <2> QED  BY <2>1, <2>2, <2>3, <2>4 DEF NoKeyIn
  <1>4. Group(Q, g, k, n + 1)
    <2>1. \A j \in 1 .. Len(g) : g[j].id \in k .. n => g[j].id \in k .. n + 1
      BY <1>0
    <2> QED  BY <1>2, <1>3, <2>1 DEF Group
  <1>5. ASSUME Whole(P, g, k, n), ~IsFrame(p) PROVE Whole(Q, g, k, n + 1)
    <2>1. FrameCount(Q, k, n + 1) = FrameCount(P, k, n)
      <3>1. ~IsFrame(Q[n + 1])
        BY <1>0, <1>5
      <3> QED  BY <1>0, <1>3, <3>1, FramesGrow
    <2>2. \A i \in k .. n + 1 : IsFrame(Q[i]) => i \in k .. n
      BY <1>0, <1>1, <1>5
    <2> QED  BY <1>2, <1>5, <2>1, <2>2 DEF Whole
  <1> QED  BY <1>4, <1>5 DEF Q, n

\* An inter frame that is appended to the group.
LEMMA GroupGrows ==
    ASSUME NEW P, Numbered(P), NEW p \in Packets, p.id = Len(P) + 1, p.kind = "inter",
           NEW g, NEW k, Group(P, g, k, Len(P))
    PROVE  /\ Group(Append(P, p), Append(g, p), k, Len(P) + 1)
           /\ Whole(P, g, k, Len(P)) => Whole(Append(P, p), Append(g, p), k, Len(P) + 1)
  <1> DEFINE Q == Append(P, p)
             n == Len(P)
             h == Append(g, p)
             l == Len(g)
  <1>0. n \in Nat /\ Q[n + 1] = p /\ \A i \in 1 .. n : Q[i] = P[i]
    BY NextPacket
  <1>1. k \in 1 .. n /\ g \in Seq(Packets) /\ l > 0 /\ Group(P, g, k, n)
    BY DEF Group
  <1>2. /\ h \in Seq(Packets) /\ Len(h) = l + 1 /\ l \in Nat /\ h[l + 1] = p
        /\ \A i \in 1 .. l : h[i] = g[i]
    BY <1>1, AppendParts
  <1>3. p.id = n + 1 /\ IsFrame(p)
    BY DEF IsFrame
  <1> HIDE DEF Q, n, h, l
  <1>4. Group(Q, g, k, n + 1)
    BY GroupSkips DEF Q, n
  <1>5. \A j \in 1 .. l : /\ IsFrame(g[j]) /\ g[j].id \in k .. n
                          /\ g[j] = P[g[j].id] /\ g[j] = Q[g[j].id]
    BY <1>1, <1>4 DEF Group, l
  <1>6. \A j \in 1 .. Len(h) : IsFrame(h[j]) /\ h[j].id \in k .. n + 1 /\ h[j] = Q[h[j].id]
    <2>1. \A j \in 1 .. l : IsFrame(h[j]) /\ h[j].id \in k .. n + 1 /\ h[j] = Q[h[j].id]
      BY <1>0, <1>2, <1>5
    <2>2. IsFrame(h[l + 1]) /\ h[l + 1].id \in k .. n + 1 /\ h[l + 1] = Q[h[l + 1].id]
      BY <1>0, <1>1, <1>2, <1>3
    <2> QED  BY <1>2, <2>1, <2>2
  <1>7. \A i, j \in 1 .. Len(h) : i < j => h[i].id < h[j].id
    <2> SUFFICES ASSUME NEW i \in 1 .. Len(h), NEW j \in 1 .. Len(h), i < j
                 PROVE  h[i].id < h[j].id
      OBVIOUS
    <2>1. i \in 1 .. l /\ h[i] = g[i] /\ g[i].id \in k .. n
      BY <1>2, <1>5
    <2>2. CASE j = l + 1
      BY <1>0, <1>1, <1>2, <1>3, <2>1, <2>2
    <2>3. CASE j # l + 1
      <3>1. j \in 1 .. l /\ h[j] = g[j]
        BY <1>2, <2>3
      <3> QED  BY <1>1, <2>1, <3>1 DEF Group, l
    <2> QED  BY <2>2, <2>3
  <1>8. Group(Q, h, k, n + 1)
    BY <1>2, <1>4, <1>6, <1>7 DEF Group
  <1>9. ASSUME Whole(P, g, k, n) PROVE Whole(Q, h, k, n + 1)
    <2>0. k \in 1 .. n + 1
      BY <1>0, <1>1
    <2>1. FrameCount(Q, k, n + 1) = FrameCount(P, k, n) + 1
      BY <1>0, <1>3, <2>0, FramesGrow
    <2>2. FrameCount(P, k, n) = l
      BY <1>9 DEF Whole, l
    <2>3. \A i \in k .. n + 1 : IsFrame(Q[i]) => \E j \in 1 .. Len(h) : h[j] = Q[i]
      <3> SUFFICES ASSUME NEW i \in k .. n + 1, IsFrame(Q[i])
                   PROVE  \E j \in 1 .. Len(h) : h[j] = Q[i]
        OBVIOUS
      <3>1. CASE i = n + 1
        BY <1>0, <1>2, <3>1
      <3>2. CASE i # n + 1
        <4>0. i \in k .. n /\ i \in 1 .. n
          BY <1>0, <1>1, <3>2
        <4>1. i \in k .. n /\ Q[i] = P[i]
          BY <1>0, <4>0
        <4>2. PICK j \in 1 .. l : g[j] = P[i]
          BY <1>9, <4>1 DEF Whole, l
        <4>3. j \in 1 .. Len(h) /\ h[j] = Q[i]
          BY <1>2, <4>1, <4>2
        <4> QED  BY <4>3
      <3> QED  BY <3>1, <3>2
    <2> QED  BY <1>2, <2>1, <2>2, <2>3 DEF Whole
  <1> QED  BY <1>8, <1>9 DEF Q, n, h

\* An inter frame that array.write ignores: the group is too big.
LEMMA GroupOverflows ==
    ASSUME NEW P, Numbered(P), NEW p \in Packets, p.id = Len(P) + 1, p.kind = "inter",
           NEW g, NEW k, Group(P, g, k, Len(P)), Whole(P, g, k, Len(P)), Len(g) >= MaxGopCap
    PROVE  GopTooBig(Append(P, p), Len(P) + 1)
  <1> DEFINE Q == Append(P, p)
             n == Len(P)
  <1>0. n \in Nat /\ Q[n + 1] = p /\ \A i \in 1 .. n : Q[i] = P[i]
    BY NextPacket
  <1>1. k \in 1 .. n /\ Len(g) \in Nat /\ FrameCount(P, k, n) = Len(g)
    BY LenProperties DEF Group, Whole
  <1>2. Group(Q, g, k, n + 1) /\ IsFrame(p)
    BY GroupSkips DEF IsFrame
  <1> HIDE DEF Q, n
  <1>3. k \in 1 .. n + 1 /\ n + 1 \in 1 .. n + 1
    BY <1>0, <1>1
  <1>4. FrameCount(Q, k, n + 1) = Len(g) + 1
    <2>1. IsFrame(Q[n + 1])
      BY <1>0, <1>2
    <2>2. FrameCount(Q, k, n + 1) = FrameCount(P, k, n) + 1
      BY <1>0, <1>3, <2>1, FramesGrow
    <2> QED  BY <1>1, <2>2
  <1>5. FrameCount(Q, k, n + 1) > MaxGopCap
    BY <1>1, <1>4, CacheAssumption
  <1>6. Q[k].kind = "key" /\ \A j \in k + 1 .. n + 1 : Q[j].kind # "key"
    BY <1>2 DEF Group, NoKeyIn
  <1>7. GopTooBig(Q, n + 1)
    BY <1>3, <1>5, <1>6 DEF GopTooBig
  <1> QED  BY <1>7 DEF Q, n

\* A key frame opens a group.
LEMMA GroupOpens ==
    ASSUME NEW P, Numbered(P), NEW p \in Packets, p.id = Len(P) + 1, p.kind = "key"
    PROVE  /\ Group(Append(P, p), <<p>>, Len(P) + 1, Len(P) + 1)
           /\ Whole(Append(P, p), <<p>>, Len(P) + 1, Len(P) + 1)
  <1> DEFINE Q == Append(P, p)
             n == Len(P)
             g == <<p>>
  <1>0. n \in Nat /\ Q[n + 1] = p /\ \A i \in 1 .. n : Q[i] = P[i]
    BY NextPacket
  <1>1. g \in Seq(Packets) /\ Len(g) = 1 /\ g[1] = p /\ p.id = n + 1 /\ IsFrame(p)
    BY DEF IsFrame
  <1> HIDE DEF Q, n, g
  <1>2. n + 1 \in 1 .. n + 1 /\ Q[n + 1].kind = "key" /\ NoKeyIn(Q, n + 1 + 1, n + 1)
    BY <1>0 DEF NoKeyIn
  <1>3. \A j \in 1 .. Len(g) : IsFrame(g[j]) /\ g[j].id \in n + 1 .. n + 1 /\ g[j] = Q[g[j].id]
    BY <1>0, <1>1
  <1>4. \A i, j \in 1 .. Len(g) : i < j => g[i].id < g[j].id
    BY <1>1
  <1>5. Group(Q, g, n + 1, n + 1)
    BY <1>1, <1>2, <1>3, <1>4 DEF Group
  <1>6. FrameCount(Q, n + 1, n + 1) = 1
    <2>1. {j \in n + 1 .. n + 1 : IsFrame(Q[j])} = {n + 1}
      BY <1>0, <1>1
    <2> QED  BY <2>1, FS_Singleton DEF FrameCount
  <1>7. \A i \in n + 1 .. n + 1 : IsFrame(Q[i]) => \E j \in 1 .. Len(g) : g[j] = Q[i]
    BY <1>0, <1>1
  <1>8. Whole(Q, g, n + 1, n + 1)
    BY <1>1, <1>6, <1>7 DEF Whole
  <1> QED  BY <1>5, <1>8 DEF Q, n, g

\* The cache after one more packet of the publisher.
LEMMA HoldsStep ==
    ASSUME OneOrTwo, Inv, Numbered(pub), NEW p \in Packets, p.id = Len(pub) + 1,
           Holds(pub, num, gops[nextindex], gops[CurrentSlot]),
           \/ p.kind \in {"key", "inter"} /\ GopWrite(p)
           \/ p.kind \notin {"key", "inter"} /\ UNCHANGED gopVars
    PROVE  Holds(Append(pub, p), num', (gops')[nextindex'], (gops')[CurrentSlot'])
  <1> DEFINE P == pub
             Q == Append(P, p)
             n == Len(P)
             old == gops[nextindex]
             new == gops[CurrentSlot]
             old1 == (gops')[nextindex']
             new1 == (gops')[CurrentSlot']
  <1>t. /\ num \in 0 .. GopNum /\ nextindex \in Slots /\ CurrentSlot \in Slots
        /\ gops \in [Slots -> Seq(Packets)]
    BY RingIndex DEF Inv, TypeOK
  <1>0. /\ n \in Nat /\ Len(Q) = n + 1 /\ Q[n + 1] = p /\ p.id = n + 1 /\ Numbered(P)
        /\ \A i \in 1 .. n : Q[i] = P[i]
    BY NextPacket
  <1>h. Holds(P, num, old, new)
    OBVIOUS
  <1>g. num > 0 => Group(P, new, new[1].id, n)
    BY DEF Holds
  <1>o. num = 2 => /\ Group(P, old, old[1].id, new[1].id - 1)
                   /\ new[1].id - 1 \in 0 .. n
    <2>1. num = 2 => new[1].id \in 1 .. n
      BY <1>g DEF Group
    <2> QED  BY <1>0, <2>1 DEF Holds
  <1>b. GopTooBig(P, n) => GopTooBig(Q, n + 1)
    <2>1. n <= n + 1 /\ n + 1 \in Nat
      BY <1>0
    <2> HIDE DEF P, Q, n
    <2> QED  BY <1>0, <2>1, TooBigStays
  \* An older group is not touched unless it is dropped.
  <1>s. num = 2 => /\ Group(Q, old, old[1].id, new[1].id - 1)
                   /\ \/ Whole(Q, old, old[1].id, new[1].id - 1)
                      \/ ~Whole(P, old, old[1].id, new[1].id - 1)
    <2> DEFINE m == new[1].id - 1
               k == old[1].id
    <2> SUFFICES ASSUME num = 2
                 PROVE  Group(Q, old, k, m) /\ (Whole(P, old, k, m) => Whole(Q, old, k, m))
      OBVIOUS
    <2>1. m \in Nat /\ (\A i \in 1 .. m : Q[i] = P[i]) /\ Group(P, old, k, m)
      <3>1. m \in 0 .. n /\ Group(P, old, k, m)
        BY <1>o
      <3> HIDE DEF m, P, Q, n, k, old
      <3> QED  BY <1>0, <3>1
    <2> HIDE DEF m, P, Q, k, old
    <2> QED  BY <2>1, GroupStays
  <1>1. CASE p.kind \notin {"key", "inter"}
    <2>1. num' = num /\ old1 = old /\ new1 = new
      BY <1>1 DEF gopVars, CurrentSlot
    <2>2. ~IsFrame(p) /\ p.kind # "key"
      BY <1>1 DEF IsFrame
    <2> DEFINE k == new[1].id
    <2>3. num > 0 => /\ Group(Q, new, k, n + 1)
                     /\ Whole(P, new, k, n) => Whole(Q, new, k, n + 1)
      <3> SUFFICES ASSUME num > 0
                   PROVE  /\ Group(Q, new, k, n + 1)
                          /\ Whole(P, new, k, n) => Whole(Q, new, k, n + 1)
        OBVIOUS
      <3>1. Group(P, new, k, Len(P))
        BY <1>g
      <3> HIDE DEF new, k, P
      <3> QED  BY <1>0, <2>2, <3>1, GroupSkips
    <2>4. num = 0 => NoKeyIn(Q, 1, Len(Q))
      <3>1. num = 0 => NoKeyIn(P, 1, n)
        BY DEF Holds
      <3> HIDE DEF P, Q, n
      <3> QED  BY <1>0, <2>2, <3>1 DEF NoKeyIn
    <2>5. \/ GopTooBig(Q, n + 1)
          \/ /\ num > 0 => Whole(Q, new, k, n + 1)
             /\ num = 2 => Whole(Q, old, old[1].id, k - 1)
      <3>1. \/ GopTooBig(P, n)
            \/ /\ num > 0 => Whole(P, new, k, n)
               /\ num = 2 => Whole(P, old, old[1].id, k - 1)
        BY DEF Holds
      <3> HIDE DEF P, Q, n, k, old
      <3> QED  BY <1>b, <1>s, <2>3, <3>1 DEF k
    <2> HIDE DEF P, Q, n, old, new, old1, new1
    <2>6. Holds(Q, num, old, new)
      BY <1>0, <1>s, <2>3, <2>4, <2>5 DEF Holds
    <2>7. Holds(Q, num', old1, new1)
      BY <2>1, <2>6
    <2> QED  BY <2>7 DEF Q, old1, new1, P
  <1>2. CASE p.kind = "key"
    <2>0. /\ gops' = [gops EXCEPT ![nextindex] = <<p>>]
          /\ nextindex' \in Slots /\ CurrentSlot' = nextindex
          /\ num' = IF num = GopNum THEN num ELSE num + 1
          /\ num < GopNum => nextindex = num
      BY <1>2, KeyStep
    <2>1. new1 = <<p>>
      BY <1>t, <2>0
    <2>2. new1[1] = p
      BY <2>1
    <2>3. num' > 0 /\ num' # 0 /\ num' \in 0 .. GopNum
      BY <1>t, <2>0 DEF OneOrTwo
    <2>4. Group(Q, new1, n + 1, n + 1) /\ Whole(Q, new1, n + 1, n + 1)
      <3>1. Group(Q, <<p>>, n + 1, n + 1) /\ Whole(Q, <<p>>, n + 1, n + 1)
        BY <1>2, GroupOpens
      <3> QED  BY <2>1, <3>1
    <2>5. num' = 2 => old1 = new /\ num > 0
      <3> SUFFICES ASSUME num' = 2 PROVE old1 = new /\ num > 0
        OBVIOUS
      <3>1. GopNum = 2 /\ num \in {1, 2}
        BY <1>t, <2>0, <2>3 DEF OneOrTwo
      <3>2. nextindex # CurrentSlot
        BY <1>t, <3>1, RingIndex
      <3>3. nextindex' = CurrentSlot
        <4>1. \/ nextindex = 0 /\ CurrentSlot = 1
              \/ nextindex = 1 /\ CurrentSlot = 0
          BY <1>t, <3>1, RingIndex
        <4>2. nextindex' \in {0, 1}
          BY <2>0, <3>1 DEF Slots
        <4>3. (nextindex' + 1) % GopNum = nextindex
          BY <2>0 DEF CurrentSlot
        <4> QED  BY <3>1, <4>1, <4>2, <4>3
      <3>4. (gops')[CurrentSlot] = gops[CurrentSlot]
        BY <1>t, <2>0, <3>2
      <3> QED  BY <3>1, <3>3, <3>4
    \* The group that was the newest has ended just before p.
    <2>6. num > 0 => /\ Group(Q, new, new[1].id, n)
                     /\ Whole(P, new, new[1].id, n) => Whole(Q, new, new[1].id, n)
      <3> SUFFICES ASSUME num > 0
                   PROVE  /\ Group(Q, new, new[1].id, n)
                          /\ Whole(P, new, new[1].id, n) => Whole(Q, new, new[1].id, n)
        OBVIOUS
      <3>1. Group(P, new, new[1].id, n)
        BY <1>g
      <3> HIDE DEF new, P, n, Q
      <3> QED  BY <1>0, <3>1, GroupStays
    <2>7. GopTooBig(P, n) \/ (num > 0 => Whole(P, new, new[1].id, n))
      BY DEF Holds
    <2>8. (n + 1) - 1 = n /\ new1[1].id = n + 1
      BY <1>0, <2>2
    <2> HIDE DEF P, Q, n, old, new, old1, new1
    <2>9. Holds(Q, num', old1, new1)
      BY <1>0, <1>b, <2>3, <2>4, <2>5, <2>6, <2>7, <2>8 DEF Holds
    <2> QED  BY <2>9 DEF Q, old1, new1, P
  <1>3. CASE p.kind = "inter"
    <2>0. /\ num' = num /\ nextindex' = nextindex /\ CurrentSlot' = CurrentSlot
          /\ num = 0 => gops' = gops
          /\ num > 0 => gops' = [gops EXCEPT ![CurrentSlot] = ArrayWrite(@, p)]
      BY <1>3, InterStep DEF CurrentSlot
    <2>1. CASE num = 0
      <3>1. NoKeyIn(P, 1, n)
        BY <2>1 DEF Holds
      <3>2. NoKeyIn(Q, 1, Len(Q))
        <4> HIDE DEF P, Q, n
        <4> QED  BY <1>0, <1>3, <3>1 DEF NoKeyIn
      <3>3. num' = 0
        BY <2>0, <2>1
      <3> HIDE DEF Q, old1, new1
      <3>4. Holds(Q, num', old1, new1)
        BY <3>2, <3>3 DEF Holds
      <3> QED  BY <3>4 DEF Q, old1, new1
    <2>2. CASE num > 0
      <3> DEFINE k == new[1].id
      <3>1. Group(P, new, k, n) /\ new \in Seq(Packets) /\ Len(new) > 0 /\ Len(new) \in Nat
        <4>1. Group(P, new, k, n)
          BY <1>g, <2>2
        <4>2. new \in Seq(Packets)
          BY <1>t
        <4> HIDE DEF new, P, k, n
        <4> QED  BY <4>1, <4>2, LenProperties DEF Group
      <3>2. new1 = ArrayWrite(new, p)
        BY <1>t, <2>0, <2>2
      <3>3. num' = 2 => old1 = old
        <4> SUFFICES ASSUME num' = 2 PROVE old1 = old
          OBVIOUS
        <4>1. nextindex # CurrentSlot
          BY <1>t, <2>0, RingIndex DEF OneOrTwo
        <4> QED  BY <1>t, <2>0, <2>2, <4>1
      <3>4. new1[1] = new[1]
        <4>1. Append(new, p)[1] = new[1]
          <5> HIDE DEF new
          <5> QED  BY <3>1, AppendProperties
        <4> HIDE DEF new, new1
        <4> QED  BY <3>2, <4>1 DEF ArrayWrite
      <3>5. Group(Q, new1, k, n + 1)
        <4>1. Group(Q, new, k, n + 1) /\ Group(Q, Append(new, p), k, n + 1)
          <5>1. Group(P, new, k, Len(P)) /\ p.kind # "key" /\ Numbered(P) /\ p.id = Len(P) + 1
            BY <1>0, <1>3, <3>1
          <5> HIDE DEF new, k, P
          <5> QED  BY <1>3, <5>1, GroupSkips, GroupGrows
        <4> HIDE DEF new, new1, Q, n, k
        <4> QED  BY <3>2, <4>1 DEF ArrayWrite
      <3>6. Whole(P, new, k, n) => GopTooBig(Q, n + 1) \/ Whole(Q, new1, k, n + 1)
        <4> SUFFICES ASSUME Whole(P, new, k, n)
                     PROVE  GopTooBig(Q, n + 1) \/ Whole(Q, new1, k, n + 1)
          OBVIOUS
        <4>0. /\ Group(P, new, k, Len(P)) /\ Whole(P, new, k, Len(P))
              /\ Numbered(P) /\ p.id = Len(P) + 1
          BY <1>0, <3>1
        <4>1. CASE Len(new) >= MaxGopCap
          <5>1. GopTooBig(Append(P, p), Len(P) + 1)
            <6> HIDE DEF new, k, P
            <6> QED  BY <1>3, <4>0, <4>1, GroupOverflows
          <5> QED  BY <5>1
        <4>2. CASE ~(Len(new) >= MaxGopCap)
          <5>1. Whole(Append(P, p), Append(new, p), k, Len(P) + 1)
            <6> HIDE DEF new, k, P
            <6> QED  BY <1>3, <4>0, GroupGrows
          <5>2. new1 = Append(new, p)
            <6> HIDE DEF new, new1
            <6> QED  BY <3>2, <4>2 DEF ArrayWrite
          <5> QED  BY <5>1, <5>2
        <4> QED  BY <4>1, <4>2
      <3>7. \/ GopTooBig(P, n)
            \/ /\ Whole(P, new, k, n)
               /\ num = 2 => Whole(P, old, old[1].id, k - 1)
        BY <2>2 DEF Holds
      <3>8. num' # 0 /\ num' = num /\ new1[1].id = k
        BY <2>0, <2>2, <3>4
      <3> HIDE DEF P, Q, n, old, old1, new1
      <3>9. Holds(Q, num', old1, new1)
        <4>1. num = 2 => Group(Q, old, old[1].id, k - 1)
          BY <1>s
        <4>2. \/ GopTooBig(Q, n + 1)
              \/ /\ Whole(Q, new1, k, n + 1)
                 /\ num = 2 => Whole(Q, old, old[1].id, k - 1)
          BY <1>b, <1>s, <3>6, <3>7
        <4> HIDE DEF k, new
        <4> QED  BY <1>0, <3>3, <3>5, <3>8, <4>1, <4>2 DEF Holds
      <3> QED  BY <3>9 DEF Q, old1, new1, P
    <2> QED  BY <1>t, <2>1, <2>2 DEF OneOrTwo
  <1> QED  BY <1>1, <1>2, <1>3

---------------------------------------------------------------------------
(* What a new player is sent                                               *)

LEMMA ConcatParts ==
    ASSUME NEW s \in Seq(Packets), NEW t \in Seq(Packets)
    PROVE  /\ s \o t \in Seq(Packets) /\ Len(s \o t) = Len(s) + Len(t)
           /\ Len(s) \in Nat /\ Len(t) \in Nat
           /\ \A i \in 1 .. Len(s) : (s \o t)[i] = s[i]
           /\ \A i \in 1 .. Len(t) : (s \o t)[Len(s) + i] = t[i]
           /\ \A j \in 1 .. Len(s) + Len(t) :
                  \/ j \in 1 .. Len(s) /\ (s \o t)[j] = s[j]
                  \/ j - Len(s) \in 1 .. Len(t) /\ (s \o t)[j] = t[j - Len(s)]
  <1> DEFINE u == s \o t
             a == Len(s)
             b == Len(t)
  <1>1. u \in Seq(Packets) /\ Len(u) = a + b /\ a \in Nat /\ b \in Nat
    BY ConcatProperties, LenProperties
  <1>2. \A j \in 1 .. a + b : u[j] = IF j <= a THEN s[j] ELSE t[j - a]
    BY ConcatProperties
  <1> HIDE DEF u, a, b
  <1>3. \A i \in 1 .. a : u[i] = s[i]
    BY <1>1, <1>2
  <1>4. \A i \in 1 .. b : u[a + i] = t[i]
    <2> TAKE i \in 1 .. b
    <2>1. a + i \in 1 .. a + b /\ ~(a + i <= a) /\ (a + i) - a = i
      BY <1>1
    <2>2. u[a + i] = t[(a + i) - a]
      BY <1>2, <2>1
    <2> QED  BY <2>1, <2>2
  <1>5. \A j \in 1 .. a + b : \/ j \in 1 .. a /\ u[j] = s[j]
                              \/ j - a \in 1 .. b /\ u[j] = t[j - a]
    <2> TAKE j \in 1 .. a + b
    <2>1. CASE j <= a
      BY <1>1, <1>2, <2>1
    <2>2. CASE ~(j <= a)
      <3>1. j - a \in 1 .. b
        BY <1>1, <2>2
      <3> QED  BY <1>2, <2>2, <3>1
    <2> QED  BY <2>1, <2>2
  <1> QED  BY <1>1, <1>3, <1>4, <1>5 DEF u, a, b

\* A group that is whole has the frames of its part of the stream.
LEMMA GroupFrames ==
    ASSUME NEW P, NEW g, NEW k, NEW n, Group(P, g, k, n), Whole(P, g, k, n)
    PROVE  SameFrames(g, P, k, n)
  <1>1. DOMAIN g = 1 .. Len(g)
    BY DEF Group
  <1> QED  BY <1>1 DEF Group, Whole, SameFrames

\* Two parts of the stream, one after the other.
LEMMA FramesJoin ==
    ASSUME NEW P, NEW s \in Seq(Packets), NEW t \in Seq(Packets),
           NEW n \in Nat, NEW m \in 1 .. n, NEW k \in 1 .. m,
           SameFrames(s, P, k, m - 1), SameFrames(t, P, m, n)
    PROVE  SameFrames(s \o t, P, k, n)
  <1> DEFINE u == s \o t
             a == Len(s)
             b == Len(t)
  <1>0. DOMAIN s = 1 .. a /\ DOMAIN t = 1 .. b
    OBVIOUS
  <1>1. /\ u \in Seq(Packets) /\ Len(u) = a + b /\ a \in Nat /\ b \in Nat
        /\ \A i \in 1 .. a : u[i] = s[i]
        /\ \A i \in 1 .. b : u[a + i] = t[i]
        /\ \A j \in 1 .. a + b : \/ j \in 1 .. a /\ u[j] = s[j]
                                 \/ j - a \in 1 .. b /\ u[j] = t[j - a]
    BY ConcatParts
  <1>2. DOMAIN u = 1 .. a + b
    BY <1>1
  <1> HIDE DEF u, a, b
  <1>3. \A j \in 1 .. a : IsFrame(s[j]) => s[j].id \in k .. m - 1 /\ s[j] = P[s[j].id]
    BY <1>0 DEF SameFrames
  <1>4. \A j \in 1 .. b : IsFrame(t[j]) => t[j].id \in m .. n /\ t[j] = P[t[j].id]
    BY <1>0 DEF SameFrames
  <1>5. \A j \in 1 .. a + b : IsFrame(u[j]) => u[j].id \in k .. n /\ u[j] = P[u[j].id]
    <2> SUFFICES ASSUME NEW j \in 1 .. a + b, IsFrame(u[j])
                 PROVE  u[j].id \in k .. n /\ u[j] = P[u[j].id]
      OBVIOUS
    <2>1. CASE j \in 1 .. a /\ u[j] = s[j]
      <3>1. s[j].id \in k .. m - 1 /\ s[j] = P[s[j].id]
        BY <1>3, <2>1
      <3> QED  BY <2>1, <3>1
    <2>2. CASE j - a \in 1 .. b /\ u[j] = t[j - a]
      <3>1. t[j - a].id \in m .. n /\ t[j - a] = P[t[j - a].id]
        BY <1>4, <2>2
      <3> QED  BY <2>2, <3>1
    <2> QED  BY <1>1, <2>1, <2>2
  <1>6. \A i, j \in 1 .. a + b : i < j /\ IsFrame(u[i]) /\ IsFrame(u[j]) => u[i].id < u[j].id
    <2> SUFFICES ASSUME NEW i \in 1 .. a + b, NEW j \in 1 .. a + b, i < j,
                        IsFrame(u[i]), IsFrame(u[j])
                 PROVE  u[i].id < u[j].id
      OBVIOUS
    <2>1. CASE j \in 1 .. a /\ u[j] = s[j]
      <3>1. i \in 1 .. a /\ u[i] = s[i]
        BY <1>1, <2>1
      <3>2. s[i].id < s[j].id
        BY <1>0, <2>1, <3>1 DEF SameFrames
      <3> QED  BY <2>1, <3>1, <3>2
    <2>2. CASE (j - a \in 1 .. b /\ u[j] = t[j - a]) /\ (i \in 1 .. a /\ u[i] = s[i])
      <3>1. u[i].id \in k .. m - 1
        BY <1>3, <2>2
      <3>2. u[j].id \in m .. n
        BY <1>4, <2>2
      <3> QED  BY <3>1, <3>2
    <2>3. CASE (j - a \in 1 .. b /\ u[j] = t[j - a]) /\ (i - a \in 1 .. b /\ u[i] = t[i - a])
      <3>1. i - a < j - a
        BY <1>1
      <3>2. t[i - a].id < t[j - a].id
        BY <1>0, <2>3, <3>1 DEF SameFrames
      <3> QED  BY <2>3, <3>2
    <2> QED  BY <1>1, <2>1, <2>2, <2>3
  <1>7. \A i \in k .. n : IsFrame(P[i]) => \E j \in 1 .. a + b : u[j] = P[i]
    <2> SUFFICES ASSUME NEW i \in k .. n, IsFrame(P[i])
                 PROVE  \E j \in 1 .. a + b : u[j] = P[i]
      OBVIOUS
    <2>1. CASE i <= m - 1
      <3>0. i \in k .. m - 1
        BY <2>1
      <3>1. PICK j \in 1 .. a : s[j] = P[i]
        BY <1>0, <3>0 DEF SameFrames
      <3>2. j \in 1 .. a + b /\ u[j] = P[i]
        BY <1>1, <3>1
      <3> QED  BY <3>2
    <2>2. CASE i >= m
      <3>0. i \in m .. n
        BY <2>2
      <3>1. PICK j \in 1 .. b : t[j] = P[i]
        BY <1>0, <3>0 DEF SameFrames
      <3>2. a + j \in 1 .. a + b /\ u[a + j] = P[i]
        BY <1>1, <3>1
      <3> QED  BY <3>2
    <2> QED  BY <2>1, <2>2
  <1>8. SameFrames(u, P, k, n)
    BY <1>2, <1>5, <1>6, <1>7 DEF SameFrames
  <1> QED  BY <1>8 DEF u

\* The headers in front of the frames.
LEMMA FramesAfterHeaders ==
    ASSUME NEW P, NEW s \in Seq(Packets), NEW t \in Seq(Packets),
           NEW n \in Nat, NEW k \in 1 .. n + 1,
           \A i \in 1 .. Len(s) : ~IsFrame(s[i]), SameFrames(t, P, k, n)
    PROVE  SameFrames(s \o t, P, k, n)
  <1> DEFINE u == s \o t
             a == Len(s)
             b == Len(t)
  <1>0. DOMAIN t = 1 .. b /\ \A i \in 1 .. a : ~IsFrame(s[i])
    OBVIOUS
  <1>1. /\ u \in Seq(Packets) /\ Len(u) = a + b /\ a \in Nat /\ b \in Nat
        /\ \A i \in 1 .. b : u[a + i] = t[i]
        /\ \A j \in 1 .. a + b : \/ j \in 1 .. a /\ u[j] = s[j]
                                 \/ j - a \in 1 .. b /\ u[j] = t[j - a]
    BY ConcatParts
  <1>2. DOMAIN u = 1 .. a + b
    BY <1>1
  <1> HIDE DEF u, a, b
  <1>3. \A j \in 1 .. a + b : IsFrame(u[j]) => j - a \in 1 .. b /\ u[j] = t[j - a]
    BY <1>0, <1>1
  <1>4. \A j \in 1 .. a + b : IsFrame(u[j]) => u[j].id \in k .. n /\ u[j] = P[u[j].id]
    <2> SUFFICES ASSUME NEW j \in 1 .. a + b, IsFrame(u[j])
                 PROVE  u[j].id \in k .. n /\ u[j] = P[u[j].id]
      OBVIOUS
    <2>1. j - a \in 1 .. b /\ u[j] = t[j - a]
      BY <1>3
    <2> QED  BY <1>0, <2>1 DEF SameFrames
  <1>5. \A i, j \in 1 .. a + b : i < j /\ IsFrame(u[i]) /\ IsFrame(u[j]) => u[i].id < u[j].id
    <2> SUFFICES ASSUME NEW i \in 1 .. a + b, NEW j \in 1 .. a + b, i < j,
                        IsFrame(u[i]), IsFrame(u[j])
                 PROVE  u[i].id < u[j].id
      OBVIOUS
    <2>1. j - a \in 1 .. b /\ u[j] = t[j - a] /\ i - a \in 1 .. b /\ u[i] = t[i - a]
      BY <1>3
    <2>2. i - a < j - a
      BY <1>1
    <2>3. t[i - a].id < t[j - a].id
      BY <1>0, <2>1, <2>2 DEF SameFrames
    <2> QED  BY <2>1, <2>3
  <1>6. \A i \in k .. n : IsFrame(P[i]) => \E j \in 1 .. a + b : u[j] = P[i]
    <2> SUFFICES ASSUME NEW i \in k .. n, IsFrame(P[i])
                 PROVE  \E j \in 1 .. a + b : u[j] = P[i]
      OBVIOUS
    <2>1. PICK j \in 1 .. b : t[j] = P[i]
      BY <1>0 DEF SameFrames
    <2>2. a + j \in 1 .. a + b /\ u[a + j] = P[i]
      BY <1>1, <2>1
    <2> QED  BY <2>2
  <1>7. SameFrames(u, P, k, n)
    BY <1>2, <1>4, <1>5, <1>6 DEF SameFrames
  <1> QED  BY <1>7 DEF u

\* The headers a new player is sent.
Headers == SpecialSend(meta) \o SpecialSend(vseq) \o SpecialSend(aseq)

LEMMA SpecialSendForm ==
    ASSUME NEW p \in Packets \cup {NoPacket}
    PROVE  /\ SpecialSend(p) \in Seq(Packets)
           /\ \A i \in 1 .. Len(SpecialSend(p)) : SpecialSend(p)[i] = p /\ p # NoPacket
           /\ p # NoPacket => 1 \in 1 .. Len(SpecialSend(p)) /\ SpecialSend(p)[1] = p
  <1>1. CASE p = NoPacket
    <2>1. SpecialSend(p) = <<>> /\ Len(<<>>) = 0
      BY <1>1 DEF SpecialSend
    <2>2. <<>> \in Seq(Packets) /\ \A i \in 1 .. 0 : FALSE
      OBVIOUS
    <2> QED  BY <1>1, <2>1, <2>2
  <1>2. CASE p # NoPacket
    <2>1. SpecialSend(p) = <<p>> /\ <<p>> \in Seq(Packets) /\ Len(<<p>>) = 1 /\ <<p>>[1] = p
      BY <1>2 DEF SpecialSend
    <2> QED  BY <1>2, <2>1
  <1> QED  BY <1>1, <1>2

LEMMA HeadersForm ==
    ASSUME TypeOK, SpecialInv
    PROVE  /\ Headers \in Seq(Packets)
           /\ \A i \in 1 .. Len(Headers) : ~IsFrame(Headers[i])
           /\ \A i \in 1 .. Len(Headers) : IsSeq(Headers[i]) => Headers[i] = vseq
           /\ vseq # NoPacket => \E i \in 1 .. Len(Headers) : IsSeq(Headers[i])
  <1> DEFINE a == SpecialSend(meta)
             b == SpecialSend(vseq)
             c == SpecialSend(aseq)
             ab == a \o b
             abc == ab \o c
  <1>0. /\ meta \in Packets \cup {NoPacket} /\ vseq \in Packets \cup {NoPacket}
        /\ aseq \in Packets \cup {NoPacket}
    BY DEF TypeOK
  <1>a. a \in Seq(Packets) /\ \A i \in 1 .. Len(a) : ~IsFrame(a[i]) /\ ~IsSeq(a[i])
    <2>1. a \in Seq(Packets) /\ \A i \in 1 .. Len(a) : a[i] = meta /\ meta # NoPacket
      BY <1>0, SpecialSendForm
    <2> HIDE DEF a
    <2> QED  BY <2>1 DEF SpecialInv, IsFrame, IsSeq
  <1>b. /\ b \in Seq(Packets) /\ \A i \in 1 .. Len(b) : ~IsFrame(b[i]) /\ b[i] = vseq
        /\ vseq # NoPacket => 1 \in 1 .. Len(b) /\ IsSeq(b[1])
    <2>1. /\ b \in Seq(Packets) /\ \A i \in 1 .. Len(b) : b[i] = vseq /\ vseq # NoPacket
          /\ vseq # NoPacket => 1 \in 1 .. Len(b) /\ b[1] = vseq
      BY <1>0, SpecialSendForm
    <2> HIDE DEF b
    <2> QED  BY <2>1 DEF SpecialInv, IsFrame, IsSeq
  <1>c. c \in Seq(Packets) /\ \A i \in 1 .. Len(c) : ~IsFrame(c[i]) /\ ~IsSeq(c[i])
    <2>1. c \in Seq(Packets) /\ \A i \in 1 .. Len(c) : c[i] = aseq /\ aseq # NoPacket
      BY <1>0, SpecialSendForm
    <2> HIDE DEF c
    <2> QED  BY <2>1 DEF SpecialInv, IsFrame, IsSeq
  <1> HIDE DEF a, b, c
  <1>1. /\ ab \in Seq(Packets) /\ Len(ab) = Len(a) + Len(b) /\ Len(a) \in Nat /\ Len(b) \in Nat
        /\ \A i \in 1 .. Len(b) : ab[Len(a) + i] = b[i]
        /\ \A j \in 1 .. Len(a) + Len(b) :
               \/ j \in 1 .. Len(a) /\ ab[j] = a[j]
               \/ j - Len(a) \in 1 .. Len(b) /\ ab[j] = b[j - Len(a)]
    BY <1>a, <1>b, ConcatParts
  <1> HIDE DEF ab
  <1>2. /\ \A i \in 1 .. Len(ab) : ~IsFrame(ab[i]) /\ (IsSeq(ab[i]) => ab[i] = vseq)
        /\ vseq # NoPacket => Len(a) + 1 \in 1 .. Len(ab) /\ IsSeq(ab[Len(a) + 1])
    <2>1. \A i \in 1 .. Len(ab) : ~IsFrame(ab[i]) /\ (IsSeq(ab[i]) => ab[i] = vseq)
      BY <1>1, <1>a, <1>b
    <2>2. vseq # NoPacket => 1 \in 1 .. Len(b) /\ Len(a) + 1 \in 1 .. Len(ab)
      BY <1>1, <1>b
    <2>3. vseq # NoPacket => ab[Len(a) + 1] = b[1]
      BY <1>1, <2>2
    <2> QED  BY <1>b, <2>1, <2>2, <2>3
  <1>3. /\ abc \in Seq(Packets) /\ Len(abc) = Len(ab) + Len(c) /\ Len(ab) \in Nat /\ Len(c) \in Nat
        /\ \A i \in 1 .. Len(ab) : abc[i] = ab[i]
        /\ \A j \in 1 .. Len(ab) + Len(c) :
               \/ j \in 1 .. Len(ab) /\ abc[j] = ab[j]
               \/ j - Len(ab) \in 1 .. Len(c) /\ abc[j] = c[j - Len(ab)]
    BY <1>1, <1>c, ConcatParts
  <1>4. Headers = abc
    BY DEF Headers, a, b, c, ab
  <1> HIDE DEF abc
  <1>5. \A i \in 1 .. Len(abc) : ~IsFrame(abc[i]) /\ (IsSeq(abc[i]) => abc[i] = vseq)
    BY <1>2, <1>3, <1>c
  <1>6. vseq # NoPacket => Len(a) + 1 \in 1 .. Len(abc) /\ IsSeq(abc[Len(a) + 1])
    BY <1>1, <1>2, <1>3
  <1> QED  BY <1>3, <1>4, <1>5, <1>6

\* The frames a new player is sent.
LEMMA FramesSent ==
    ASSUME OneOrTwo, Inv, Numbered(pub),
           Holds(pub, num, gops[nextindex], gops[CurrentSlot])
    PROVE  /\ FlattenSeq(SendOrder) \in Seq(Packets)
           /\ \A i \in 1 .. Len(FlattenSeq(SendOrder)) :
                  IsFrame(FlattenSeq(SendOrder)[i]) /\ FlattenSeq(SendOrder)[i].id \in 1 .. Len(pub)
           /\ GopTooBig(pub, Len(pub)) \/
                  \E k \in 1 .. Len(pub) + 1 :
                      /\ SameFrames(FlattenSeq(SendOrder), pub, k, Len(pub))
                      /\ (k <= Len(pub) /\ pub[k].kind = "key") \/ NoKeyIn(pub, 1, k - 1)
  <1> DEFINE P == pub
             n == Len(P)
             old == gops[nextindex]
             new == gops[CurrentSlot]
             body == FlattenSeq(SendOrder)
             Good(s) ==
                 /\ s \in Seq(Packets)
                 /\ \A i \in 1 .. Len(s) : IsFrame(s[i]) /\ s[i].id \in 1 .. n
                 /\ GopTooBig(P, n) \/
                        \E k \in 1 .. n + 1 :
                            /\ SameFrames(s, P, k, n)
                            /\ (k <= n /\ P[k].kind = "key") \/ NoKeyIn(P, 1, k - 1)
  <1>t. num \in {0, 1, 2} /\ n \in Nat
    BY LenProperties DEF Inv, TypeOK, OneOrTwo, Numbered
  <1>o. OrderIs(num, nextindex, gops, SendOrder) /\ Slot(nextindex) = CurrentSlot
    BY OrderForm DEF Slot, CurrentSlot
  <1>h. Holds(P, num, old, new)
    OBVIOUS
  <1>1. CASE num = 0
    <2>1. SendOrder = <<>>
      BY <1>1, <1>o DEF OrderIs
    <2>2. body = <<>>
      BY <2>1 DEF FlattenSeq
    <2>3. NoKeyIn(P, 1, n)
      BY <1>1 DEF Holds
    <2> HIDE DEF P, n, body
    <2>4. n + 1 \in 1 .. n + 1 /\ NoKeyIn(P, 1, (n + 1) - 1)
      <3>1. (n + 1) - 1 = n
        BY <1>t
      <3> QED  BY <1>t, <2>3, <3>1
    <2>5. SameFrames(<<>>, P, n + 1, n)
      <3>1. DOMAIN <<>> = {} /\ \A i \in n + 1 .. n : FALSE
        BY <1>t
      <3> QED  BY <3>1 DEF SameFrames
    <2>6. <<>> \in Seq(Packets) /\ \A i \in 1 .. Len(<<>>) : FALSE
      OBVIOUS
    <2>7. Good(<<>>)
      <3>1. \E k \in 1 .. n + 1 :
                /\ SameFrames(<<>>, P, k, n)
                /\ (k <= n /\ P[k].kind = "key") \/ NoKeyIn(P, 1, k - 1)
        <4>1. n + 1 \in 1 .. n + 1
          BY <2>4
        <4> WITNESS n + 1 \in 1 .. n + 1
        <4> QED  BY <2>4, <2>5, Zenon
      <3>2. \A i \in 1 .. Len(<<>>) : IsFrame(<<>>[i]) /\ <<>>[i].id \in 1 .. n
        BY <2>6, Zenon
      <3> QED  BY <2>6, <3>1, <3>2, Zenon
    <2>8. Good(body)
      <3> HIDE DEF Good
      <3> QED  BY <2>2, <2>7
    <2> QED  BY <2>8 DEF body, P, n
  <1>2. CASE num = 1
    <2>1. SendOrder = <<new>>
      BY <1>2, <1>o DEF OrderIs
    <2>2. body = new
      BY <2>1, FlattenOne
    <2> DEFINE k == new[1].id
    <2>3. Group(P, new, k, n) /\ (GopTooBig(P, n) \/ Whole(P, new, k, n))
      BY <1>2 DEF Holds
    <2> HIDE DEF P, n, body, new, k
    <2>4. k \in 1 .. n /\ P[k].kind = "key" /\ k \in 1 .. n + 1 /\ k <= n
      BY <1>t, <2>3 DEF Group
    <2>5. new \in Seq(Packets) /\ \A i \in 1 .. Len(new) : IsFrame(new[i]) /\ new[i].id \in 1 .. n
      <3>1. \A i \in 1 .. Len(new) : IsFrame(new[i]) /\ new[i].id \in k .. n
        BY <2>3 DEF Group
      <3> QED  BY <1>t, <2>3, <2>4, <3>1 DEF Group
    <2>6. GopTooBig(P, n) \/ SameFrames(new, P, k, n)
      BY <2>3, GroupFrames
    <2>7. Good(new)
      BY <2>4, <2>5, <2>6
    <2>8. Good(body)
      <3> HIDE DEF Good
      <3> QED  BY <2>2, <2>7
    <2> QED  BY <2>8 DEF body, P, n
  <1>3. CASE num = 2
    <2>1. SendOrder = <<old, new>>
      BY <1>3, <1>o DEF OrderIs
    <2>2. body = old \o new
      <3> HIDE DEF old, new
      <3> QED  BY <2>1, FlattenTwo
    <2> DEFINE k == old[1].id
               m == new[1].id
    <2>3. /\ Group(P, new, m, n) /\ Group(P, old, k, m - 1)
          /\ GopTooBig(P, n) \/ (Whole(P, new, m, n) /\ Whole(P, old, k, m - 1))
      BY <1>3 DEF Holds
    <2> HIDE DEF P, n, body, old, new, k, m
    <2>4. m \in 1 .. n /\ k \in 1 .. m - 1 /\ P[k].kind = "key" /\ k \in 1 .. n + 1 /\ k <= n
      <3>1. m \in 1 .. n /\ k \in 1 .. m - 1 /\ P[k].kind = "key"
        BY <2>3 DEF Group
      <3> QED  BY <1>t, <3>1
    <2>5. new \in Seq(Packets) /\ \A i \in 1 .. Len(new) : IsFrame(new[i]) /\ new[i].id \in 1 .. n
      <3>1. \A i \in 1 .. Len(new) : IsFrame(new[i]) /\ new[i].id \in m .. n
        BY <2>3 DEF Group
      <3> QED  BY <1>t, <2>3, <2>4, <3>1 DEF Group
    <2>6. old \in Seq(Packets) /\ \A i \in 1 .. Len(old) : IsFrame(old[i]) /\ old[i].id \in 1 .. n
      <3>1. \A i \in 1 .. Len(old) : IsFrame(old[i]) /\ old[i].id \in k .. m - 1
        BY <2>3 DEF Group
      <3> QED  BY <1>t, <2>3, <2>4, <3>1 DEF Group
    <2>7. GopTooBig(P, n) \/ SameFrames(old \o new, P, k, n)
      <3> SUFFICES ASSUME ~GopTooBig(P, n) PROVE SameFrames(old \o new, P, k, n)
        OBVIOUS
      <3>1. SameFrames(new, P, m, n) /\ SameFrames(old, P, k, m - 1)
        BY <2>3, GroupFrames
      <3>2. k \in 1 .. m
        BY <1>t, <2>4
      <3> QED  BY <1>t, <2>4, <2>5, <2>6, <3>1, <3>2, FramesJoin
    <2>8. /\ old \o new \in Seq(Packets)
          /\ \A i \in 1 .. Len(old \o new) :
                 IsFrame((old \o new)[i]) /\ (old \o new)[i].id \in 1 .. n
      <3> DEFINE u == old \o new
      <3>1. /\ u \in Seq(Packets) /\ Len(u) = Len(old) + Len(new)
            /\ \A j \in 1 .. Len(old) + Len(new) :
                  \/ j \in 1 .. Len(old) /\ u[j] = old[j]
                  \/ j - Len(old) \in 1 .. Len(new) /\ u[j] = new[j - Len(old)]
        BY <2>5, <2>6, ConcatParts
      <3> HIDE DEF u
      <3>2. \A j \in 1 .. Len(u) : IsFrame(u[j]) /\ u[j].id \in 1 .. n
        BY <2>5, <2>6, <3>1
      <3> QED  BY <3>1, <3>2 DEF u
    <2>9. Good(old \o new)
      BY <2>4, <2>7, <2>8
    <2>10. Good(body)
      <3> HIDE DEF Good
      <3> QED  BY <2>2, <2>9
    <2> QED  BY <2>10 DEF body, P, n
  <1> QED  BY <1>t, <1>1, <1>2, <1>3

\* A new player is up to date after the snapshot.
LEMMA SnapshotSent ==
    ASSUME OneOrTwo, CacheInv, Numbered(pub)
    PROVE  Snapshot \in Seq(Packets) /\ Sent(Snapshot, pub) /\ UpToDate(Snapshot, pub, Len(pub))
  <1> DEFINE P == pub
             n == Len(P)
             hd == Headers
             body == FlattenSeq(SendOrder)
             s == hd \o body
             a == Len(hd)
             b == Len(body)
  <1>0. n \in Nat /\ Numbered(P)
    BY LenProperties DEF Numbered
  <1>1. /\ hd \in Seq(Packets)
        /\ \A i \in 1 .. a : ~IsFrame(hd[i])
        /\ \A i \in 1 .. a : IsSeq(hd[i]) => hd[i] = vseq
        /\ vseq # NoPacket => \E i \in 1 .. a : IsSeq(hd[i])
    BY HeadersForm DEF CacheInv, Inv
  <1>2. /\ body \in Seq(Packets)
        /\ \A i \in 1 .. b : IsFrame(body[i]) /\ body[i].id \in 1 .. n
        /\ GopTooBig(P, n) \/
               \E k \in 1 .. n + 1 :
                   /\ SameFrames(body, P, k, n)
                   /\ (k <= n /\ P[k].kind = "key") \/ NoKeyIn(P, 1, k - 1)
    BY FramesSent DEF CacheInv
  <1>3. vseq.id = HeaderIn(P, n) /\ (vseq = NoPacket => vseq.id = 0)
    BY DEF CacheInv, SpecialInv, NoPacket
  <1>4. Snapshot = s
    BY DEF Snapshot, Headers
  <1> HIDE DEF P, n, hd, body
  <1>5. /\ s \in Seq(Packets) /\ Len(s) = a + b /\ a \in Nat /\ b \in Nat
        /\ \A i \in 1 .. a : s[i] = hd[i]
        /\ \A j \in 1 .. a + b : \/ j \in 1 .. a /\ s[j] = hd[j]
                                 \/ j - a \in 1 .. b /\ s[j] = body[j - a]
    BY <1>1, <1>2, ConcatParts
  <1> HIDE DEF s, a, b
  <1>6. \A j \in 1 .. a + b : /\ IsSeq(s[j]) => j \in 1 .. a /\ s[j] = vseq
                              /\ IsFrame(s[j]) => j >= a /\ s[j].id \in 1 .. n
    <2>1. \A q : ~(IsFrame(q) /\ IsSeq(q))
      BY DEF IsFrame, IsSeq
    <2> TAKE j \in 1 .. a + b
    <2>2. CASE j \in 1 .. a /\ s[j] = hd[j]
      BY <1>1, <2>2
    <2>3. CASE j - a \in 1 .. b /\ s[j] = body[j - a]
      <3>1. IsFrame(s[j]) /\ s[j].id \in 1 .. n /\ ~IsSeq(s[j])
        BY <1>2, <2>1, <2>3
      <3>2. j >= a
        BY <1>5, <2>3
      <3> QED  BY <3>1, <3>2
    <2> QED  BY <1>5, <2>2, <2>3
  <1>7. ASSUME NEW j \in a .. a + b PROVE HeaderIn(s, j) = HeaderIn(P, n)
    <2>1. j \in Nat /\ \A i \in 1 .. j : IsSeq(s[i]) => s[i] = vseq
      BY <1>5, <1>6, <1>7
    <2>2. vseq # NoPacket => \E i \in 1 .. j : IsSeq(s[i])
      <3> SUFFICES ASSUME vseq # NoPacket PROVE \E i \in 1 .. j : IsSeq(s[i])
        OBVIOUS
      <3>1. PICK i \in 1 .. a : IsSeq(hd[i])
        BY <1>1
      <3>2. i \in 1 .. j /\ IsSeq(s[i])
        BY <1>5, <1>7, <3>1
      <3> QED  BY <3>2
    <2>3. HeaderIn(s, j) = vseq.id
      BY <1>3, <2>1, <2>2, HeaderOnly
    <2> QED  BY <1>3, <2>3
  <1>8. Sent(s, P)
    <2> SUFFICES ASSUME NEW j \in 1 .. Len(s), IsFrame(s[j])
                 PROVE  s[j].id \in 1 .. Len(P) /\ HeaderIn(s, j) >= HeaderIn(P, s[j].id)
      BY DEF Sent
    <2>1. s[j].id \in 1 .. n /\ j \in a .. a + b
      BY <1>5, <1>6
    <2>2. HeaderIn(s, j) = HeaderIn(P, n)
      BY <1>7, <2>1
    <2>3. n \in 0 .. Len(P) /\ s[j].id \in 0 .. n
      BY <1>0, <2>1 DEF n
    <2>4. /\ HeaderIn(P, s[j].id) <= HeaderIn(P, n)
          /\ HeaderIn(P, s[j].id) \in Nat /\ HeaderIn(P, n) \in Nat
      BY <1>0, <2>3, HeaderMono
    <2> QED  BY <2>1, <2>2, <2>4 DEF n
  <1>9. UpToDate(s, P, n)
    <2>1. HeaderIn(s, Len(s)) = HeaderIn(P, n)
      <3>1. Len(s) \in a .. a + b
        BY <1>5
      <3> QED  BY <1>7, <3>1
    <2>2. ASSUME NEW k \in 1 .. n + 1, SameFrames(body, P, k, n)
          PROVE  SameFrames(s, P, k, n)
      BY <1>0, <1>1, <1>2, <2>2, FramesAfterHeaders DEF s, a
    <2> QED  BY <1>2, <2>1, <2>2 DEF UpToDate
  <1> QED  BY <1>4, <1>5, <1>8, <1>9 DEF P, n

\* A player that is up to date is sent the packet it has not seen.
LEMMA PacketSent ==
    ASSUME NEW P, Numbered(P), Len(P) > 0, NEW s \in Seq(Packets),
           Sent(s, P), UpToDate(s, P, Len(P) - 1)
    PROVE  /\ Append(s, P[Len(P)]) \in Seq(Packets)
           /\ Sent(Append(s, P[Len(P)]), P) /\ UpToDate(Append(s, P[Len(P)]), P, Len(P))
  <1> DEFINE p == P[Len(P)]
             t == Append(s, p)
             l == Len(s)
             n == Len(P) - 1
  <1>0. /\ n \in Nat /\ Len(P) = n + 1 /\ p \in Packets /\ p = P[n + 1] /\ p.id = n + 1
        /\ n + 1 \in 0 .. Len(P) /\ n + 1 \in 0 .. n + 1 /\ n + 1 \in Nat
    BY LenProperties, ElementOfSeq DEF Numbered
  <1>1. /\ t \in Seq(Packets) /\ Len(t) = l + 1 /\ l \in Nat
        /\ (\A i \in 1 .. l : t[i] = s[i]) /\ t[l + 1] = p
    BY <1>0, AppendParts
  <1>2. DOMAIN s = 1 .. l /\ DOMAIN t = 1 .. l + 1
    BY <1>1
  <1>u. UpToDate(s, P, n)
    OBVIOUS
  <1>3. HeaderIn(t, l + 1) = IF IsSeq(p) THEN p.id ELSE HeaderIn(s, l)
    BY <1>0, HeaderAppend
  <1> HIDE DEF p, t, n
  <1>4. HeaderIn(P, n + 1) = IF IsSeq(p) THEN p.id ELSE HeaderIn(P, n)
    BY <1>0, HeaderNext
  <1>5. HeaderIn(t, l + 1) = HeaderIn(P, n + 1)
    BY <1>3, <1>4, <1>u DEF UpToDate, l
  <1>6. HeaderIn(P, n + 1) \in Nat
    BY <1>0, HeaderMono
  <1>7. Sent(t, P)
    <2> SUFFICES ASSUME NEW j \in 1 .. l + 1, IsFrame(t[j])
                 PROVE  t[j].id \in 1 .. Len(P) /\ HeaderIn(t, j) >= HeaderIn(P, t[j].id)
      BY <1>1 DEF Sent
    <2>1. CASE j = l + 1
      BY <1>0, <1>1, <1>5, <1>6, <2>1
    <2>2. CASE j # l + 1
      <3>1. j \in 1 .. l /\ t[j] = s[j] /\ j \in Nat
        BY <1>1, <2>2
      <3>2. \A i \in 1 .. j : t[i] = s[i]
        BY <1>1, <3>1
      <3>3. HeaderIn(t, j) = HeaderIn(s, j)
        BY <3>1, <3>2, HeaderLocal
      <3> QED  BY <3>1, <3>3 DEF Sent, l
    <2> QED  BY <2>1, <2>2
  <1>8. GopTooBig(P, n) => GopTooBig(P, n + 1)
    <2>1. n <= n + 1
      BY <1>0
    <2> QED  BY <1>0, <2>1, TooBigStays
  <1>9. ASSUME NEW k \in 1 .. n + 1, SameFrames(s, P, k, n)
        PROVE  SameFrames(t, P, k, n + 1)
    <2>1. \A j \in 1 .. l + 1 : IsFrame(t[j]) => t[j].id \in k .. n + 1 /\ t[j] = P[t[j].id]
      <3> SUFFICES ASSUME NEW j \in 1 .. l + 1, IsFrame(t[j])
                   PROVE  t[j].id \in k .. n + 1 /\ t[j] = P[t[j].id]
        OBVIOUS
      <3>1. CASE j = l + 1
        BY <1>0, <1>1, <1>9, <3>1
      <3>2. CASE j # l + 1
        <4>1. j \in 1 .. l /\ t[j] = s[j]
          BY <1>1, <3>2
        <4>2. s[j].id \in k .. n /\ s[j] = P[s[j].id]
          BY <1>2, <1>9, <4>1 DEF SameFrames
        <4> QED  BY <1>0, <4>1, <4>2
      <3> QED  BY <3>1, <3>2
    <2>2. \A i, j \in 1 .. l + 1 : i < j /\ IsFrame(t[i]) /\ IsFrame(t[j]) => t[i].id < t[j].id
      <3> SUFFICES ASSUME NEW i \in 1 .. l + 1, NEW j \in 1 .. l + 1, i < j,
                          IsFrame(t[i]), IsFrame(t[j])
                   PROVE  t[i].id < t[j].id
        OBVIOUS
      <3>1. i \in 1 .. l /\ t[i] = s[i]
        BY <1>1
      <3>2. s[i].id \in k .. n
        BY <1>2, <1>9, <3>1 DEF SameFrames
      <3>3. CASE j = l + 1
        BY <1>0, <1>1, <3>1, <3>2, <3>3
      <3>4. CASE j # l + 1
        <4>1. j \in 1 .. l /\ t[j] = s[j]
          BY <1>1, <3>4
        <4> QED  BY <1>2, <1>9, <3>1, <4>1 DEF SameFrames
      <3> QED  BY <3>3, <3>4
    <2>3. \A i \in k .. n + 1 : IsFrame(P[i]) => \E j \in 1 .. l + 1 : t[j] = P[i]
      <3> SUFFICES ASSUME NEW i \in k .. n + 1, IsFrame(P[i])
                   PROVE  \E j \in 1 .. l + 1 : t[j] = P[i]
        OBVIOUS
      <3>1. CASE i = n + 1
        BY <1>0, <1>1, <3>1
      <3>2. CASE i # n + 1
        <4>1. i \in k .. n
          BY <1>0, <3>2
        <4>2. PICK j \in 1 .. l : s[j] = P[i]
          BY <1>2, <1>9, <4>1 DEF SameFrames
        <4>3. j \in 1 .. l + 1 /\ t[j] = P[i]
          BY <1>1, <4>2
        <4> QED  BY <4>3
      <3> QED  BY <3>1, <3>2
    <2> QED  BY <1>2, <2>1, <2>2, <2>3 DEF SameFrames
  <1>10. \/ GopTooBig(P, n + 1)
         \/ \E k \in 1 .. n + 1 + 1 :
               /\ SameFrames(t, P, k, n + 1)
               /\ (k <= n + 1 /\ P[k].kind = "key") \/ NoKeyIn(P, 1, k - 1)
    <2> SUFFICES ASSUME ~GopTooBig(P, n + 1)
                 PROVE  \E k \in 1 .. n + 1 + 1 :
                            /\ SameFrames(t, P, k, n + 1)
                            /\ (k <= n + 1 /\ P[k].kind = "key") \/ NoKeyIn(P, 1, k - 1)
      OBVIOUS
    <2>1. PICK k \in 1 .. n + 1 :
              /\ SameFrames(s, P, k, n)
              /\ (k <= n /\ P[k].kind = "key") \/ NoKeyIn(P, 1, k - 1)
      BY <1>8, <1>u DEF UpToDate
    <2>2. SameFrames(t, P, k, n + 1)
      BY <1>9, <2>1
    <2>3. k \in 1 .. n + 1 + 1 /\ ((k <= n + 1 /\ P[k].kind = "key") \/ NoKeyIn(P, 1, k - 1))
      BY <1>0, <2>1
    <2> QED  BY <2>2, <2>3
  <1>11. UpToDate(t, P, n + 1)
    BY <1>1, <1>5, <1>10 DEF UpToDate
  <1> QED  BY <1>0, <1>1, <1>7, <1>11 DEF t, p

\* What players have does not change when the publisher sends a packet.
LEMMA SentStays ==
    ASSUME NEW P, Numbered(P), NEW p \in Packets, p.id = Len(P) + 1, NEW s
    PROVE  /\ Sent(s, P) => Sent(s, Append(P, p))
           /\ UpToDate(s, P, Len(P)) => UpToDate(s, Append(P, p), Len(P))
  <1> DEFINE Q == Append(P, p)
             n == Len(P)
  <1>0. n \in Nat /\ Len(Q) = n + 1 /\ \A i \in 1 .. n : Q[i] = P[i]
    BY NextPacket
  <1> HIDE DEF Q
  <1>1. \A m \in 0 .. n : HeaderIn(Q, m) = HeaderIn(P, m)
    <2> TAKE m \in 0 .. n
    <2>1. m \in Nat /\ \A i \in 1 .. m : Q[i] = P[i]
      BY <1>0
    <2> QED  BY <2>1, HeaderLocal
  <1>2. ASSUME Sent(s, P) PROVE Sent(s, Q)
    <2> SUFFICES ASSUME NEW j \in 1 .. Len(s), IsFrame(s[j])
                 PROVE  s[j].id \in 1 .. Len(Q) /\ HeaderIn(s, j) >= HeaderIn(Q, s[j].id)
      BY DEF Sent
    <2>1. s[j].id \in 1 .. n /\ HeaderIn(s, j) >= HeaderIn(P, s[j].id)
      BY <1>2 DEF Sent
    <2>2. s[j].id \in 0 .. n /\ s[j].id \in 1 .. n + 1
      BY <1>0, <2>1
    <2> QED  BY <1>0, <1>1, <2>1, <2>2
  <1>3. ASSUME UpToDate(s, P, n) PROVE UpToDate(s, Q, n)
    <2>1. HeaderIn(s, Len(s)) = HeaderIn(Q, n)
      <3>1. n \in 0 .. n
        BY <1>0
      <3> QED  BY <1>1, <1>3, <3>1 DEF UpToDate
    <2>2. GopTooBig(P, n) => GopTooBig(Q, n)
      BY <1>0, TooBigStays
    <2>3. ASSUME NEW k \in 1 .. n + 1, SameFrames(s, P, k, n),
                 (k <= n /\ P[k].kind = "key") \/ NoKeyIn(P, 1, k - 1)
          PROVE  SameFrames(s, Q, k, n) /\ ((k <= n /\ Q[k].kind = "key") \/ NoKeyIn(Q, 1, k - 1))
      <3>1. \A i \in k .. n : Q[i] = P[i]
        BY <1>0
      <3>2. SameFrames(s, Q, k, n)
        BY <2>3, <3>1 DEF SameFrames
      <3>3. k <= n => Q[k] = P[k]
        BY <1>0
      <3>4. \A i \in 1 .. k - 1 : Q[i] = P[i]
        BY <1>0
      <3> QED  BY <2>3, <3>2, <3>3, <3>4 DEF NoKeyIn
    <2> QED  BY <1>3, <2>1, <2>2, <2>3 DEF UpToDate
  <1> QED  BY <1>2, <1>3 DEF Q

---------------------------------------------------------------------------
(* The loop                                                                *)

LEMMA FanInvInit ==
    ASSUME OneOrTwo, FanInit
    PROVE  FanInv
  <1>1. Inv
    BY InvInit DEF FanInit
  <1>2. pub = <<>> /\ Len(<<>>) = 0 /\ <<>> \in Seq(Packets)
    BY DEF FanInit
  <1>3. FanType
    BY <1>2 DEF FanInit, FanType, Numbered
  <1>4. HeaderIn(pub, Len(pub)) = 0
    <2>1. HeaderIn(<<>>, 0) = 0
      BY HeaderForm
    <2> QED  BY <1>2, <2>1
  <1>5. SpecialInv
    BY <1>4 DEF FanInit, Init, SpecialInv, NoPacket
  <1>6. Holds(pub, num, gops[nextindex], gops[CurrentSlot])
    <2>1. num = 0 /\ NoKeyIn(<<>>, 1, 0)
      BY DEF FanInit, Init, NoKeyIn
    <2> QED  BY <1>2, <2>1 DEF Holds
  <1>7. \A w \in Players : PlayerInv(w)
    <2>1. \A w \in Players : got[w] = <<>> /\ w \notin ws
      BY DEF FanInit
    <2>2. Sent(<<>>, pub)
      BY DEF Sent
    <2> QED  BY <2>1, <2>2 DEF PlayerInv
  <1> QED  BY <1>1, <1>3, <1>5, <1>6, <1>7 DEF FanInv, CacheInv

\* The packet is cached: the headers and the groups are those of pub.
LEMMA CacheStep ==
    ASSUME OneOrTwo, FanType, CacheInv, NEW p \in Packets, p.id = Len(pub) + 1,
           Write(p), pub' = Append(pub, p)
    PROVE  CacheInv'
  <1>0. Inv /\ SpecialInv /\ Holds(pub, num, gops[nextindex], gops[CurrentSlot]) /\ Numbered(pub)
    BY DEF CacheInv, FanType
  <1>1. Inv'
    <2>1. [Next]_cacheVars
      BY DEF Next
    <2> QED  BY <1>0, <2>1, InvStep
  <1>k. p.kind \in Kinds /\ p # NoPacket
    BY CacheAssumption DEF NoPacket, Kinds
  <1>2. Holds(Append(pub, p), num', (gops')[nextindex'], (gops')[CurrentSlot'])
    <2>1. \/ p.kind \in {"key", "inter"} /\ GopWrite(p)
          \/ p.kind \notin {"key", "inter"} /\ UNCHANGED gopVars
      BY DEF Write, WriteMeta, WriteAudio, WriteVideo
    <2> QED  BY <1>0, <2>1, HoldsStep
  <1>3. Holds(pub, num, gops[nextindex], gops[CurrentSlot])'
    BY <1>2
  <1>4. HeaderIn(Append(pub, p), Len(Append(pub, p))) =
            IF IsSeq(p) THEN p.id ELSE HeaderIn(pub, Len(pub))
    <2>1. pub \in Seq(Packets)
      BY <1>0 DEF Numbered
    <2>2. Len(Append(pub, p)) = Len(pub) + 1
      BY <2>1, AppendParts
    <2> QED  BY <2>1, <2>2, HeaderAppend
  <1>5. vseq' = IF IsSeq(p) THEN p ELSE vseq
    BY DEF Write, WriteMeta, WriteAudio, WriteVideo, specialVars, IsSeq
  <1>6. vseq'.id = HeaderIn(pub', Len(pub'))
    BY <1>0, <1>4, <1>5 DEF SpecialInv
  <1>7. /\ meta' = NoPacket \/ meta'.kind = "meta"
        /\ aseq' = NoPacket \/ aseq'.kind = "aacseq"
        /\ vseq' = NoPacket \/ vseq'.kind = "seq"
    BY <1>0 DEF Write, WriteMeta, WriteAudio, WriteVideo, specialVars, SpecialInv
  <1>8. SpecialInv'
    BY <1>6, <1>7 DEF SpecialInv
  <1> QED  BY <1>1, <1>3, <1>8 DEF CacheInv

LEMMA ReadStep ==
    ASSUME OneOrTwo, FanInv, NEW p \in Packets, ReadPacket(p)
    PROVE  FanInv'
  <1>0. /\ todo = {} /\ p.id = Len(pub) + 1 /\ Write(p) /\ pub' = Append(pub, p) /\ todo' = ws
        /\ ws' = ws /\ init' = init /\ got' = got
    BY DEF ReadPacket
  <1>1. CacheInv'
    BY <1>0, CacheStep DEF FanInv
  <1>2. Numbered(pub) /\ Numbered(pub') /\ Len(pub') = Len(pub) + 1 /\ Len(pub) \in Nat
    BY <1>0, NextPacket DEF FanInv, FanType
  <1>3. FanType'
    BY <1>0, <1>2 DEF FanInv, FanType
  <1>4. ASSUME NEW w \in Players PROVE PlayerInv(w)'
    <2>1. /\ Sent(got[w], pub)
          /\ w \in ws /\ ~init[w] => got[w] = <<>>
          /\ w \in ws /\ init[w] => UpToDate(got[w], pub, Offered(w))
      BY DEF FanInv, PlayerInv
    <2>2. Offered(w) = Len(pub)
      BY <1>0 DEF Offered
    <2>3. w \in ws => Offered(w)' = Len(pub)
      BY <1>0, <1>2 DEF Offered
    <2>4. Sent(got[w], pub')
      BY <1>0, <1>2, <2>1, SentStays
    <2>5. w \in ws /\ init[w] => UpToDate(got[w], pub', Len(pub))
      BY <1>0, <1>2, <2>1, <2>2, SentStays
    <2>6. w \in ws' /\ init'[w] => UpToDate(got'[w], pub', Offered(w)')
      BY <1>0, <2>3, <2>5
    <2> QED  BY <1>0, <2>1, <2>4, <2>6 DEF PlayerInv
  <1> QED  BY <1>1, <1>3, <1>4 DEF FanInv

\* The invariant of the cache, the headers and the groups while pub stays.
LEMMA CacheSame ==
    ASSUME CacheInv, UNCHANGED <<cacheVars, pub>>
    PROVE  CacheInv'
  <1>0. UNCHANGED <<meta, vseq, aseq, start, num, nextindex, gops, panicked, pub>>
    BY DEF cacheVars, specialVars, gopVars
  <1>1. CurrentSlot' = CurrentSlot
    BY <1>0 DEF CurrentSlot
  <1>2. Inv'
    BY <1>0, <1>1 DEF CacheInv, Inv, TypeOK, RingInv
  <1>3. SpecialInv'
    BY <1>0 DEF CacheInv, SpecialInv
  <1>4. Holds(pub, num, gops[nextindex], gops[CurrentSlot])'
    BY <1>0, <1>1 DEF CacheInv
  <1> QED  BY <1>2, <1>3, <1>4 DEF CacheInv

LEMMA VisitStep ==
    ASSUME OneOrTwo, FanInv, NEW w \in Players, Visit(w)
    PROVE  FanInv'
  <1>0. /\ w \in todo /\ todo' = todo \ {w} /\ UNCHANGED <<cacheVars, pub>> /\ ws' = ws
        /\ pub' = pub
    BY DEF Visit
  <1>1. CacheInv'
    BY <1>0, CacheSame DEF FanInv
  <1>t. /\ Numbered(pub) /\ Len(pub) > 0 /\ w \in ws /\ got[w] \in Seq(Packets)
        /\ init \in [Players -> BOOLEAN] /\ got \in [Players -> Seq(Packets)] /\ CacheInv
    BY <1>0 DEF FanInv, FanType
  <1>p. /\ Sent(got[w], pub)
        /\ ~init[w] => got[w] = <<>>
        /\ init[w] => UpToDate(got[w], pub, Len(pub) - 1)
    BY <1>0, <1>t DEF FanInv, PlayerInv, Offered
  <1> DEFINE s == IF init[w] THEN Append(got[w], Last(pub)) ELSE got[w] \o Snapshot
  <1>2. got' = [got EXCEPT ![w] = s] /\ init' = [init EXCEPT ![w] = TRUE]
    <2>1. CASE init[w]
      <3>1. [init EXCEPT ![w] = TRUE] = init
        BY <1>t, <2>1
      <3> QED  BY <2>1, <3>1 DEF Visit
    <2>2. CASE ~init[w]
      BY <2>2 DEF Visit, FirstTime
    <2> QED  BY <2>1, <2>2
  <1>3. s \in Seq(Packets) /\ Sent(s, pub) /\ UpToDate(s, pub, Len(pub))
    <2>1. CASE init[w]
      BY <1>t, <1>p, <2>1, PacketSent DEF Last
    <2>2. CASE ~init[w]
      <3>1. Snapshot \in Seq(Packets) /\ Sent(Snapshot, pub) /\ UpToDate(Snapshot, pub, Len(pub))
        BY <1>t, SnapshotSent
      <3>2. <<>> \o Snapshot = Snapshot
        BY <3>1
      <3> QED  BY <1>p, <2>2, <3>1, <3>2
    <2> QED  BY <2>1, <2>2
  <1> HIDE DEF s
  <1>4. FanType'
    BY <1>0, <1>t, <1>2, <1>3 DEF FanInv, FanType
  <1>5. ASSUME NEW v \in Players PROVE PlayerInv(v)'
    <2>1. CASE v = w
      <3>1. got'[w] = s /\ init'[w] = TRUE /\ Offered(w)' = Len(pub)
        BY <1>0, <1>t, <1>2 DEF Offered
      <3> QED  BY <1>0, <1>3, <2>1, <3>1 DEF PlayerInv
    <2>2. CASE v # w
      <3>1. got'[v] = got[v] /\ init'[v] = init[v] /\ Offered(v)' = Offered(v)
        BY <1>0, <1>t, <1>2, <2>2 DEF Offered
      <3> QED  BY <1>0, <3>1 DEF FanInv, PlayerInv
    <2> QED  BY <2>1, <2>2
  <1> QED  BY <1>1, <1>4, <1>5 DEF FanInv

LEMMA JoinStep ==
    ASSUME FanInv, NEW w \in Players, Join(w)
    PROVE  FanInv'
  <1>0. /\ w \notin ws /\ got[w] = <<>> /\ ws' = ws \cup {w} /\ UNCHANGED <<cacheVars, pub>>
        /\ init' = [init EXCEPT ![w] = FALSE] /\ got' = got /\ pub' = pub
        /\ todo' = todo \/ (todo # {} /\ todo' = todo \cup {w})
    BY DEF Join
  <1>1. CacheInv'
    BY <1>0, CacheSame DEF FanInv
  <1>2. FanType'
    BY <1>0 DEF FanInv, FanType
  <1>3. ASSUME NEW v \in Players PROVE PlayerInv(v)'
    <2>1. CASE v = w
      BY <1>0, <2>1 DEF FanInv, FanType, PlayerInv
    <2>2. CASE v # w
      <3>1. init'[v] = init[v] /\ Offered(v)' = Offered(v) /\ (v \in ws' <=> v \in ws)
        BY <1>0, <2>2 DEF FanInv, FanType, Offered
      <3> QED  BY <1>0, <3>1 DEF FanInv, PlayerInv
    <2> QED  BY <2>1, <2>2
  <1> QED  BY <1>1, <1>2, <1>3 DEF FanInv

\* A writer is removed, by itself, by the loop or because of an error.
LEMMA LeaveStep ==
    ASSUME FanInv, NEW w \in Players, Leave(w) \/ VisitFails(w)
    PROVE  FanInv'
  <1>0. /\ ws' = ws \ {w} /\ todo' = todo \ {w} /\ UNCHANGED <<cacheVars, pub>>
        /\ init' = init /\ got' = got /\ pub' = pub
    BY DEF Leave, VisitFails
  <1>1. CacheInv'
    BY <1>0, CacheSame DEF FanInv
  <1>2. FanType'
    BY <1>0 DEF FanInv, FanType
  <1>3. ASSUME NEW v \in Players PROVE PlayerInv(v)'
    <2>1. CASE v = w
      BY <1>0, <2>1 DEF FanInv, PlayerInv
    <2>2. CASE v # w
      <3>1. Offered(v)' = Offered(v) /\ (v \in ws' <=> v \in ws)
        BY <1>0, <2>2 DEF Offered
      <3> QED  BY <1>0, <3>1 DEF FanInv, PlayerInv
    <2> QED  BY <2>1, <2>2
  <1> QED  BY <1>1, <1>2, <1>3 DEF FanInv

LEMMA FanStep ==
    ASSUME OneOrTwo, FanInv, [FanNext]_<<cacheVars, fanVars>>
    PROVE  FanInv'
  <1>1. CASE UNCHANGED <<cacheVars, fanVars>>
    <2>0. UNCHANGED <<cacheVars, pub>> /\ UNCHANGED <<pub, ws, init, todo, got>>
      BY <1>1 DEF fanVars
    <2>1. CacheInv'
      BY <2>0, CacheSame DEF FanInv
    <2>2. FanType' /\ \A w \in Players : PlayerInv(w)'
      BY <2>0 DEF FanInv, FanType, PlayerInv, Offered
    <2> QED  BY <2>1, <2>2 DEF FanInv
  <1>2. ASSUME NEW p \in Packets, ReadPacket(p) PROVE FanInv'
    BY <1>2, ReadStep
  <1>3. ASSUME NEW w \in Players, Join(w) \/ Leave(w) \/ Visit(w) \/ VisitFails(w)
        PROVE  FanInv'
    BY <1>3, JoinStep, LeaveStep, VisitStep
  <1> QED  BY <1>1, <1>2, <1>3 DEF FanNext

\* The cache inside the loop is the cache of the specification above.
LEMMA LoopUsesCache == FanSpec => Spec
  <1>1. FanInit => Init
    BY DEF FanInit
  <1>2. [FanNext]_<<cacheVars, fanVars>> => [Next]_cacheVars
    <2>1. ASSUME NEW p \in Packets, ReadPacket(p) PROVE Next
      BY <2>1 DEF ReadPacket, Next
    <2>2. ASSUME NEW w \in Players, Join(w) \/ Leave(w) \/ Visit(w) \/ VisitFails(w)
          PROVE  UNCHANGED cacheVars
      BY <2>2 DEF Join, Leave, Visit, VisitFails
    <2> QED  BY <2>1, <2>2 DEF FanNext
  <1> QED  BY <1>1, <1>2, PTL DEF FanSpec, Spec

\* In the loop the cache does not panic and keeps its promise either.
THEOREM LoopKeepsPromise ==
    ASSUME OneOrTwo
    PROVE  FanSpec => []NoPanic /\ CacheRefines
  BY LoopUsesCache, NoPanicUpToTwo, CacheImplements

LEMMA FanInvHolds ==
    ASSUME OneOrTwo
    PROVE  FanSpec => []FanInv
  BY FanInvInit, FanStep, PTL DEF FanSpec

\* However players join, leave and fail in the middle of TransStart's loop,
\* everyone who stays sees the publisher's video from a key frame on with
\* no frame missing, repeated or out of order, as long as the groups of
\* pictures fit into the cache.
THEOREM WholeGopsUpToTwo ==
    ASSUME OneOrTwo
    PROVE  FanSpec => []PlayersSeeWholeGops
  <1>1. FanInv => PlayersSeeWholeGops
    <2> SUFFICES ASSUME FanInv, NEW w \in ws, init[w], ~GopTooBig(pub, Offered(w))
                 PROVE  \E k \in 1 .. Offered(w) + 1 :
                            /\ SameFrames(got[w], pub, k, Offered(w))
                            /\ \/ k <= Offered(w) /\ pub[k].kind = "key"
                               \/ \A j \in 1 .. k - 1 : pub[j].kind # "key"
      BY DEF PlayersSeeWholeGops
    <2>1. w \in Players /\ PlayerInv(w)
      BY DEF FanInv, FanType
    <2>2. UpToDate(got[w], pub, Offered(w))
      BY <2>1 DEF PlayerInv
    <2> QED  BY <2>2 DEF UpToDate, NoKeyIn
  <1> QED  BY <1>1, FanInvHolds, PTL

\* No player, old or new, ever decodes a frame with a sequence header older
\* than the one in force when the publisher sent the frame.
THEOREM FreshHeadersUpToTwo ==
    ASSUME OneOrTwo
    PROVE  FanSpec => []NeverStaleHeader
  <1>1. FanInv => NeverStaleHeader
    <2> SUFFICES ASSUME FanInv, NEW w \in Players, NEW j \in DOMAIN got[w], IsFrame(got[w][j])
                 PROVE  HeaderIn(got[w], j) >= HeaderIn(pub, got[w][j].id)
      BY DEF NeverStaleHeader
    <2>1. got[w] \in Seq(Packets) /\ Sent(got[w], pub)
      BY DEF FanInv, FanType, PlayerInv
    <2>2. j \in 1 .. Len(got[w])
      BY <2>1
    <2> QED  BY <2>1, <2>2 DEF Sent
  <1> QED  BY <1>1, FanInvHolds, PTL
=============================================================================
