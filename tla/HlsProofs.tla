----------------------------- MODULE HlsProofs -----------------------------
(***************************************************************************)
(* What HLS guarantees to players for any number of publishers, whatever   *)
(* they send, and for any size of the segment cache.  The first part is    *)
(* about the playlist and the segments it names: SetItem keeps a list and  *)
(* a map of segments while requests read both without a lock, and the      *)
(* argument needs nothing about packets.  The second part is about what    *)
(* the segments hold, and follows the packets from the publisher through   *)
(* the queue, btswriter and the audio cache into them.                     *)
(***************************************************************************)
EXTENDS Hls, TLAPS, SequenceTheorems

Fields == {"closed", "chan", "alloc", "queue", "pc", "cur", "conf", "open", "bts", "audio",
           "hasFirst", "first", "last", "seq", "item", "ll", "lm"}

ReqFields == {"pc", "s", "e", "out", "had", "raced"}

IsSeq(q) == Len(q) \in Nat /\ DOMAIN q = 1 .. Len(q)

\* The records the model keeps are records.
Shape ==
    /\ IsSeq(src) /\ IsSeq(segs) /\ Len(segs) = Len(src)
    /\ \A s \in DOMAIN src : DOMAIN src[s] = Fields /\ IsSeq(segs[s])
    /\ conns \in DOMAIN src \cup {None}
    /\ DOMAIN req = ReqFields /\ IsSeq(req.out)
    /\ clk \in Int

---------------------------------------------------------------------------
(* The segments of a Source.  g is what it has cut, r its state.           *)

\* Segments are numbered; one that is being stored has its number already.
Counted(r, g) ==
    /\ r.pc \in {"top", "recv", "work", "evict", "store", "ended"}
    /\ r.seq \in {Len(g), Len(g) + 1}
    /\ r.pc \in {"top", "recv", "work"} => r.seq = Len(g)
    /\ r.pc \in {"evict", "store"} =>
        r.seq = Len(g) + 1 /\ r.item.seq = r.seq /\ r.item.name \in Int
    /\ \A j \in 1 .. Len(g) : g[j].seq = j

\* The number of segments that are no longer listed.
Gone(r, g) == Len(g) - Len(r.ll)

\* The list holds the last segments, and nothing goes from it early.
Listed(r, g) ==
    /\ r.ll \in Seq(Int \X Int)
    /\ Len(r.ll) <= CacheNum /\ Len(r.ll) <= Len(g)
    /\ r.pc = "store" => Len(r.ll) < CacheNum
    /\ Gone(r, g) > 0 => r.seq >= Gone(r, g) + CacheNum
    /\ \A i \in 1 .. Len(r.ll) : r.ll[i] = <<g[Gone(r, g) + i].name, Gone(r, g) + i>>

\* While no two segments have one name the map holds what the list names.
Mapped(r, g) ==
    /\ \A i, j \in 1 .. Len(g) : g[i].name = g[j].name => i = j
    /\ r.lm = {g[j] : j \in Gone(r, g) + 1 .. Len(g)}

\* The pointers are nil only after cleanup.
Allocated(r) == ~r.alloc => ~keep /\ ~r.chan

Shelf ==
    \A s \in DOMAIN src :
        /\ Counted(src[s], segs[s]) /\ Listed(src[s], segs[s]) /\ Allocated(src[s])
        /\ ~dup => Mapped(src[s], segs[s])

---------------------------------------------------------------------------
(* The request.                                                            *)

\* What has been put into the playlist are consecutive segments, and the
\* element the walk is at follows them.
Walked(g) ==
    /\ \A i \in 1 .. Len(req.out) :
        /\ req.out[i].seq \in 1 .. Len(g) /\ req.out[i] = g[req.out[i].seq]
        /\ req.out[i].seq = req.out[1].seq + i - 1
    /\ req.pc = "walk" /\ Len(req.out) > 0 => req.e = req.out[Len(req.out)].seq + 1

Reading ==
    /\ req.pc \in {"idle", "walk", "done", "served", "nokey", "panic"}
    /\ req.pc # "idle" => req.s \in DOMAIN src
    /\ req.pc = "walk" => req.e \in 1 .. Len(segs[req.s])
    /\ req.pc \in {"walk", "done"} /\ ~dup => Walked(segs[req.s])
    /\ req.pc = "done" /\ ~dup /\ req.had /\ ~req.raced => Len(req.out) > 0
    /\ req.pc = "nokey" /\ ~dup => req.e \in Int /\ src[req.s].seq >= req.e + CacheNum
    /\ req.pc = "panic" => ~keep /\ ~src[req.s].chan

HlsInv == Shape /\ Shelf /\ Reading
---------------------------------------------------------------------------
(* Steps that leave the shelves alone.                                     *)

\* The rest of a Source may change, and SendPacket may end.
Kept(r, q) ==
    /\ DOMAIN q = Fields /\ q.seq = r.seq /\ q.ll = r.ll /\ q.lm = r.lm /\ q.item = r.item
    /\ \/ q.pc = r.pc
       \/ q.pc = "ended"
       \/ r.pc \in {"top", "recv", "work"} /\ q.pc \in {"top", "recv", "work"}
    /\ \/ q.alloc = r.alloc /\ q.chan = r.chan
       \/ ~q.alloc /\ ~q.chan /\ ~keep
    /\ ~r.chan => ~q.chan

LEMMA KeptSame == ASSUME NEW r, DOMAIN r = Fields PROVE Kept(r, r)
  BY DEF Kept

\* What SendPacket does to its state when no segment is complete.
LEMMA EndKept ==
    ASSUME NEW r, DOMAIN r = Fields
    PROVE  /\ Kept(r, Panics(r)) /\ Kept(r, Failed(r))
           /\ r.pc = "work" => Kept(r, Again(r))
<1>1. Kept(r, Panics(r))
  BY DEF Kept, Panics, Fields
<1>2. Kept(r, Failed(r))
  BY DEF Kept, Failed, Fields
<1>3. r.pc = "work" => Kept(r, Again(r))
  BY DEF Kept, Again, Fields
<1> QED  BY <1>1, <1>2, <1>3

Muxed(r, q) ==
    /\ DOMAIN q = Fields /\ q.pc = "top"
    /\ q.seq = r.seq /\ q.ll = r.ll /\ q.lm = r.lm /\ q.alloc = r.alloc /\ q.chan = r.chan /\ q.item = r.item

LEMMA MuxIs ==
    ASSUME NEW r, DOMAIN r = Fields
    PROVE  Muxed(r, Mux(r))
<1> DEFINE f == r.cur
           u == [r EXCEPT !.hasFirst = TRUE, !.first = IF r.hasFirst THEN @ ELSE f.ms, !.last = f.ms]
           a == [u EXCEPT !.audio = Append(@, f)]
           b == [u EXCEPT !.bts = Append(@, f)]
           Like(q) == /\ DOMAIN q = Fields /\ q.seq = r.seq /\ q.ll = r.ll /\ q.lm = r.lm
                      /\ q.alloc = r.alloc /\ q.chan = r.chan /\ q.item = r.item
<1>1. Like(u)
  BY DEF Fields
<1>2. Like(a) /\ Like(b)
  <2> HIDE DEF u
  <2> QED  BY <1>1 DEF Fields
<1>3. Like(FlushAudio(a))
  <2> HIDE DEF a
  <2> QED  BY <1>2 DEF FlushAudio, Fields
<1>4. ASSUME NEW q, Like(q) PROVE Muxed(r, Again(q))
  BY <1>4 DEF Again, Muxed, Fields
<1>5. Mux(r) \in {Again(r), Again(b), Again(FlushAudio(a)), Again(a)}
  BY DEF Mux
<1> HIDE DEF a, b, u
<1> QED  BY <1>2, <1>3, <1>4, <1>5

\* A step that keeps every Source, and what has been cut, keeps the shelves.
Frame1 ==
    /\ IsSeq(src') /\ Len(src') = Len(src) /\ \A s \in DOMAIN src : Kept(src[s], src'[s])
    /\ UNCHANGED <<keep, segs, dup>>

LEMMA ShelfKept ==
    ASSUME Shape, Shelf, Frame1
    PROVE  Shelf'
<1>1. DOMAIN src' = DOMAIN src
  BY DEF Shape, Frame1, IsSeq
<1>2. ASSUME NEW s \in DOMAIN src
      PROVE  /\ Counted(src'[s], segs[s]) /\ Listed(src'[s], segs[s])
             /\ Mapped(src[s], segs[s]) => Mapped(src'[s], segs[s])
             /\ Allocated(src[s])'
  <2>1. /\ Kept(src[s], src'[s]) /\ Counted(src[s], segs[s]) /\ Listed(src[s], segs[s])
        /\ Allocated(src[s]) /\ keep' = keep
    BY DEF Frame1, Shelf
  <2>2. Counted(src'[s], segs[s])
    BY <2>1 DEF Kept, Counted
  <2>3. Listed(src'[s], segs[s])
    BY <2>1 DEF Kept, Listed, Gone
  <2>4. Mapped(src[s], segs[s]) => Mapped(src'[s], segs[s])
    BY <2>1 DEF Kept, Mapped, Gone
  <2>5. Allocated(src[s])'
    BY <2>1 DEF Kept, Allocated
  <2> QED  BY <2>2, <2>3, <2>4, <2>5
<1> QED  BY <1>1, <1>2 DEF Shelf, Frame1

\* Requests do not mind what happens to Sources as long as segments are only
\* added.
Grown(s) ==
    /\ Len(segs[s]) <= Len(segs'[s]) /\ \A j \in 1 .. Len(segs[s]) : segs'[s][j] = segs[s][j]
    /\ src[s].seq <= src'[s].seq /\ (~src[s].chan => ~src'[s].chan)

LEMMA ReadingKept ==
    ASSUME Shape, Shape', Shelf, Shelf', Reading, req' = req, keep' = keep, dup => dup',
           \A s \in DOMAIN src : s \in DOMAIN src' /\ Grown(s)
    PROVE  Reading'
<1>1. CASE req.pc = "idle"
  BY <1>1 DEF Reading
<1>2. CASE req.pc # "idle"
  <2>1. req.s \in DOMAIN src /\ req.s \in DOMAIN src' /\ Grown(req.s)
    BY <1>2 DEF Reading
  <2>2. /\ Len(segs[req.s]) \in Nat /\ Len(segs'[req.s]) \in Nat
        /\ src[req.s].seq \in Nat /\ src'[req.s].seq \in Nat
    <3>1. /\ IsSeq(segs[req.s]) /\ IsSeq(segs'[req.s])
          /\ Counted(src[req.s], segs[req.s]) /\ Counted(src'[req.s], segs'[req.s])
      BY <2>1 DEF Shape, Shelf
    <3>2. Len(segs[req.s]) \in Nat /\ Len(segs'[req.s]) \in Nat
      BY <3>1 DEF IsSeq
    <3>3. /\ src[req.s].seq \in {Len(segs[req.s]), Len(segs[req.s]) + 1}
          /\ src'[req.s].seq \in {Len(segs'[req.s]), Len(segs'[req.s]) + 1}
      BY <3>1 DEF Counted
    <3>4. \A a \in Nat : \A x \in {a, a + 1} : x \in Nat
      OBVIOUS
    <3> QED  BY <3>2, <3>3, <3>4
  <2>3. req.pc = "walk" => req.e \in 1 .. Len(segs'[req.s])
    <3>1. req.pc = "walk" => req.e \in 1 .. Len(segs[req.s])
      BY DEF Reading
    <3>2. Len(segs[req.s]) <= Len(segs'[req.s])
      BY <2>1 DEF Grown
    <3> QED  BY <2>2, <3>1, <3>2
  <2>4. Walked(segs[req.s]) => Walked(segs[req.s])'
    <3>1. ASSUME NEW k \in 1 .. Len(segs[req.s])
          PROVE  k \in 1 .. Len(segs'[req.s]) /\ segs'[req.s][k] = segs[req.s][k]
      BY <2>1, <2>2 DEF Grown
    <3> QED  BY <3>1 DEF Walked
  <2>5. req.pc = "nokey" /\ ~dup' => req.e \in Int /\ src'[req.s].seq >= req.e + CacheNum
    <3>1. req.pc = "nokey" /\ ~dup' => req.e \in Int /\ src[req.s].seq >= req.e + CacheNum
      BY DEF Reading
    <3>2. src[req.s].seq <= src'[req.s].seq
      BY <2>1 DEF Grown
    <3> QED  BY <2>2, <3>1, <3>2, HlsAssumption
  <2>6. req.pc = "panic" => ~keep /\ ~src'[req.s].chan
    BY <2>1 DEF Reading, Grown
  <2> QED  BY <2>1, <2>3, <2>4, <2>5, <2>6 DEF Reading
<1> QED  BY <1>1, <1>2

\* All of the invariant, for a step that is such a frame.
LEMMA FrameKeeps ==
    ASSUME HlsInv, Frame1, req' = req, clk' = clk, conns' \in {conns, None}
    PROVE  HlsInv'
<1>1. DOMAIN src' = DOMAIN src
  BY DEF HlsInv, Shape, Frame1, IsSeq
<1>2. Shape'
  BY <1>1 DEF HlsInv, Shape, Frame1, Kept
<1>3. Shelf'
  BY ShelfKept DEF HlsInv
<1>4. ASSUME NEW s \in DOMAIN src PROVE s \in DOMAIN src' /\ Grown(s)
  <2>1. Len(segs[s]) \in Nat /\ src[s].seq \in Nat /\ Kept(src[s], src'[s]) /\ segs' = segs
    BY DEF HlsInv, Shape, Shelf, Counted, IsSeq, Frame1
  <2> QED  BY <1>1, <2>1 DEF Grown, Kept
<1>5. Reading'
  BY <1>2, <1>3, <1>4, ReadingKept DEF HlsInv, Frame1
<1> QED  BY <1>2, <1>3, <1>5 DEF HlsInv

---------------------------------------------------------------------------
(* Publishers, the janitors and SendPacket between two segments.           *)

\* An assignment to a field of a Source that is not on its shelf.
LEMMA QueueFrame ==
    ASSUME HlsInv, NEW s, NEW v, src' = src \/ src' = [src EXCEPT ![s].queue = v],
           UNCHANGED <<keep, segs, dup>>
    PROVE  Frame1
<1>1. IsSeq(src') /\ Len(src') = Len(src)
  BY DEF HlsInv, Shape, IsSeq
<1>2. ASSUME NEW y \in DOMAIN src PROVE Kept(src[y], src'[y])
  <2>1. DOMAIN src[y] = Fields
    BY DEF HlsInv, Shape
  <2>2. src'[y] = src[y] \/ src'[y] = [src[y] EXCEPT !.queue = v]
    OBVIOUS
  <2>3. Kept(src[y], [src[y] EXCEPT !.queue = v])
    BY <2>1 DEF Kept, Fields
  <2> QED  BY <2>1, <2>2, <2>3, KeptSame
<1> QED  BY <1>1, <1>2 DEF Frame1

LEMMA CloseFrame ==
    ASSUME HlsInv, NEW s, UNCHANGED <<keep, segs, dup>>,
           CloseBegin(s) \/ src' = [src EXCEPT ![s].closed = TRUE]
    PROVE  Frame1
<1> DEFINE c(r) == [r EXCEPT !.chan = FALSE, !.alloc = FALSE]
           d(r) == [r EXCEPT !.closed = TRUE]
<1>0. \/ src' = src
      \/ ~keep /\ src' = [src EXCEPT ![s].chan = FALSE, ![s].alloc = FALSE]
      \/ src' = [src EXCEPT ![s].closed = TRUE]
  BY DEF CloseBegin, Cleanup
<1>1. IsSeq(src') /\ Len(src') = Len(src)
  BY <1>0 DEF HlsInv, Shape, IsSeq
<1>2. ASSUME NEW y \in DOMAIN src PROVE Kept(src[y], src'[y])
  <2>1. DOMAIN src[y] = Fields
    BY DEF HlsInv, Shape
  <2>2. src'[y] = src[y] \/ (~keep /\ src'[y] = c(src[y])) \/ src'[y] = d(src[y])
    <3>1. CASE y = s
      BY <1>0, <2>1, <3>1 DEF Fields
    <3>2. CASE y # s
      BY <1>0, <3>2
    <3> QED  BY <3>1, <3>2
  <2>3. ~keep => Kept(src[y], c(src[y]))
    BY <2>1 DEF Kept, Fields
  <2>4. Kept(src[y], d(src[y]))
    BY <2>1 DEF Kept, Fields
  <2> HIDE DEF c, d
  <2> QED  BY <2>1, <2>2, <2>3, <2>4, KeptSame
<1> QED  BY <1>1, <1>2 DEF Frame1

\* SendPacket replaces the state of its Source.
LEMMA SourceFrame ==
    ASSUME HlsInv, NEW s \in DOMAIN src, NEW q, src' = [src EXCEPT ![s] = q], Kept(src[s], q),
           UNCHANGED <<keep, segs, dup>>
    PROVE  Frame1
<1>1. IsSeq(src') /\ Len(src') = Len(src)
  BY DEF HlsInv, Shape, IsSeq
<1>2. ASSUME NEW y \in DOMAIN src PROVE Kept(src[y], src'[y])
  <2>1. DOMAIN src[y] = Fields
    BY DEF HlsInv, Shape
  <2> QED  BY <2>1, KeptSame
<1> QED  BY <1>1, <1>2 DEF Frame1

LEMMA LoopStep ==
    ASSUME HlsInv, NEW l \in Loops,
           GetWriterLoad(l) \/ Write(l) \/ DropRound(l) \/ CloseInter(l) \/ CloseInterEnd(l) \/ CheckAlive(l)
    PROVE  HlsInv'
<1>1. UNCHANGED <<keep, segs, dup, req, clk, conns>>
  BY DEF GetWriterLoad, Write, DropRound, CloseInter, CloseInterEnd, CheckAlive
<1>2. CASE GetWriterLoad(l)
  <2>1. src' = src
    BY <1>2 DEF GetWriterLoad
  <2> QED  BY <1>1, <2>1, QueueFrame, FrameKeeps
<1>3. CASE Write(l)
  <2> DEFINE v == Append(src[pub[l].s].queue, Frame(l))
  <2>1. src' = src \/ src' = [src EXCEPT ![pub[l].s].queue = v]
    BY <1>3 DEF Write
  <2> HIDE DEF v
  <2>2. CASE src' = src
    BY <1>1, <2>2, QueueFrame, FrameKeeps
  <2>3. CASE src' = [src EXCEPT ![pub[l].s].queue = v]
    <3>1. Frame1
      BY <1>1, <2>3, QueueFrame
    <3> QED  BY <1>1, <3>1, FrameKeeps
  <2> QED  BY <2>1, <2>2, <2>3
<1>4. CASE DropRound(l)
  <2> DEFINE q == src[pub[l].s].queue
             v == DropOne(q)
             w == IF q = <<>> THEN q ELSE Tail(q)
  <2>1. src' = [src EXCEPT ![pub[l].s].queue = v] \/ src' = [src EXCEPT ![pub[l].s].queue = w]
    BY <1>4 DEF DropRound
  <2> HIDE DEF q, v, w
  <2>2. Frame1
    BY <1>1, <2>1, QueueFrame
  <2> QED  BY <1>1, <2>2, FrameKeeps
<1>5. CASE CloseInter(l)
  <2>1. CloseBegin(pub[l].s) \/ src' = src
    BY <1>5 DEF CloseInter
  <2> QED  BY <1>1, <2>1, CloseFrame, QueueFrame, FrameKeeps
<1>6. CASE CloseInterEnd(l) \/ CheckAlive(l)
  <2>1. CloseBegin(pub[l].s) \/ src' = [src EXCEPT ![pub[l].s].closed = TRUE]
    BY <1>6 DEF CloseInterEnd, CheckAlive
  <2> QED  BY <1>1, <2>1, CloseFrame, FrameKeeps
<1> QED  BY <1>2, <1>3, <1>4, <1>5, <1>6

LEMMA ServerStep ==
    ASSUME HlsInv, CheckAliveEnd \/ (\E s \in Sources : CheckStop(s) \/ Timeout(s)) \/ UNCHANGED hlsVars
    PROVE  HlsInv'
<1>1. /\ UNCHANGED <<keep, segs, dup, req, clk>> /\ conns' \in {conns, None}
      /\ src' = src \/ src' = [src EXCEPT ![jan].closed = TRUE]
  BY DEF CheckAliveEnd, CheckStop, Timeout, hlsVars
<1> QED  BY <1>1, CloseFrame, QueueFrame, FrameKeeps

LEMMA SendStep ==
    ASSUME HlsInv, NEW s \in Sources, SendTop(s) \/ SendRecv(s) \/ SendWork(s)
    PROVE  HlsInv'
<1>1. UNCHANGED <<keep, segs, dup, req, clk, conns>> /\ s \in DOMAIN src /\ DOMAIN src[s] = Fields
  BY DEF HlsInv, Shape, Sources, SendTop, SendRecv, SendWork, Quiet
<1>2. CASE SendTop(s)
  <2> DEFINE q == [src[s] EXCEPT !.pc = IF src[s].closed THEN "ended" ELSE "recv"]
  <2>1. Kept(src[s], q)
    BY <1>1, <1>2 DEF SendTop, SourceAt, Kept, Fields
  <2>2. src' = [src EXCEPT ![s] = q]
    BY <1>1, <1>2 DEF SendTop
  <2> HIDE DEF q
  <2> QED  BY <1>1, <2>1, <2>2, SourceFrame, FrameKeeps
<1>3. CASE SendRecv(s)
  <2> DEFINE q == [src[s] EXCEPT !.queue = Tail(@), !.cur = Head(src[s].queue), !.pc = "work"]
             e == [src[s] EXCEPT !.pc = "ended", !.closed = TRUE]
  <2>1. Kept(src[s], q) /\ Kept(src[s], e)
    BY <1>1, <1>3 DEF SendRecv, SourceAt, Kept, Fields
  <2>2. src' = [src EXCEPT ![s] = q] \/ src' = [src EXCEPT ![s] = e]
    BY <1>1, <1>3 DEF SendRecv
  <2> HIDE DEF q, e
  <2> QED  BY <1>1, <2>1, <2>2, SourceFrame, FrameKeeps
<1>4. CASE SendWork(s)
  <2> DEFINE r == src[s]
             k == r.cur.kind
             c == [r EXCEPT !.conf = TRUE]
             o == [r EXCEPT !.open = @ \/ k = "key"]
  <2>1. r.pc = "work" /\ DOMAIN r = Fields
    BY <1>1, <1>4 DEF SendWork, SourceAt
  <2>2. Kept(r, Again(r)) /\ Kept(r, Failed(r)) /\ Kept(r, Panics(r))
    <3> HIDE DEF r
    <3> QED  BY <2>1, EndKept
  <2>3. Kept(r, Again(c))
    <3> HIDE DEF r
    <3> QED  BY <2>1 DEF Kept, Again, Fields
  <2>4. Kept(r, Mux(o))
    <3>1. /\ DOMAIN o = Fields /\ o.pc = "work" /\ o.seq = r.seq /\ o.ll = r.ll /\ o.lm = r.lm
          /\ o.alloc = r.alloc /\ o.chan = r.chan /\ o.item = r.item
      <4> HIDE DEF r, k
      <4> QED  BY <2>1 DEF Fields
    <3> HIDE DEF r, o
    <3>2. Muxed(o, Mux(o))
      BY <3>1, MuxIs
    <3> QED  BY <2>1, <3>1, <3>2 DEF Muxed, Kept
  <2>5. \E q \in {Again(r), Failed(r), Panics(r), Again(c), Mux(o)} : src' = [src EXCEPT ![s] = q]
    BY <1>4 DEF SendWork
  <2> HIDE DEF c, o, k
  <2> QED  BY <1>1, <2>2, <2>3, <2>4, <2>5, SourceFrame, FrameKeeps
<1> QED  BY <1>2, <1>3, <1>4

---------------------------------------------------------------------------
(* A new Source, a new segment.                                            *)

LEMMA AddedSource ==
    ASSUME HlsInv, NEW l \in Loops, GetWriterStore(l)
    PROVE  HlsInv'
<1>1. /\ src' = Append(src, NewSource) /\ segs' = Append(segs, <<>>) /\ conns' = Len(src) + 1
      /\ UNCHANGED <<keep, clk, req, dup>>
  BY DEF GetWriterStore
<1>2. /\ IsSeq(src) /\ IsSeq(segs) /\ Len(segs) = Len(src) /\ Len(src) \in Nat
      /\ DOMAIN src = 1 .. Len(src)
  BY DEF HlsInv, Shape, IsSeq
<1>3. /\ IsSeq(src') /\ Len(src') = Len(src) + 1 /\ src'[Len(src) + 1] = NewSource
      /\ \A s \in 1 .. Len(src) : src'[s] = src[s]
  BY <1>1, <1>2 DEF IsSeq
<1>4. /\ IsSeq(segs') /\ Len(segs') = Len(src) + 1 /\ segs'[Len(src) + 1] = <<>>
      /\ \A s \in 1 .. Len(src) : segs'[s] = segs[s]
  BY <1>1, <1>2 DEF IsSeq
<1>5. DOMAIN src' = 1 .. Len(src) + 1 /\ \A s \in DOMAIN src' : s \in DOMAIN src \/ s = Len(src) + 1
  BY <1>2, <1>3 DEF IsSeq
<1>6. DOMAIN NewSource = Fields /\ IsSeq(<<>>) /\ Len(<<>>) = 0
  BY DEF NewSource, Fields, IsSeq
<1>7. Shape'
  <2>1. ASSUME NEW s \in DOMAIN src' PROVE DOMAIN src'[s] = Fields /\ IsSeq(segs'[s])
    <3>1. CASE s \in DOMAIN src
      BY <1>2, <1>3, <1>4, <3>1 DEF HlsInv, Shape
    <3>2. CASE s = Len(src) + 1
      BY <1>3, <1>4, <1>6, <3>2
    <3> QED  BY <1>5, <3>1, <3>2
  <2>2. conns' \in DOMAIN src'
    BY <1>1, <1>2, <1>5
  <2> QED  BY <1>1, <1>3, <1>4, <2>1, <2>2 DEF HlsInv, Shape
<1>8. Shelf'
  <2>1. ASSUME NEW s \in DOMAIN src'
        PROVE  /\ Counted(src'[s], segs'[s]) /\ Listed(src'[s], segs'[s]) /\ Allocated(src[s])'
               /\ ~dup' => Mapped(src'[s], segs'[s])
    <3>1. CASE s \in DOMAIN src
      BY <1>1, <1>2, <1>3, <1>4, <3>1 DEF HlsInv, Shelf, Allocated
    <3>2. CASE s = Len(src) + 1
      <4>1. /\ NewSource.pc = "top" /\ NewSource.seq = 0 /\ NewSource.ll = <<>> /\ NewSource.lm = {}
            /\ NewSource.alloc = TRUE
        BY DEF NewSource
      <4>2. Counted(NewSource, <<>>)
        BY <1>6, <4>1 DEF Counted
      <4>3. Listed(NewSource, <<>>)
        BY <1>6, <4>1, HlsAssumption DEF Listed, Gone
      <4>4. Mapped(NewSource, <<>>)
        BY <1>6, <4>1 DEF Mapped, Gone
      <4> QED  BY <1>3, <1>4, <3>2, <4>1, <4>2, <4>3, <4>4 DEF Allocated
    <3> QED  BY <1>5, <3>1, <3>2
  <2> QED  BY <2>1 DEF Shelf
<1>9. ASSUME NEW s \in DOMAIN src PROVE s \in DOMAIN src' /\ Grown(s)
  <2>1. Len(segs[s]) \in Nat /\ src[s].seq \in Nat
    BY DEF HlsInv, Shape, Shelf, Counted, IsSeq
  <2> QED  BY <1>2, <1>3, <1>4, <1>5, <2>1 DEF Grown
<1>10. Reading'
  BY <1>1, <1>7, <1>8, <1>9, ReadingKept DEF HlsInv
<1> QED  BY <1>7, <1>8, <1>10 DEF HlsInv

\* A step of SendPacket that changes one Source, q being its new state and h
\* what it has cut then.
LEMMA OneSource ==
    ASSUME HlsInv, NEW s \in DOMAIN src, NEW q, NEW h,
           src' = [src EXCEPT ![s] = q],
           segs' = [segs EXCEPT ![s] = h] \/ (segs' = segs /\ h = segs[s]),
           UNCHANGED <<keep, req, conns>>, clk' \in Int, dup => dup',
           DOMAIN q = Fields, IsSeq(h), Counted(q, h), Listed(q, h), ~dup' => Mapped(q, h),
           q.alloc = src[s].alloc, q.chan = src[s].chan, src[s].seq <= q.seq,
           Len(segs[s]) <= Len(h), \A j \in 1 .. Len(segs[s]) : h[j] = segs[s][j]
    PROVE  HlsInv'
<1>1. /\ IsSeq(src) /\ IsSeq(segs) /\ Len(segs) = Len(src) /\ s \in DOMAIN segs
  BY DEF HlsInv, Shape, IsSeq
<1>2. IsSeq(src') /\ Len(src') = Len(src) /\ DOMAIN src' = DOMAIN src
  BY <1>1 DEF IsSeq
<1>3. IsSeq(segs') /\ Len(segs') = Len(segs) /\ DOMAIN segs' = DOMAIN segs
  BY <1>1 DEF IsSeq
<1>4. /\ src'[s] = q /\ segs'[s] = h
      /\ \A y \in DOMAIN src \ {s} : src'[y] = src[y] /\ segs'[y] = segs[y]
  BY <1>1 DEF IsSeq
<1>5. Shape'
  BY <1>2, <1>3, <1>4 DEF HlsInv, Shape
<1>6. Shelf'
  <2>1. ASSUME NEW y \in DOMAIN src
        PROVE  /\ Counted(src'[y], segs'[y]) /\ Listed(src'[y], segs'[y]) /\ Allocated(src[y])'
               /\ ~dup' => Mapped(src'[y], segs'[y])
    BY <1>4 DEF HlsInv, Shelf, Allocated
  <2> QED  BY <1>2, <2>1 DEF Shelf
<1>7. ASSUME NEW y \in DOMAIN src PROVE y \in DOMAIN src' /\ Grown(y)
  <2>1. Len(segs[y]) \in Nat /\ src[y].seq \in Nat
    BY DEF HlsInv, Shape, Shelf, Counted, IsSeq
  <2> QED  BY <1>2, <1>4, <2>1 DEF Grown
<1>8. Reading'
  BY <1>5, <1>6, <1>7, ReadingKept DEF HlsInv
<1> QED  BY <1>5, <1>6, <1>8 DEF HlsInv

LEMMA CutStep ==
    ASSUME HlsInv, NEW s \in Sources, SendCut(s)
    PROVE  HlsInv'
<1> DEFINE r == FlushAudio(src[s])
           i == [name |-> clk', seq |-> r.seq + 1, dur |-> r.last - r.first, data |-> r.bts]
           q == [r EXCEPT !.pc = "evict", !.seq = @ + 1, !.item = i]
           g == segs[s]
<1>0. s \in DOMAIN src /\ DOMAIN src[s] = Fields /\ IsSeq(g) /\ IsSeq(segs) /\ s \in DOMAIN segs
  BY DEF Sources, HlsInv, Shape, IsSeq
<1>1. /\ DOMAIN r = Fields /\ r.seq = src[s].seq /\ r.ll = src[s].ll /\ r.lm = src[s].lm
      /\ r.alloc = src[s].alloc /\ r.chan = src[s].chan
  BY <1>0 DEF FlushAudio, Fields
<1>2. /\ src[s].pc = "work" /\ clk' \in {clk, clk + 1} /\ src' = [src EXCEPT ![s] = q]
      /\ UNCHANGED <<keep, req, conns, segs, dup>>
  BY DEF SendCut, SourceAt, Quiet
<1>3. Counted(src[s], g) /\ Listed(src[s], g) /\ (~dup => Mapped(src[s], g))
  BY <1>0 DEF HlsInv, Shelf
<1>4. Len(g) \in Nat /\ src[s].seq = Len(g) /\ clk' \in Int
  BY <1>0, <1>2, <1>3 DEF IsSeq, Counted, HlsInv, Shape
<1>5. i.seq = r.seq + 1 /\ i.name = clk'
  OBVIOUS
<1>6. /\ DOMAIN q = Fields /\ q.pc = "evict" /\ q.seq = Len(g) + 1 /\ q.item.seq = q.seq
      /\ q.item.name \in Int /\ q.ll = src[s].ll /\ q.lm = src[s].lm
      /\ q.alloc = src[s].alloc /\ q.chan = src[s].chan
  <2> HIDE DEF r, i
  <2> QED  BY <1>1, <1>4, <1>5 DEF Fields
<1> HIDE DEF q, r, i
<1>7. Counted(q, g)
  BY <1>3, <1>4, <1>6 DEF Counted
<1>8. Listed(q, g)
  <2>1. Len(src[s].ll) \in Nat /\ Gone(q, g) = Gone(src[s], g) /\ Gone(q, g) \in Int
    BY <1>3, <1>4, <1>6 DEF Listed, Gone
  <2>2. Gone(q, g) > 0 => q.seq >= Gone(q, g) + CacheNum
    BY <1>3, <1>4, <1>6, <2>1, HlsAssumption DEF Listed
  <2>3. \A j \in 1 .. Len(q.ll) : q.ll[j] = <<g[Gone(q, g) + j].name, Gone(q, g) + j>>
    BY <1>3, <1>6, <2>1 DEF Listed
  <2> QED  BY <1>3, <1>6, <2>2, <2>3 DEF Listed
<1>9. ~dup' => Mapped(q, g)
  BY <1>2, <1>3, <1>6 DEF Mapped, Gone
<1>10. \A j \in 1 .. Len(segs[s]) : g[j] = segs[s][j]
  OBVIOUS
<1>11. Len(segs[s]) <= Len(g) /\ segs' = segs /\ g = segs[s] /\ src[s].seq <= q.seq /\ dup' = dup
  BY <1>2, <1>4, <1>6
<1>12. UNCHANGED <<keep, req, conns>> /\ src' = [src EXCEPT ![s] = q] /\ (dup => dup')
  BY <1>2
<1>13. DOMAIN q = Fields /\ q.alloc = src[s].alloc /\ q.chan = src[s].chan
  BY <1>6
<1> HIDE DEF g
<1> QED  BY <1>0, <1>4, <1>7, <1>8, <1>9, <1>10, <1>11, <1>12, <1>13, OneSource

LEMMA EvictStep ==
    ASSUME HlsInv, NEW s \in Sources, SetItemEvict(s)
    PROVE  HlsInv'
<1> DEFINE r == src[s]
           g == segs[s]
           t == [r EXCEPT !.pc = "store", !.ll = Tail(@), !.lm = {i \in @ : i.name # Head(r.ll)[1]}]
           u == [r EXCEPT !.pc = "store"]
<1>0. s \in DOMAIN src /\ DOMAIN r = Fields /\ IsSeq(g)
  BY DEF Sources, HlsInv, Shape
<1>1. /\ r.pc = "evict" /\ UNCHANGED <<keep, req, conns, segs, dup, clk>>
      /\ \/ ~r.alloc /\ src' = [src EXCEPT ![s] = Panics(r)]
         \/ IsFull(r) /\ r.ll # <<>> /\ src' = [src EXCEPT ![s] = t]
         \/ ~(IsFull(r) /\ r.ll # <<>>) /\ src' = [src EXCEPT ![s] = u]
  BY DEF SetItemEvict, SourceAt, Quiet
<1>2. Counted(r, g) /\ Listed(r, g) /\ (~dup => Mapped(r, g))
  BY <1>0 DEF HlsInv, Shelf
<1>3. Len(g) \in Nat /\ r.seq = Len(g) + 1 /\ r.item.seq = r.seq /\ r.item.name \in Int
  BY <1>0, <1>1, <1>2 DEF IsSeq, Counted
<1>4. /\ r.ll \in Seq(Int \X Int) /\ Len(r.ll) \in Nat /\ Len(r.ll) <= Len(g) /\ Len(r.ll) <= CacheNum
      /\ CacheNum \in Nat /\ CacheNum > 0
  BY <1>2, HlsAssumption DEF Listed
<1>5. CASE ~r.alloc /\ src' = [src EXCEPT ![s] = Panics(r)]
  <2>1. Kept(r, Panics(r))
    <3> HIDE DEF r
    <3> QED  BY <1>0, EndKept
  <2>2. Frame1
    BY <1>0, <1>1, <1>5, <2>1, SourceFrame
  <2> QED  BY <1>1, <2>2, FrameKeeps
<1>6. CASE IsFull(r) /\ r.ll # <<>> /\ src' = [src EXCEPT ![s] = t]
  <2> DEFINE o == Gone(r, g)
  <2>1. /\ DOMAIN t = Fields /\ t.pc = "store" /\ t.ll = Tail(r.ll) /\ t.seq = r.seq /\ t.item = r.item
        /\ t.lm = {i \in r.lm : i.name # Head(r.ll)[1]} /\ t.alloc = r.alloc /\ t.chan = r.chan
    <3> HIDE DEF r
    <3> QED  BY <1>0 DEF Fields
  <2>2. /\ Len(r.ll) = CacheNum /\ t.ll \in Seq(Int \X Int) /\ Len(t.ll) = CacheNum - 1
        /\ Head(r.ll) = r.ll[1] /\ \A i \in 1 .. Len(t.ll) : t.ll[i] = r.ll[i + 1] /\ i + 1 \in 1 .. Len(r.ll)
    <3> HIDE DEF r, t
    <3> QED  BY <1>4, <1>6, <2>1 DEF IsFull
  <2> HIDE DEF t, r, g
  <2>3. o \in Nat /\ o = Len(g) - CacheNum /\ Gone(t, g) = o + 1
    <3>1. Len(g) \in Nat /\ CacheNum \in Nat /\ CacheNum <= Len(g) /\ Len(r.ll) = CacheNum
          /\ Len(t.ll) = CacheNum - 1
      BY <1>3, <1>4, <2>2
    <3> QED  BY <3>1 DEF Gone
  <2>4. Head(r.ll)[1] = g[o + 1].name
    <3>1. 1 \in 1 .. Len(r.ll)
      BY <1>4, <2>2
    <3>2. r.ll[1] = <<g[o + 1].name, o + 1>>
      BY <1>2, <3>1 DEF Listed
    <3> HIDE DEF o
    <3> QED  BY <2>2, <3>2
  <2> HIDE DEF o
  <2>5. Counted(t, g)
    BY <1>2, <1>3, <2>1 DEF Counted
  <2>6. Listed(t, g)
    <3>1. \A i \in 1 .. Len(t.ll) : t.ll[i] = <<g[Gone(t, g) + i].name, Gone(t, g) + i>>
      <4>1. ASSUME NEW i \in 1 .. Len(t.ll) PROVE t.ll[i] = <<g[Gone(t, g) + i].name, Gone(t, g) + i>>
        <5>1. r.ll[i + 1] = <<g[o + (i + 1)].name, o + (i + 1)>>
          BY <1>2, <2>2 DEF Listed, o
        <5>2. o + (i + 1) = Gone(t, g) + i
          BY <2>3
        <5> QED  BY <2>2, <5>1, <5>2
      <4> QED  BY <4>1
    <3>2. Gone(t, g) > 0 => t.seq >= Gone(t, g) + CacheNum
      BY <1>3, <1>4, <2>1, <2>3
    <3>3. Len(t.ll) < CacheNum /\ Len(t.ll) <= CacheNum /\ Len(t.ll) <= Len(g) /\ t.ll \in Seq(Int \X Int)
      <4>1. Len(t.ll) = CacheNum - 1 /\ CacheNum \in Nat /\ CacheNum <= Len(g) /\ Len(g) \in Nat
        BY <1>3, <1>4, <2>2
      <4> QED  BY <2>2, <4>1
    <3> QED  BY <3>1, <3>2, <3>3 DEF Listed
  <2>7. ~dup' => Mapped(t, g)
    <3> SUFFICES ASSUME ~dup PROVE t.lm = {g[j] : j \in o + 2 .. Len(g)} /\ Mapped(r, g)
      BY <1>1, <1>2, <2>3 DEF Mapped
    <3>1. Mapped(r, g) /\ r.lm = {g[j] : j \in o + 1 .. Len(g)}
      BY <1>2 DEF Mapped, o
    <3>2. \A j \in o + 1 .. Len(g) : j \in 1 .. Len(g) /\ (g[j].name # g[o + 1].name <=> j # o + 1)
      BY <1>3, <2>3, <3>1 DEF Mapped
    <3>3. \A j \in Int : j \in o + 2 .. Len(g) <=> j \in o + 1 .. Len(g) /\ j # o + 1
      BY <1>3, <2>3
    <3> QED  BY <2>1, <2>4, <3>1, <3>2, <3>3
  <2>8. \A j \in 1 .. Len(segs[s]) : g[j] = segs[s][j]
    BY DEF g
  <2>9. /\ Len(segs[s]) <= Len(g) /\ segs' = segs /\ g = segs[s] /\ src[s].seq <= t.seq
        /\ t.alloc = src[s].alloc /\ t.chan = src[s].chan /\ DOMAIN t = Fields
    BY <1>1, <1>3, <2>1 DEF g, r
  <2>10. UNCHANGED <<keep, req, conns>> /\ src' = [src EXCEPT ![s] = t] /\ (dup => dup') /\ clk' \in Int
    BY <1>1, <1>6 DEF HlsInv, Shape
  <2> QED  BY <1>0, <2>5, <2>6, <2>7, <2>8, <2>9, <2>10, OneSource
<1>7. CASE ~(IsFull(r) /\ r.ll # <<>>) /\ src' = [src EXCEPT ![s] = u]
  <2>1. /\ DOMAIN u = Fields /\ u.pc = "store" /\ u.ll = r.ll /\ u.seq = r.seq /\ u.item = r.item
        /\ u.lm = r.lm /\ u.alloc = r.alloc /\ u.chan = r.chan
    <3> HIDE DEF r
    <3> QED  BY <1>0 DEF Fields
  <2>2. Len(r.ll) < CacheNum
    BY <1>4, <1>7 DEF IsFull
  <2> HIDE DEF u, r, g
  <2>3. Counted(u, g)
    BY <1>2, <1>3, <2>1 DEF Counted
  <2>4. Listed(u, g)
    BY <1>2, <2>1, <2>2 DEF Listed, Gone
  <2>5. ~dup' => Mapped(u, g)
    BY <1>1, <1>2, <2>1 DEF Mapped, Gone
  <2>8. \A j \in 1 .. Len(segs[s]) : g[j] = segs[s][j]
    BY DEF g
  <2>9. /\ Len(segs[s]) <= Len(g) /\ segs' = segs /\ g = segs[s] /\ src[s].seq <= u.seq
        /\ u.alloc = src[s].alloc /\ u.chan = src[s].chan /\ DOMAIN u = Fields
    BY <1>1, <1>3, <2>1 DEF g, r
  <2>10. UNCHANGED <<keep, req, conns>> /\ src' = [src EXCEPT ![s] = u] /\ (dup => dup') /\ clk' \in Int
    BY <1>1, <1>7 DEF HlsInv, Shape
  <2> QED  BY <1>0, <2>3, <2>4, <2>5, <2>8, <2>9, <2>10, OneSource
<1> QED  BY <1>1, <1>5, <1>6, <1>7

LEMMA OffsetIs ==
    ASSUME NEW a \in Nat, NEW c \in Nat, NEW d \in Nat, d = a - c
    PROVE  d + (c + 1) = a + 1 /\ a + 1 \in d + 1 .. a + 1
  OBVIOUS

LEMMA OffsetOf ==
    ASSUME NEW a \in Nat, NEW c \in Nat, NEW d \in Nat, d = a - c, NEW x \in 1 .. a, x > d
    PROVE  x - d \in 1 .. c /\ d + (x - d) = x
  OBVIOUS

LEMMA StoreStep ==
    ASSUME HlsInv, NEW s \in Sources, SetItemStore(s)
    PROVE  HlsInv'
<1> DEFINE r == src[s]
           g == segs[s]
           kept == {i \in r.lm : i.name # r.item.name}
           b == [r EXCEPT !.ll = PushBack(@, <<r.item.name, r.item.seq>>), !.lm = kept \cup {r.item},
                          !.item = NoItem, !.bts = <<>>, !.hasFirst = FALSE]
           q == Mux(b)
           h == Append(g, r.item)
<1>0. s \in DOMAIN src /\ DOMAIN r = Fields /\ IsSeq(g)
  BY DEF Sources, HlsInv, Shape
<1>1. /\ r.pc = "store" /\ UNCHANGED <<keep, req, conns, clk>>
      /\ \/ ~r.alloc /\ src' = [src EXCEPT ![s] = Panics(r)] /\ UNCHANGED <<segs, dup>>
         \/ /\ src' = [src EXCEPT ![s] = q] /\ segs' = [segs EXCEPT ![s] = h]
            /\ dup' = (dup \/ \E i \in DOMAIN g : g[i].name = r.item.name)
  BY DEF SetItemStore, SourceAt, Quiet
<1>2. Counted(r, g) /\ Listed(r, g) /\ (~dup => Mapped(r, g))
  BY <1>0 DEF HlsInv, Shelf
<1>3. /\ Len(g) \in Nat /\ r.seq = Len(g) + 1 /\ r.item.seq = r.seq /\ r.item.name \in Int
      /\ \A j \in 1 .. Len(g) : g[j].seq = j
  BY <1>0, <1>1, <1>2 DEF IsSeq, Counted
<1>4. /\ r.ll \in Seq(Int \X Int) /\ Len(r.ll) \in Nat /\ Len(r.ll) <= Len(g) /\ Len(r.ll) < CacheNum
      /\ CacheNum \in Nat /\ CacheNum > 0
  BY <1>1, <1>2, HlsAssumption DEF Listed
<1>5. CASE ~r.alloc /\ src' = [src EXCEPT ![s] = Panics(r)] /\ UNCHANGED <<segs, dup>>
  <2>1. Kept(r, Panics(r))
    <3> HIDE DEF r
    <3> QED  BY <1>0, EndKept
  <2>2. Frame1
    BY <1>0, <1>1, <1>5, <2>1, SourceFrame
  <2> QED  BY <1>1, <2>2, FrameKeeps
<1>6. CASE /\ src' = [src EXCEPT ![s] = q] /\ segs' = [segs EXCEPT ![s] = h]
           /\ dup' = (dup \/ \E i \in DOMAIN g : g[i].name = r.item.name)
  <2> DEFINE o == Gone(r, g)
             x == r.item
             e == <<r.item.name, r.item.seq>>
  <2>1. /\ DOMAIN b = Fields /\ b.ll = Append(r.ll, e) /\ b.lm = kept \cup {x}
        /\ b.seq = r.seq /\ b.alloc = r.alloc /\ b.chan = r.chan
    <3> HIDE DEF r, kept
    <3> QED  BY <1>0 DEF PushBack, Fields
  <2>2. Muxed(b, q)
    <3> HIDE DEF b
    <3> QED  BY <2>1, MuxIs
  <2>3. /\ DOMAIN q = Fields /\ q.pc = "top" /\ q.ll = Append(r.ll, e) /\ q.lm = kept \cup {x}
        /\ q.seq = r.seq /\ q.alloc = r.alloc /\ q.chan = r.chan
    <3> HIDE DEF b, q, r, kept
    <3> QED  BY <2>1, <2>2 DEF Muxed
  <2>4. e \in Int \X Int
    BY <1>3
  <2>5. /\ q.ll \in Seq(Int \X Int) /\ Len(q.ll) = Len(r.ll) + 1 /\ q.ll[Len(r.ll) + 1] = e
        /\ \A i \in 1 .. Len(r.ll) : q.ll[i] = r.ll[i]
    <3> HIDE DEF q, r, e
    <3> QED  BY <1>4, <2>3, <2>4
  <2>6. /\ IsSeq(h) /\ Len(h) = Len(g) + 1 /\ h[Len(g) + 1] = x
        /\ \A i \in 1 .. Len(g) : h[i] = g[i]
        /\ \A i \in 1 .. Len(h) : i \in 1 .. Len(g) \/ i = Len(g) + 1
    <3> HIDE DEF r, g
    <3> QED  BY <1>0 DEF IsSeq
  <2>7. o \in Nat /\ o = Len(g) - Len(r.ll) /\ Gone(q, h) = o
    <3> HIDE DEF q, h
    <3> QED  BY <1>3, <1>4, <2>5, <2>6 DEF Gone
  <2>8. x.seq = Len(g) + 1 /\ e = <<x.name, Len(g) + 1>>
    BY <1>3
  <2>9. \A i \in 1 .. Len(r.ll) : r.ll[i] = <<g[o + i].name, o + i>>
    BY <1>2 DEF Listed
  <2>9a. o > 0 => r.seq >= o + CacheNum
    BY <1>2 DEF Listed
  <2>9b. ~dup => Mapped(r, g) /\ r.lm = {g[j] : j \in o + 1 .. Len(g)}
    BY <1>2 DEF Mapped
  <2> HIDE DEF q, h, r, g, o, x, e
  <2>a. /\ Len(g) \in Nat /\ Len(r.ll) \in Nat /\ o \in Nat /\ o = Len(g) - Len(r.ll)
        /\ Len(q.ll) = Len(r.ll) + 1 /\ Len(h) = Len(g) + 1
    BY <1>3, <1>4, <2>5, <2>6, <2>7
  <2>10. Counted(q, h)
    BY <1>3, <2>3, <2>6, <2>8 DEF Counted
  <2>11. Listed(q, h)
    <3>1. ASSUME NEW i \in 1 .. Len(q.ll) PROVE q.ll[i] = <<h[o + i].name, o + i>>
      <4>1. CASE i \in 1 .. Len(r.ll)
        <5>1. q.ll[i] = <<g[o + i].name, o + i>>
          BY <2>5, <2>9, <4>1
        <5>2. o + i \in 1 .. Len(g)
          BY <2>a, <4>1
        <5> QED  BY <2>6, <5>1, <5>2
      <4>2. CASE i = Len(r.ll) + 1
        <5>1. o + i = Len(g) + 1
          BY <2>a, <4>2, OffsetIs
        <5> QED  BY <2>5, <2>6, <2>8, <4>2, <5>1
      <4>3. i \in 1 .. Len(r.ll) \/ i = Len(r.ll) + 1
        BY <2>a
      <4> QED  BY <4>1, <4>2, <4>3
    <3>2. Len(q.ll) <= CacheNum /\ Len(q.ll) <= Len(h)
      BY <1>3, <1>4, <2>5, <2>6
    <3> QED  BY <2>3, <2>5, <2>7, <2>9a, <3>1, <3>2 DEF Listed
  <2>12. ~dup' => Mapped(q, h)
    <3> SUFFICES ASSUME ~dup' PROVE Mapped(q, h)
      OBVIOUS
    <3>1. ~dup /\ \A i \in 1 .. Len(g) : g[i].name # x.name
      BY <1>0, <1>6 DEF IsSeq, x
    <3>2. Mapped(r, g) /\ r.lm = {g[j] : j \in o + 1 .. Len(g)}
      BY <2>9b, <3>1
    <3>3. \A i, j \in 1 .. Len(h) : h[i].name = h[j].name => i = j
      BY <2>6, <3>1, <3>2 DEF Mapped
    <3>4. kept = r.lm
      <4>1. \A y \in r.lm : y.name # x.name
        BY <1>3, <2>7, <3>1, <3>2
      <4> QED  BY <4>1 DEF x
    <3>5. {h[j] : j \in o + 1 .. Len(h)} = {g[j] : j \in o + 1 .. Len(g)} \cup {x}
      <4>1. \A j \in o + 1 .. Len(h) : (j \in o + 1 .. Len(g) /\ h[j] = g[j]) \/ (j = Len(g) + 1 /\ h[j] = x)
        <5>1. \A j \in o + 1 .. Len(h) : j \in o + 1 .. Len(g) \/ j = Len(g) + 1
          BY <2>a
        <5>2. \A j \in o + 1 .. Len(g) : j \in 1 .. Len(g)
          BY <2>a
        <5> QED  BY <2>6, <5>1, <5>2
      <4>2. \A j \in o + 1 .. Len(g) : j \in o + 1 .. Len(h) /\ h[j] = g[j]
        <5>1. \A j \in o + 1 .. Len(g) : j \in 1 .. Len(g) /\ j \in o + 1 .. Len(h)
          BY <2>a
        <5> QED  BY <2>6, <5>1
      <4>3. Len(g) + 1 \in o + 1 .. Len(h) /\ h[Len(g) + 1] = x
        <5>1. Len(g) + 1 \in o + 1 .. Len(h)
          BY <2>a, OffsetIs
        <5> QED  BY <2>6, <5>1
      <4> QED  BY <4>1, <4>2, <4>3
    <3>6. q.lm = {h[j] : j \in o + 1 .. Len(h)}
      BY <2>3, <3>2, <3>4, <3>5
    <3> QED  BY <2>7, <3>3, <3>6 DEF Mapped
  <2>13. /\ \A j \in 1 .. Len(segs[s]) : h[j] = segs[s][j]
         /\ Len(segs[s]) <= Len(h)
    BY <1>3, <2>6 DEF g
  <2>14. /\ q.alloc = src[s].alloc /\ q.chan = src[s].chan /\ DOMAIN q = Fields /\ src[s].seq <= q.seq
    BY <1>3, <2>3 DEF r
  <2>15. /\ UNCHANGED <<keep, req, conns>> /\ src' = [src EXCEPT ![s] = q] /\ (dup => dup') /\ clk' \in Int
         /\ segs' = [segs EXCEPT ![s] = h]
    BY <1>1, <1>6 DEF HlsInv, Shape
  <2> QED  BY <1>0, <2>6, <2>10, <2>11, <2>12, <2>13, <2>14, <2>15, OneSource
<1> QED  BY <1>1, <1>5, <1>6

---------------------------------------------------------------------------
(* Requests.                                                               *)

\* A request changes nothing but itself.
LEMMA RequestFrame ==
    ASSUME HlsInv, QuietR, DOMAIN req' = ReqFields, IsSeq(req'.out), Reading'
    PROVE  HlsInv'
<1>1. UNCHANGED <<keep, conns, src, clk, segs, dup>>
  BY DEF QuietR
<1>2. Shape'
  BY <1>1 DEF HlsInv, Shape
<1>3. Shelf'
  BY <1>1 DEF HlsInv, Shelf, Allocated
<1> QED  BY <1>2, <1>3 DEF HlsInv

LEMMA NoReqIs ==
    /\ DOMAIN NoReq = ReqFields /\ IsSeq(NoReq.out) /\ NoReq.pc = "idle" /\ NoReq.out = <<>> /\ Len(NoReq.out) = 0
    /\ IsSeq(<<>>) /\ Len(<<>>) = 0
  BY DEF NoReq, ReqFields, IsSeq

LEMMA EndStep == ASSUME HlsInv, ReqEnd PROVE HlsInv'
<1>1. req' = NoReq /\ QuietR
  BY DEF ReqEnd
<1>2. Reading'
  BY <1>1, NoReqIs DEF Reading
<1> QED  BY <1>1, <1>2, NoReqIs, RequestFrame

LEMMA PlaylistStep == ASSUME HlsInv, ReqPlaylist PROVE HlsInv'
<1> DEFINE r == src[conns]
           g == segs[conns]
<1>1. /\ DOMAIN req' = ReqFields /\ req'.out = <<>> /\ req'.s = conns
      /\ req'.pc = IF r.ll = <<>> THEN "done" ELSE "walk"
      /\ req'.e = IF r.ll = <<>> THEN 0 ELSE Head(r.ll)[2]
      /\ req'.had = (r.ll # <<>>)
  <2> HIDE DEF r
  <2> QED  BY DEF ReqPlaylist, NoReq, ReqFields, r
<1>2. QuietR /\ conns \in DOMAIN src
  BY DEF ReqPlaylist, HlsInv, Shape
<1>3. Listed(r, g) /\ IsSeq(g)
  BY <1>2 DEF HlsInv, Shelf, Shape
<1>4. r.ll # <<>> => Head(r.ll)[2] \in 1 .. Len(g)
  <2> SUFFICES ASSUME r.ll # <<>> PROVE Head(r.ll)[2] \in 1 .. Len(g)
    OBVIOUS
  <2> HIDE DEF r, g
  <2>1. r.ll \in Seq(Int \X Int) /\ Len(r.ll) \in Nat /\ Len(r.ll) <= Len(g) /\ Len(g) \in Nat
    BY <1>3 DEF Listed, IsSeq
  <2>2. 1 \in 1 .. Len(r.ll) /\ Head(r.ll) = r.ll[1]
    BY <2>1
  <2>3. r.ll[1] = <<g[Gone(r, g) + 1].name, Gone(r, g) + 1>>
    BY <1>3, <2>2 DEF Listed
  <2>4. Head(r.ll)[2] = Gone(r, g) + 1
    BY <2>2, <2>3
  <2>5. Gone(r, g) + 1 \in 1 .. Len(g)
    BY <2>1, <2>2 DEF Gone
  <2> QED  BY <2>4, <2>5
<1>5. Reading'
  <2>1. UNCHANGED <<keep, conns, src, segs, dup>>
    BY <1>2 DEF QuietR
  <2>2. Walked(segs[req.s])'
    BY <1>1, NoReqIs DEF Walked
  <2>3. req'.pc = "walk" => req'.e \in 1 .. Len(segs'[req'.s])
    BY <1>1, <1>4, <2>1
  <2>4. req'.pc = "done" => ~req'.had
    BY <1>1
  <2>5. req'.pc \in {"walk", "done"} /\ req'.s \in DOMAIN src'
    BY <1>1, <1>2, <2>1
  <2> QED  BY <2>2, <2>3, <2>4, <2>5 DEF Reading
<1> QED  BY <1>1, <1>2, <1>5, NoReqIs, RequestFrame

\* The list elements of record r that stand for segment e, the segments listed
\* right after them, and the items of the map with the name of segment e.
AtOf(r, e)      == {i \in DOMAIN r.ll : r.ll[i][2] = e}
NextOf(r, e)    == {r.ll[i + 1][2] : i \in {j \in AtOf(r, e) : j < Len(r.ll)}}
HitOf(r, g, e)  == {i \in r.lm : i.name = g[e].name}

\* What a walk finds of segment e of a Source in the list and in the map.
LEMMA WalkFinds ==
    ASSUME NEW r, NEW g, IsSeq(g), Listed(r, g), NEW e \in 1 .. Len(g)
    PROVE  /\ \A x \in NextOf(r, e) : x = e + 1 /\ e + 1 \in 1 .. Len(g)
           /\ AtOf(r, e) = {} => NextOf(r, e) = {}
           /\ Mapped(r, g) => IF AtOf(r, e) = {} THEN HitOf(r, g, e) = {} ELSE HitOf(r, g, e) = {g[e]}
<1> DEFINE at   == {i \in DOMAIN r.ll : r.ll[i][2] = e}
           next == {r.ll[i + 1][2] : i \in {j \in at : j < Len(r.ll)}}
           hit  == {i \in r.lm : i.name = g[e].name}
           o    == Gone(r, g)
<1>1. /\ DOMAIN r.ll = 1 .. Len(r.ll) /\ Len(r.ll) \in Nat /\ Len(g) \in Nat /\ Len(r.ll) <= Len(g)
      /\ o = Len(g) - Len(r.ll)
  BY DEF Listed, IsSeq, Gone
<1>2. \A i \in 1 .. Len(r.ll) : r.ll[i] = <<g[o + i].name, o + i>>
  BY DEF Listed
<1>3. \A i \in 1 .. Len(r.ll) : r.ll[i][2] = o + i
  <2> HIDE DEF o
  <2> QED  BY <1>2
<1>4. o \in Nat
  BY <1>1
<1>5. \A i \in at : i \in 1 .. Len(r.ll) /\ e = o + i
  <2> HIDE DEF o
  <2> QED  BY <1>1, <1>3
<1>6. e > o => e - o \in at
  <2> HIDE DEF o
  <2> DEFINE a == Len(g)
             c == Len(r.ll)
  <2>a. a \in Nat /\ c \in Nat /\ o \in Nat /\ o = a - c /\ e \in 1 .. a
    BY <1>1, <1>4
  <2>1. e > o => e - o \in 1 .. c /\ o + (e - o) = e
    <3> HIDE DEF a, c
    <3> QED  BY <2>a
  <2> QED  BY <1>1, <1>3, <2>1
<1> HIDE DEF o
<1>7. \A x \in next : x = e + 1 /\ e + 1 \in 1 .. Len(g)
  <2> SUFFICES ASSUME NEW i \in at, i < Len(r.ll)
               PROVE  r.ll[i + 1][2] = e + 1 /\ e + 1 \in 1 .. Len(g)
    OBVIOUS
  <2> HIDE DEF at
  <2>1. i \in 1 .. Len(r.ll) /\ e = o + i
    BY <1>5
  <2>2. i + 1 \in 1 .. Len(r.ll) /\ o + (i + 1) = e + 1 /\ e + 1 \in 1 .. Len(g)
    BY <1>1, <1>4, <2>1
  <2> QED  BY <1>3, <2>2
<1>8. at = {} => next = {}
  OBVIOUS
<1>9. ASSUME Mapped(r, g) PROVE IF at = {} THEN hit = {} ELSE hit = {g[e]}
  <2>1. r.lm = {g[j] : j \in o + 1 .. Len(g)} /\ \A i, j \in 1 .. Len(g) : g[i].name = g[j].name => i = j
    BY <1>9 DEF Mapped, o
  <2>2. \A j \in o + 1 .. Len(g) : j \in 1 .. Len(g)
    BY <1>1, <1>4
  <2>3. \A x \in hit : x = g[e] /\ e \in o + 1 .. Len(g)
    <3> SUFFICES ASSUME NEW j \in o + 1 .. Len(g), g[j].name = g[e].name
                 PROVE  g[j] = g[e] /\ e \in o + 1 .. Len(g)
      BY <2>1
    <3> QED  BY <2>1, <2>2
  <2>4. CASE at = {}
    <3>1. ~(e > o)
      BY <1>6, <2>4
    <3>2. e \notin o + 1 .. Len(g)
      BY <1>1, <1>4, <3>1
    <3> QED  BY <2>3, <2>4, <3>2
  <2>5. CASE at # {}
    <3>1. PICK i \in at : TRUE
      BY <2>5
    <3>2. e \in o + 1 .. Len(g)
      <4> HIDE DEF at
      <4>1. i \in 1 .. Len(r.ll) /\ e = o + i
        BY <1>5
      <4> QED  BY <1>1, <1>4, <4>1
    <3>3. g[e] \in hit
      BY <2>1, <3>2
    <3> QED  BY <2>3, <2>5, <3>3
  <2> QED  BY <2>4, <2>5
<1>10. AtOf(r, e) = at /\ NextOf(r, e) = next /\ HitOf(r, g, e) = hit
  BY DEF AtOf, NextOf, HitOf
<1> HIDE DEF at, next, hit
<1> QED  BY <1>7, <1>8, <1>9, <1>10

LEMMA WalkStep == ASSUME HlsInv, ReqWalk PROVE HlsInv'
<1> DEFINE r == src[req.s]
           g == segs[req.s]
           at == AtOf(r, req.e)
           next == NextOf(r, req.e)
           hit == HitOf(r, g, req.e)
           n == CHOOSE n \in next : TRUE
           x == CHOOSE i \in hit : TRUE
<1>1. /\ req.pc = "walk" /\ QuietR /\ DOMAIN req = ReqFields /\ IsSeq(req.out)
      /\ req' = [req EXCEPT !.out = IF hit = {} THEN @ ELSE Append(@, x),
                            !.e = IF next = {} THEN 0 ELSE n,
                            !.pc = IF next = {} THEN "done" ELSE "walk",
                            !.raced = @ \/ Setting(req.s) \/ at = {}]
  BY DEF ReqWalk, HlsInv, Shape, AtOf, NextOf, HitOf
<1>2. req.s \in DOMAIN src /\ req.e \in 1 .. Len(g) /\ (~dup => Walked(g))
  BY <1>1 DEF HlsInv, Reading
<1>3. IsSeq(g) /\ Listed(r, g) /\ Counted(r, g) /\ (~dup => Mapped(r, g))
  BY <1>2 DEF HlsInv, Shape, Shelf
<1>4. /\ next # {} => n = req.e + 1 /\ req.e + 1 \in 1 .. Len(g)
      /\ at = {} => next = {}
      /\ Mapped(r, g) => IF at = {} THEN hit = {} ELSE hit = {g[req.e]}
  <2>1. \A y \in next : y = req.e + 1 /\ req.e + 1 \in 1 .. Len(g)
    BY <1>2, <1>3, WalkFinds
  <2>2. next # {} => n \in next
    <3> HIDE DEF next
    <3> QED  OBVIOUS
  <2>3. /\ at = {} => next = {}
        /\ Mapped(r, g) => IF at = {} THEN hit = {} ELSE hit = {g[req.e]}
    BY <1>2, <1>3, WalkFinds
  <2> HIDE DEF next, at, hit, n
  <2> QED  BY <2>1, <2>2, <2>3
<1>5. UNCHANGED <<keep, conns, src, segs, dup>>
  BY <1>1 DEF QuietR
<1>6. ~dup => IF at = {} THEN hit = {} ELSE hit # {} /\ x = g[req.e]
  <2> HIDE DEF hit, at
  <2> QED  BY <1>3, <1>4
<1>7. /\ DOMAIN req' = ReqFields /\ req'.s = req.s
      /\ req'.out = IF hit = {} THEN req.out ELSE Append(req.out, x)
      /\ req'.e = IF next = {} THEN 0 ELSE n
      /\ req'.pc = IF next = {} THEN "done" ELSE "walk"
      /\ req'.raced = (req.raced \/ Setting(req.s) \/ at = {})
  <2> HIDE DEF hit, at, next, n, x
  <2> QED  BY <1>1 DEF ReqFields
<1> HIDE DEF hit, at, next, n, x
<1>8. /\ Len(req.out) \in Nat /\ DOMAIN req.out = 1 .. Len(req.out)
      /\ Len(Append(req.out, x)) = Len(req.out) + 1 /\ IsSeq(Append(req.out, x))
      /\ Append(req.out, x)[Len(req.out) + 1] = x
      /\ \A i \in 1 .. Len(req.out) : Append(req.out, x)[i] = req.out[i]
      /\ \A i \in 1 .. Len(req.out) + 1 : i \in 1 .. Len(req.out) \/ i = Len(req.out) + 1
  BY <1>1 DEF IsSeq
<1>9. IsSeq(req'.out)
  BY <1>1, <1>7, <1>8
<1>10. ~dup => Walked(g)'
  <2> SUFFICES ASSUME ~dup PROVE Walked(g)'
    OBVIOUS
  <2>0. g' = g /\ Len(g) \in Nat /\ req.e \in Nat /\ g[req.e].seq = req.e
    BY <1>2, <1>3, <1>5, <1>7 DEF IsSeq, Counted
  <2>1. CASE at = {}
    <3>1. req'.out = req.out /\ req'.pc = "done"
      BY <1>4, <1>6, <1>7, <2>1
    <3> HIDE DEF g
    <3> QED  BY <1>2, <2>0, <3>1 DEF Walked
  <2>2. CASE at # {}
    <3> DEFINE k == Len(req.out)
    <3>1. req'.out = Append(req.out, x) /\ x = g[req.e] /\ x.seq = req.e
      BY <1>6, <1>7, <2>0, <2>2
    <3>2. Len(req'.out) = k + 1 /\ req'.out[k + 1] = x /\ k \in Nat
      BY <1>8, <3>1
    <3> HIDE DEF g
    <3>3. \A i \in 1 .. k : /\ req.out[i].seq \in 1 .. Len(g) /\ req.out[i] = g[req.out[i].seq]
                            /\ req.out[i].seq = req.out[1].seq + i - 1
      BY <1>2 DEF Walked
    <3>4. k > 0 => req.e = req.out[k].seq + 1
      BY <1>1, <1>2 DEF Walked
    <3>5. k > 0 => /\ 1 \in 1 .. k /\ k \in 1 .. k /\ req.out[1].seq \in Nat
                   /\ req.e = req.out[1].seq + (k + 1) - 1
      <4>1. k > 0 => 1 \in 1 .. k /\ k \in 1 .. k
        BY <3>2
      <4>2. k > 0 => req.out[1].seq \in Nat /\ req.out[k].seq = req.out[1].seq + k - 1
        BY <2>0, <3>3, <4>1
      <4> HIDE DEF k
      <4> QED  BY <3>2, <3>4, <4>1, <4>2
    <3>6. \A i \in 1 .. k : req'.out[i] = req.out[i]
      BY <1>8, <3>1
    <3>7. req'.out[1].seq = IF k > 0 THEN req.out[1].seq ELSE req.e
      <4>1. CASE k > 0
        BY <3>5, <3>6, <4>1
      <4>2. CASE ~(k > 0)
        <5>1. k + 1 = 1
          BY <3>2, <4>2
        <5> QED  BY <3>1, <3>2, <4>2, <5>1
      <4> QED  BY <4>1, <4>2
    <3>8. ASSUME NEW i \in 1 .. Len(req'.out)
          PROVE  /\ req'.out[i].seq \in 1 .. Len(g) /\ req'.out[i] = g[req'.out[i].seq]
                 /\ req'.out[i].seq = req'.out[1].seq + i - 1
      <4>1. CASE i \in 1 .. k
        <5>1. k > 0
          BY <3>2, <4>1
        <5> QED  BY <3>3, <3>6, <3>7, <4>1, <5>1
      <4>2. CASE i = k + 1
        <5>1. req'.out[i].seq = req.e /\ req'.out[i] = g[req.e]
          BY <3>1, <3>2, <4>2
        <5>2. req.e = req'.out[1].seq + i - 1
          <6>1. CASE k > 0
            BY <3>5, <3>7, <4>2, <6>1
          <6>2. CASE k = 0
            <7>1. i = 1
              BY <4>2, <6>2
            <7> QED  BY <2>0, <3>7, <6>2, <7>1
          <6> QED  BY <3>2, <6>1, <6>2
        <5> QED  BY <1>2, <5>1, <5>2 DEF g
      <4>3. i \in 1 .. k \/ i = k + 1
        BY <1>8, <3>2
      <4> QED  BY <4>1, <4>2, <4>3
    <3>9. req'.pc = "walk" => req'.e = req'.out[Len(req'.out)].seq + 1
      BY <1>4, <1>7, <3>1, <3>2
    <3> QED  BY <2>0, <3>8, <3>9 DEF Walked
  <2> QED  BY <2>1, <2>2
<1>11. Reading'
  <2>1. req'.pc \in {"walk", "done"} /\ req'.s \in DOMAIN src'
    BY <1>2, <1>5, <1>7
  <2>2. req'.pc = "walk" => req'.e \in 1 .. Len(segs'[req'.s])
    BY <1>4, <1>5, <1>7
  <2>3. req'.pc = "done" /\ ~dup' /\ req'.had /\ ~req'.raced => Len(req'.out) > 0
    <3>1. ~dup /\ ~req'.raced => req'.out = Append(req.out, x)
      BY <1>6, <1>7
    <3> QED  BY <1>5, <1>8, <3>1
  <2>4. ~dup' => Walked(segs[req.s])'
    BY <1>5, <1>10
  <2> QED  BY <2>1, <2>2, <2>3, <2>4 DEF Reading
<1> QED  BY <1>1, <1>7, <1>9, <1>11, RequestFrame

LEMMA SegmentStep == ASSUME HlsInv, ReqSegment PROVE HlsInv'
<1> DEFINE r == src[req.s]
           g == segs[req.s]
<1>1. PICK i \in DOMAIN req.out :
        LET found == \E x \in r.lm : x.name = req.out[i].name
        IN req' = [req EXCEPT !.pc = IF ~r.alloc THEN "panic" ELSE IF found THEN "served" ELSE "nokey",
                              !.e = req.out[i].seq]
  BY DEF ReqSegment
<1> DEFINE found == \E x \in r.lm : x.name = req.out[i].name
<1>2. /\ req.pc = "done" /\ QuietR /\ DOMAIN req = ReqFields /\ IsSeq(req.out)
  BY DEF ReqSegment, HlsInv, Shape
<1>3. /\ DOMAIN req' = ReqFields /\ req'.out = req.out /\ req'.s = req.s /\ req'.e = req.out[i].seq
      /\ req'.pc = IF ~r.alloc THEN "panic" ELSE IF found THEN "served" ELSE "nokey"
  <2> HIDE DEF r
  <2> QED  BY <1>1, <1>2 DEF ReqFields
<1>4. req.s \in DOMAIN src /\ (~dup => Walked(g)) /\ UNCHANGED <<keep, conns, src, segs, dup>>
  BY <1>2 DEF HlsInv, Reading, QuietR
<1>5. IsSeq(g) /\ Listed(r, g) /\ Counted(r, g) /\ Allocated(r) /\ (~dup => Mapped(r, g))
  BY <1>4 DEF HlsInv, Shape, Shelf
<1>6. ASSUME ~dup, ~found
      PROVE  req.out[i].seq \in Int /\ r.seq >= req.out[i].seq + CacheNum
  <2> DEFINE k == req.out[i].seq
             o == Gone(r, g)
  <2>1. k \in 1 .. Len(g) /\ req.out[i] = g[k]
    BY <1>2, <1>4, <1>6 DEF Walked, IsSeq
  <2>2. /\ Len(g) \in Nat /\ o \in Int /\ r.seq \in Nat /\ (o > 0 => r.seq >= o + CacheNum)
        /\ r.lm = {g[j] : j \in o + 1 .. Len(g)}
    <3> HIDE DEF r, g
    <3> QED  BY <1>5, <1>6 DEF IsSeq, Listed, Counted, Mapped, Gone
  <2> HIDE DEF r, g, o
  <2>3. k \notin o + 1 .. Len(g)
    <3>1. k \in o + 1 .. Len(g) => g[k] \in r.lm
      BY <2>2
    <3> QED  BY <1>6, <2>1, <3>1 DEF r
  <2> HIDE DEF k
  <2>4. k <= o /\ o > 0 /\ k \in Int
    BY <2>1, <2>2, <2>3
  <2>5. r.seq >= k + CacheNum
    BY <2>2, <2>4, HlsAssumption
  <2> QED  BY <2>4, <2>5 DEF k
<1>7. Reading'
  <2>1. req'.pc \in {"panic", "served", "nokey"} /\ req'.s \in DOMAIN src'
    BY <1>3, <1>4
  <2>2. req'.pc = "nokey" /\ ~dup' => req'.e \in Int /\ src'[req'.s].seq >= req'.e + CacheNum
    BY <1>3, <1>4, <1>6
  <2>3. req'.pc = "panic" => ~keep' /\ ~src'[req'.s].chan
    BY <1>3, <1>4, <1>5 DEF Allocated
  <2> QED  BY <2>1, <2>2, <2>3 DEF Reading
<1> QED  BY <1>2, <1>3, <1>7, RequestFrame

---------------------------------------------------------------------------

LEMMA HlsInductive ==
    /\ HlsInit => HlsInv
    /\ HlsInv /\ [HlsNext]_hlsVars => HlsInv'
<1>1. HlsInit => HlsInv
  <2> SUFFICES ASSUME HlsInit PROVE HlsInv
    OBVIOUS
  <2>1. /\ src = <<>> /\ segs = <<>> /\ conns = None /\ clk = 0 /\ req = NoReq
        /\ DOMAIN src = {} /\ IsSeq(src) /\ Len(src) = 0
    BY DEF HlsInit, IsSeq
  <2>2. Shape
    BY <2>1, NoReqIs DEF Shape
  <2>3. Shelf
    BY <2>1 DEF Shelf
  <2>4. Reading
    BY <2>1, NoReqIs DEF Reading
  <2> QED  BY <2>2, <2>3, <2>4 DEF HlsInv
<1>2. HlsInv /\ [HlsNext]_hlsVars => HlsInv'
  <2> SUFFICES ASSUME HlsInv, [HlsNext]_hlsVars PROVE HlsInv'
    OBVIOUS
  <2>1. ASSUME NEW l \in Loops, GetWriterLoad(l) \/ GetWriterStore(l) \/ Write(l) \/ DropRound(l)
                                \/ CloseInter(l) \/ CloseInterEnd(l) \/ CheckAlive(l)
        PROVE  HlsInv'
    BY <2>1, LoopStep, AddedSource
  <2>2. ASSUME NEW s \in Sources, SendPacket(s) PROVE HlsInv'
    BY <2>2, SendStep, CutStep, EvictStep, StoreStep DEF SendPacket
  <2>3. CASE CheckAliveEnd \/ (\E s \in Sources : CheckStop(s) \/ Timeout(s)) \/ UNCHANGED hlsVars
    BY <2>3, ServerStep
  <2>4. CASE Request
    BY <2>4, PlaylistStep, WalkStep, SegmentStep, EndStep DEF Request
  <2> QED  BY <2>1, <2>2, <2>3, <2>4 DEF HlsNext
<1> QED  BY <1>1, <1>2

\* A playlist that a request makes while SetItem adds and drops segments names
\* consecutive segments, whoever publishes whatever, and is not empty when
\* there are segments and none was added meanwhile.
THEOREM HlsPlaylistConsecutive == HlsSpec => []PlaylistConsecutive
<1>1. HlsInv => PlaylistConsecutive
  <2> SUFFICES ASSUME HlsInv, req.pc = "done", ~dup
               PROVE  /\ \A i \in DOMAIN req.out : req.out[i].seq = req.out[1].seq + i - 1
                      /\ req.had /\ ~req.raced => req.out # <<>>
    BY DEF PlaylistConsecutive
  <2>1. Walked(segs[req.s]) /\ DOMAIN req.out = 1 .. Len(req.out)
    BY DEF HlsInv, Reading, Shape, IsSeq
  <2>2. req.had /\ ~req.raced => Len(req.out) > 0
    BY DEF HlsInv, Reading
  <2>3. Len(<<>>) = 0
    OBVIOUS
  <2> QED  BY <2>1, <2>2, <2>3 DEF Walked
<1> QED  BY <1>1, HlsInductive, PTL DEF HlsSpec

\* A segment named by a playlist is refused only when CacheNum newer ones have
\* been made, and a request finds nil pointers only after cleanup.
THEOREM HlsListedIsServed == HlsSpec => []ListedIsServed
<1>1. HlsInv => ListedIsServed
  BY DEF HlsInv, Reading, ListedIsServed
<1> QED  BY <1>1, HlsInductive, PTL DEF HlsSpec

---------------------------------------------------------------------------
(* What the segments hold.                                                 *)

HFrames == [id : Nat, kind : Kinds \cup {"none"}, ms : Nat]

\* SendPacket has a packet in its hands.
Busy(r) == r.pc \in {"work", "evict", "store"}

\* The packets that are still to be muxed are in the order they were sent.
Coming(r) ==
    /\ \A i, j \in 1 .. Len(r.queue) : i < j => r.queue[i].id < r.queue[j].id
    /\ Busy(r) => \A i \in 1 .. Len(r.queue) : r.cur.id < r.queue[i].id

\* The frame x was sent before all of them.
Past(r, x) ==
    /\ Busy(r) => x.id < r.cur.id
    /\ \A i \in 1 .. Len(r.queue) : x.id < r.queue[i].id

\* The segment that is being made: its frames b and the cached audio a.
Started(r) ==
    IF r.open THEN Len(r.bts) > 0 /\ r.bts[1].kind = "key" ELSE Len(r.bts) = 0 /\ Len(r.audio) = 0
BtsInOrder(r) ==
    /\ \A m \in 1 .. Len(r.bts) : Past(r, r.bts[m]) /\ r.bts[m].id >= r.bts[1].id
    /\ InOrder(r.bts)
AudioInOrder(r) ==
    /\ \A m \in 1 .. Len(r.audio) :
         Past(r, r.audio[m]) /\ r.audio[m].id >= r.bts[1].id /\ r.audio[m].kind = "audio"
    /\ \A m, n \in 1 .. Len(r.audio) : m < n => r.audio[m].id < r.audio[n].id
    /\ \A m \in 1 .. Len(r.bts), n \in 1 .. Len(r.audio) :
         r.bts[m].kind = "audio" => r.bts[m].id < r.audio[n].id
Storing(r) ==
    r.pc \in {"evict", "store"} => r.item.data = r.bts /\ Len(r.audio) = 0 /\ r.cur.kind = "key" /\ r.open

\* A segment that has been cut, and two that follow each other.
GoodSegment(d) ==
    /\ d \in Seq(HFrames) /\ Len(d) > 0 /\ d[1].kind = "key"
    /\ \A m \in 1 .. Len(d) : d[m].id >= d[1].id
    /\ InOrder(d)
Sooner(d, e) == \A m \in 1 .. Len(d), n \in 1 .. Len(e) : d[m].id < e[n].id
Cuts(r, g) ==
    /\ \A j \in 1 .. Len(g) : GoodSegment(g[j].data)
    /\ \A j \in 1 .. Len(g) - 1 : Sooner(g[j].data, g[j + 1].data)
    /\ Len(g) > 0 => r.open /\ \A m \in 1 .. Len(g[Len(g)].data) : g[Len(g)].data[m].id < r.bts[1].id

Typed(r) ==
    /\ r.queue \in Seq(HFrames) /\ r.bts \in Seq(HFrames) /\ r.audio \in Seq(HFrames)
    /\ r.cur \in HFrames /\ r.open \in BOOLEAN

Whole(r, g) ==
    /\ Typed(r) /\ Coming(r) /\ Started(r) /\ BtsInOrder(r) /\ AudioInOrder(r) /\ Storing(r)
    /\ IsSeq(g) /\ Cuts(r, g)

\* The publisher has sent n packets.
Sent(r, n) ==
    /\ \A i \in 1 .. Len(r.queue) : r.queue[i].id <= n
    /\ Busy(r) => r.cur.id <= n
    /\ \A i \in 1 .. Len(r.bts) : r.bts[i].id <= n
    /\ \A i \in 1 .. Len(r.audio) : r.audio[i].id <= n

---------------------------------------------------------------------------
LEMMA Ids ==
    ASSUME NEW q \in Seq(HFrames)
    PROVE  Len(q) \in Nat /\ DOMAIN q = 1 .. Len(q) /\ \A i \in 1 .. Len(q) : q[i] \in HFrames /\ q[i].id \in Nat
<1>1. Len(q) \in Nat /\ DOMAIN q = 1 .. Len(q) /\ \A i \in 1 .. Len(q) : q[i] \in HFrames
  BY LenProperties, ElementOfSeq
<1>2. \A f \in HFrames : f.id \in Nat
  BY DEF HFrames
<1> QED BY <1>1, <1>2

LEMMA Joined ==
    ASSUME NEW x \in Seq(HFrames), NEW y \in Seq(HFrames)
    PROVE  /\ x \o y \in Seq(HFrames) /\ Len(x \o y) = Len(x) + Len(y)
           /\ \A i \in 1 .. Len(x) + Len(y) : (x \o y)[i] = IF i <= Len(x) THEN x[i] ELSE y[i - Len(x)]
  BY ConcatProperties

\* Nothing that matters here changes, or the packet in hand is done with.
LEMMA RestWhole ==
    ASSUME NEW r, NEW q, NEW g, Whole(r, g),
           q.queue = r.queue, q.bts = r.bts, q.audio = r.audio, q.open = r.open, q.item = r.item, q.cur \in HFrames,
           ~Busy(q) \/ (q.cur = r.cur /\ (q.pc = r.pc \/ (r.pc = "evict" /\ q.pc = "store")))
    PROVE  Whole(q, g) /\ \A n : Sent(r, n) => Sent(q, n)
<1>1. Typed(q)
  BY DEF Whole, Typed
<1>2. Busy(q) => Busy(r) /\ q.cur = r.cur
  BY DEF Busy
<1>3. Coming(q)
  BY <1>2 DEF Whole, Coming
<1>4. ASSUME NEW x, Past(r, x) PROVE Past(q, x)
  BY <1>2, <1>4 DEF Past
<1>5. Started(q)
  BY DEF Whole, Started
<1>6. BtsInOrder(q)
  BY <1>4 DEF Whole, BtsInOrder
<1>7. AudioInOrder(q)
  BY <1>4 DEF Whole, AudioInOrder
<1>8. Storing(q)
  BY DEF Whole, Storing, Busy
<1>9. Cuts(q, g)
  BY DEF Whole, Cuts
<1>10. \A n : Sent(r, n) => Sent(q, n)
  BY <1>2 DEF Sent
<1> QED BY <1>1, <1>3, <1>5, <1>6, <1>7, <1>8, <1>9, <1>10 DEF Whole

\* SendPacket takes the first packet of the queue.
LEMMA RecvWhole ==
    ASSUME NEW r, NEW q, NEW g, Whole(r, g), r.queue # <<>>, ~Busy(r),
           q.queue = Tail(r.queue), q.cur = Head(r.queue), q.pc = "work",
           q.bts = r.bts, q.audio = r.audio, q.open = r.open
    PROVE  Whole(q, g) /\ \A n : Sent(r, n) => Sent(q, n)
<1>1. r.queue \in Seq(HFrames)
  BY DEF Whole, Typed
<1>2. /\ q.queue \in Seq(HFrames) /\ Len(q.queue) = Len(r.queue) - 1 /\ q.cur = r.queue[1]
      /\ \A i \in 1 .. Len(q.queue) : q.queue[i] = r.queue[i + 1]
  BY <1>1, HeadTailProperties
<1>3. Len(r.queue) \in Nat /\ Len(r.queue) > 0 /\ \A i \in 1 .. Len(r.queue) : r.queue[i] \in HFrames
  BY <1>1, EmptySeq, ElementOfSeq
<1>4. 1 \in 1 .. Len(r.queue) /\ \A i \in 1 .. Len(q.queue) : i \in Nat /\ 1 < i + 1 /\ i + 1 \in 1 .. Len(r.queue)
  BY <1>2, <1>3
<1>5. Typed(q)
  BY <1>2, <1>3, <1>4 DEF Whole, Typed
<1>6. Coming(q)
  <2>1. \A i \in 1 .. Len(q.queue) : q.cur.id < q.queue[i].id
    BY <1>2, <1>4 DEF Whole, Coming
  <2>2. \A i, j \in 1 .. Len(q.queue) : i < j => i + 1 < j + 1
    BY <1>4
  <2>3. \A i, j \in 1 .. Len(q.queue) : i < j => q.queue[i].id < q.queue[j].id
    BY <1>2, <1>4, <2>2 DEF Whole, Coming
  <2> QED BY <2>1, <2>3 DEF Coming
<1>7. ASSUME NEW x, Past(r, x) PROVE Past(q, x)
  BY <1>2, <1>4, <1>7 DEF Past
<1>8. Started(q)
  BY DEF Whole, Started
<1>9. BtsInOrder(q)
  BY <1>7 DEF Whole, BtsInOrder
<1>10. AudioInOrder(q)
  BY <1>7 DEF Whole, AudioInOrder
<1>11. Storing(q)
  BY DEF Storing
<1>12. Cuts(q, g)
  BY DEF Whole, Cuts
<1>13. \A n : Sent(r, n) => Sent(q, n)
  BY <1>2, <1>4 DEF Sent
<1> QED BY <1>5, <1>6, <1>8, <1>9, <1>10, <1>11, <1>12, <1>13 DEF Whole

\* Write puts the next packet of the publisher into the queue.
LEMMA WriteWhole ==
    ASSUME NEW r, NEW q, NEW g, Whole(r, g), NEW f \in HFrames, NEW n \in Nat, Sent(r, n), f.id = n + 1,
           q.queue = Append(r.queue, f), q.cur = r.cur, q.pc = r.pc, q.item = r.item,
           q.bts = r.bts, q.audio = r.audio, q.open = r.open
    PROVE  Whole(q, g) /\ Sent(q, n + 1)
<1>1. /\ r.queue \in Seq(HFrames) /\ r.bts \in Seq(HFrames) /\ r.audio \in Seq(HFrames) /\ r.cur \in HFrames
  BY DEF Whole, Typed
<1>2. /\ q.queue \in Seq(HFrames) /\ Len(q.queue) = Len(r.queue) + 1 /\ q.queue[Len(r.queue) + 1] = f
      /\ \A i \in 1 .. Len(r.queue) : q.queue[i] = r.queue[i]
  BY <1>1, AppendProperties
<1>3. Len(r.queue) \in Nat /\ (\A i \in 1 .. Len(r.queue) : r.queue[i].id \in Nat) /\ r.cur.id \in Nat
  BY <1>1, Ids DEF HFrames
<1>4. \A i \in 1 .. Len(q.queue) : i \in 1 .. Len(r.queue) \/ i = Len(r.queue) + 1
  BY <1>2, <1>3
<1>5. \A i \in 1 .. Len(q.queue) : q.queue[i] = IF i \in 1 .. Len(r.queue) THEN r.queue[i] ELSE f
  BY <1>2, <1>4
<1>6. \A i \in 1 .. Len(r.queue) : r.queue[i].id < f.id /\ r.queue[i].id <= n
  BY <1>3 DEF Sent
<1>7. Busy(q) = Busy(r)
  BY DEF Busy
<1>8. Coming(q)
  <2>1. \A i, j \in 1 .. Len(q.queue) : i < j => q.queue[i].id < q.queue[j].id
    <3> SUFFICES ASSUME NEW i \in 1 .. Len(q.queue), NEW j \in 1 .. Len(q.queue), i < j
                 PROVE  q.queue[i].id < q.queue[j].id
      OBVIOUS
    <3>1. i \in 1 .. Len(r.queue)
      BY <1>2, <1>3
    <3>2. CASE j \in 1 .. Len(r.queue)
      BY <3>1, <3>2, <1>2 DEF Whole, Coming
    <3>3. CASE j = Len(r.queue) + 1
      BY <3>1, <3>3, <1>2, <1>6
    <3> QED BY <3>2, <3>3, <1>4
  <2>2. Busy(q) => \A i \in 1 .. Len(q.queue) : q.cur.id < q.queue[i].id
    <3>1. Busy(q) => q.cur.id < f.id
      BY <1>3, <1>7 DEF Sent
    <3>2. Busy(q) => \A i \in 1 .. Len(r.queue) : q.cur.id < r.queue[i].id
      BY <1>7 DEF Whole, Coming
    <3> QED BY <3>1, <3>2, <1>5
  <2> QED BY <2>1, <2>2 DEF Coming
<1>9. ASSUME NEW x, x.id \in Nat, x.id <= n, Past(r, x) PROVE Past(q, x)
  <2>1. x.id < f.id
    BY <1>9
  <2> QED BY <2>1, <1>5, <1>7, <1>9 DEF Past
<1>10. \A m \in 1 .. Len(r.bts) : r.bts[m].id \in Nat /\ r.bts[m].id <= n
  BY <1>1, Ids DEF Sent
<1>11. \A m \in 1 .. Len(r.audio) : r.audio[m].id \in Nat /\ r.audio[m].id <= n
  BY <1>1, Ids DEF Sent
<1>12. BtsInOrder(q)
  BY <1>9, <1>10 DEF Whole, BtsInOrder
<1>13. AudioInOrder(q)
  BY <1>9, <1>11 DEF Whole, AudioInOrder
<1>14. Typed(q) /\ Started(q) /\ Storing(q) /\ Cuts(q, g)
  BY <1>2 DEF Whole, Typed, Started, Storing, Cuts
<1>15. Sent(q, n + 1)
  <2>1. \A i \in 1 .. Len(q.queue) : q.queue[i].id <= n + 1
    <3>1. \A i \in 1 .. Len(r.queue) : r.queue[i].id <= n + 1
      BY <1>3, <1>6
    <3>2. f.id <= n + 1
      OBVIOUS
    <3> QED BY <1>5, <3>1, <3>2
  <2>2. Busy(q) => q.cur.id <= n + 1
    BY <1>3, <1>7 DEF Sent
  <2>3. /\ \A i \in 1 .. Len(q.bts) : q.bts[i].id <= n + 1
        /\ \A i \in 1 .. Len(q.audio) : q.audio[i].id <= n + 1
    BY <1>10, <1>11
  <2> QED BY <2>1, <2>2, <2>3 DEF Sent
<1> QED BY <1>8, <1>12, <1>13, <1>14, <1>15 DEF Whole

\* Video goes to btswriter.
LEMMA VideoWhole ==
    ASSUME NEW r, NEW q, NEW g, Whole(r, g), r.pc = "work", r.cur.kind # "audio", r.open \/ r.cur.kind = "key",
           q.bts = Append(r.bts, r.cur), q.audio = r.audio, q.queue = r.queue, q.open = TRUE, ~Busy(q),
           q.cur \in HFrames
    PROVE  Whole(q, g) /\ \A n : Sent(r, n) => Sent(q, n)
<1> DEFINE f == r.cur
           b == Len(r.bts)
<1>1. /\ r.bts \in Seq(HFrames) /\ r.audio \in Seq(HFrames) /\ r.queue \in Seq(HFrames) /\ f \in HFrames
  BY DEF Whole, Typed
<1>2. /\ q.bts \in Seq(HFrames) /\ Len(q.bts) = b + 1 /\ q.bts[b + 1] = f
      /\ \A i \in 1 .. b : q.bts[i] = r.bts[i]
  BY <1>1, AppendProperties
<1>3. /\ b \in Nat /\ DOMAIN r.bts = 1 .. b /\ DOMAIN q.bts = 1 .. b + 1
      /\ (\A i \in 1 .. b : r.bts[i].id \in Nat) /\ f.id \in Nat
  <2>1. b \in Nat /\ DOMAIN r.bts = 1 .. b /\ \A i \in 1 .. b : r.bts[i].id \in Nat
    BY <1>1, Ids
  <2>2. DOMAIN q.bts = 1 .. Len(q.bts)
    BY <1>2, Ids
  <2>3. f.id \in Nat
    BY <1>1 DEF HFrames
  <2> QED BY <2>1, <2>2, <2>3, <1>2
<1>4. Busy(r)
  BY DEF Busy
<1>5. \A m \in 1 .. b : r.bts[m].id < f.id
  BY <1>4 DEF Whole, BtsInOrder, Past
<1>6. (b > 0 => 1 \in 1 .. b) /\ (r.open <=> b > 0)
  BY <1>3 DEF Whole, Started
<1>7. q.bts[1] = IF b > 0 THEN r.bts[1] ELSE f
  <2>1. CASE b > 0
    BY <2>1, <1>2, <1>6
  <2>2. CASE b = 0
    BY <2>2, <1>2
  <2> QED BY <2>1, <2>2, <1>3
<1>8. \A m \in 1 .. Len(q.bts) : m \in 1 .. b \/ m = b + 1
  BY <1>2, <1>3
<1>9. ASSUME NEW x, Past(r, x) PROVE Past(q, x)
  BY <1>9 DEF Past
<1>10. Past(q, f)
  BY <1>4 DEF Whole, Coming, Past
<1> HIDE DEF f, b
<1>11. Typed(q) /\ Coming(q) /\ Storing(q)
  BY <1>1, <1>2 DEF Whole, Typed, Coming, Storing, Busy
<1>12. Started(q)
  BY <1>2, <1>3, <1>6, <1>7 DEF Whole, Started, f, b
<1>13. BtsInOrder(q)
  <2>1. ASSUME NEW m \in 1 .. Len(q.bts) PROVE Past(q, q.bts[m]) /\ q.bts[m].id >= q.bts[1].id
    <3>1. CASE m \in 1 .. b
      <4>1. Past(r, r.bts[m]) /\ r.bts[m].id >= r.bts[1].id /\ b > 0
        BY <3>1, <1>3 DEF Whole, BtsInOrder, b
      <4> QED BY <3>1, <4>1, <1>2, <1>7, <1>9
    <3>2. CASE m = b + 1
      BY <3>2, <1>2, <1>3, <1>5, <1>6, <1>7, <1>10
    <3> QED BY <3>1, <3>2, <1>8
  <2>2. InOrder(q.bts)
    <3>1. InOrder(r.bts)
      BY DEF Whole, BtsInOrder
    <3> SUFFICES ASSUME NEW m \in 1 .. b + 1, NEW n \in 1 .. b + 1, m < n,
                        (q.bts[m].kind = "audio") <=> (q.bts[n].kind = "audio")
                 PROVE  q.bts[m].id < q.bts[n].id
      BY <1>3 DEF InOrder
    <3>2. m \in 1 .. b
      BY <1>3
    <3>3. CASE n \in 1 .. b
      BY <3>1, <3>2, <3>3, <1>2, <1>3 DEF InOrder
    <3>4. CASE n = b + 1
      BY <3>2, <3>4, <1>2, <1>5
    <3> QED BY <3>3, <3>4, <1>2, <1>8
  <2> QED BY <2>1, <2>2 DEF BtsInOrder
<1>14. AudioInOrder(q)
  <2>1. Len(r.audio) = 0 \/ q.bts[1] = r.bts[1]
    BY <1>6, <1>7 DEF Whole, Started
  <2>2. \A m \in 1 .. Len(q.audio) :
          Past(q, q.audio[m]) /\ q.audio[m].id >= q.bts[1].id /\ q.audio[m].kind = "audio"
    BY <2>1, <1>9 DEF Whole, AudioInOrder
  <2>3. \A m \in 1 .. Len(q.bts), n \in 1 .. Len(q.audio) :
          q.bts[m].kind = "audio" => q.bts[m].id < q.audio[n].id
    BY <1>2, <1>8 DEF Whole, AudioInOrder, f, b
  <2> QED BY <2>2, <2>3 DEF Whole, AudioInOrder
<1>15. Cuts(q, g)
  BY <1>6, <1>7 DEF Whole, Cuts
<1>16. \A n : Sent(r, n) => Sent(q, n)
  BY <1>2, <1>4, <1>8 DEF Sent, f, b
<1> QED BY <1>11, <1>12, <1>13, <1>14, <1>15, <1>16 DEF Whole

\* Audio is cached.
LEMMA AudioWhole ==
    ASSUME NEW r, NEW q, NEW g, Whole(r, g), r.pc = "work", r.cur.kind = "audio", r.open,
           q.audio = Append(r.audio, r.cur), q.bts = r.bts, q.queue = r.queue, q.open = r.open, ~Busy(q),
           q.cur \in HFrames
    PROVE  Whole(q, g) /\ \A n : Sent(r, n) => Sent(q, n)
<1> DEFINE f == r.cur
           a == Len(r.audio)
<1>1. /\ r.bts \in Seq(HFrames) /\ r.audio \in Seq(HFrames) /\ r.queue \in Seq(HFrames) /\ f \in HFrames
  BY DEF Whole, Typed
<1>2. /\ q.audio \in Seq(HFrames) /\ Len(q.audio) = a + 1 /\ q.audio[a + 1] = f
      /\ \A i \in 1 .. a : q.audio[i] = r.audio[i]
  BY <1>1, AppendProperties
<1>3. /\ a \in Nat /\ (\A i \in 1 .. Len(r.bts) : r.bts[i].id \in Nat) /\ f.id \in Nat /\ Len(r.bts) \in Nat
  BY <1>1, Ids DEF HFrames
<1>4. Busy(r) /\ 1 \in 1 .. Len(r.bts)
  BY <1>3 DEF Busy, Whole, Started
<1>5. (\A m \in 1 .. a : r.audio[m].id < f.id) /\ \A m \in 1 .. Len(r.bts) : r.bts[m].id < f.id
  BY <1>4 DEF Whole, BtsInOrder, AudioInOrder, Past
<1>6. \A m \in 1 .. Len(q.audio) : m \in 1 .. a \/ m = a + 1
  BY <1>2, <1>3
<1>7. ASSUME NEW x, Past(r, x) PROVE Past(q, x)
  BY <1>7 DEF Past
<1>8. Past(q, f)
  BY <1>4 DEF Whole, Coming, Past
<1>9. f.id >= r.bts[1].id
  BY <1>3, <1>4, <1>5
<1> HIDE DEF f, a
<1>10. Typed(q) /\ Coming(q) /\ Storing(q)
  BY <1>1, <1>2 DEF Whole, Typed, Coming, Storing, Busy
<1>11. Started(q) /\ Cuts(q, g)
  BY DEF Whole, Started, Cuts
<1>12. BtsInOrder(q)
  BY <1>7 DEF Whole, BtsInOrder
<1>13. AudioInOrder(q)
  <2>1. ASSUME NEW m \in 1 .. Len(q.audio)
        PROVE  Past(q, q.audio[m]) /\ q.audio[m].id >= q.bts[1].id /\ q.audio[m].kind = "audio"
    <3>1. CASE m \in 1 .. a
      BY <3>1, <1>2, <1>7 DEF Whole, AudioInOrder, a
    <3>2. CASE m = a + 1
      BY <3>2, <1>2, <1>8, <1>9 DEF f
    <3> QED BY <3>1, <3>2, <1>6
  <2>2. ASSUME NEW m \in 1 .. Len(q.audio), NEW n \in 1 .. Len(q.audio), m < n
        PROVE  q.audio[m].id < q.audio[n].id
    <3>1. m \in 1 .. a
      BY <2>2, <1>2, <1>3
    <3>2. CASE n \in 1 .. a
      BY <2>2, <3>1, <3>2, <1>2 DEF Whole, AudioInOrder, a
    <3>3. CASE n = a + 1
      BY <3>1, <3>3, <1>2, <1>5
    <3> QED BY <3>2, <3>3, <1>6
  <2>3. \A m \in 1 .. Len(q.bts), n \in 1 .. Len(q.audio) :
          q.bts[m].kind = "audio" => q.bts[m].id < q.audio[n].id
    BY <1>2, <1>5, <1>6 DEF Whole, AudioInOrder, a
  <2> QED BY <2>1, <2>2, <2>3 DEF AudioInOrder
<1>14. \A n : Sent(r, n) => Sent(q, n)
  BY <1>2, <1>4, <1>6 DEF Sent, f, a
<1> QED BY <1>10, <1>11, <1>12, <1>13, <1>14 DEF Whole

\* The cached audio goes to btswriter, because there is enough of it or
\* because the segment is complete.
LEMMA FlushWhole ==
    ASSUME NEW r, NEW q, NEW g, Whole(r, g), r.open,
           q.bts = r.bts \o r.audio, q.audio = <<>>, q.queue = r.queue, q.open = r.open, q.cur = r.cur,
           \/ ~Busy(q)
           \/ r.pc = "work" /\ q.pc = "evict" /\ q.item.data = q.bts /\ r.cur.kind = "key"
    PROVE  Whole(q, g) /\ \A n : Sent(r, n) => Sent(q, n)
<1> DEFINE b == Len(r.bts)
           a == Len(r.audio)
<1>1. /\ r.bts \in Seq(HFrames) /\ r.audio \in Seq(HFrames)
  BY DEF Whole, Typed
<1>2. /\ q.bts \in Seq(HFrames) /\ Len(q.bts) = b + a
      /\ (\A i \in 1 .. b : q.bts[i] = r.bts[i])
      /\ \A i \in b + 1 .. b + a : q.bts[i] = r.audio[i - b]
  <2>1. /\ r.bts \o r.audio \in Seq(HFrames) /\ Len(r.bts \o r.audio) = Len(r.bts) + Len(r.audio)
        /\ \A i \in 1 .. Len(r.bts) + Len(r.audio) :
             (r.bts \o r.audio)[i] = IF i <= Len(r.bts) THEN r.bts[i] ELSE r.audio[i - Len(r.bts)]
    BY <1>1, Joined
  <2>2. b \in Nat /\ a \in Nat
    BY <1>1
  <2>3. \A i \in 1 .. b : i \in 1 .. b + a /\ i <= b
    <3> HIDE DEF a, b
    <3> QED BY <2>2
  <2>4. \A i \in b + 1 .. b + a : i \in 1 .. b + a /\ ~(i <= b)
    <3> HIDE DEF a, b
    <3> QED BY <2>2
  <2> QED BY <2>1, <2>3, <2>4
<1>3. /\ b \in Nat /\ a \in Nat /\ DOMAIN q.bts = 1 .. b + a /\ DOMAIN r.bts = 1 .. b
  <2>1. b \in Nat /\ DOMAIN r.bts = 1 .. b
    BY <1>1, Ids
  <2>2. a \in Nat
    BY <1>1, Ids
  <2>3. DOMAIN q.bts = 1 .. Len(q.bts)
    BY <1>2, Ids
  <2> QED BY <2>1, <2>2, <2>3, <1>2
<1>4. 1 \in 1 .. b /\ q.bts[1] = r.bts[1] /\ b > 0
  <2>1. b > 0
    BY DEF Whole, Started
  <2> HIDE DEF a, b
  <2>2. 1 \in 1 .. b
    BY <2>1, <1>3
  <2> QED BY <2>1, <2>2, <1>2
<1>5. \A m \in 1 .. b + a : m \in 1 .. b \/ (m \in b + 1 .. b + a /\ m - b \in 1 .. a)
  <2> HIDE DEF a, b
  <2> QED BY <1>3
<1>6. Busy(q) => Busy(r)
  BY DEF Busy
<1>7. ASSUME NEW x, Past(r, x) PROVE Past(q, x)
  BY <1>6, <1>7 DEF Past
<1>8. Len(q.audio) = 0 /\ q.audio \in Seq(HFrames) /\ 1 .. Len(q.audio) = {}
  OBVIOUS
<1> HIDE DEF b, a
<1>9. Typed(q) /\ Coming(q)
  BY <1>2, <1>6, <1>8 DEF Whole, Typed, Coming
<1>10. Storing(q)
  BY <1>8 DEF Storing, Busy
<1>11. Started(q) /\ Cuts(q, g)
  BY <1>2, <1>3, <1>4 DEF Whole, Started, Cuts
<1>12. BtsInOrder(q)
  <2>1. ASSUME NEW m \in 1 .. Len(q.bts) PROVE Past(q, q.bts[m]) /\ q.bts[m].id >= q.bts[1].id
    <3>1. CASE m \in 1 .. b
      BY <3>1, <1>2, <1>4, <1>7 DEF Whole, BtsInOrder, b
    <3>2. CASE m \in b + 1 .. b + a /\ m - b \in 1 .. a
      BY <3>2, <1>2, <1>4, <1>7 DEF Whole, AudioInOrder, a
    <3> QED BY <3>1, <3>2, <1>2, <1>5
  <2>2. InOrder(q.bts)
    <3>1. InOrder(r.bts)
      BY DEF Whole, BtsInOrder
    <3> SUFFICES ASSUME NEW m \in 1 .. b + a, NEW n \in 1 .. b + a, m < n,
                        (q.bts[m].kind = "audio") <=> (q.bts[n].kind = "audio")
                 PROVE  q.bts[m].id < q.bts[n].id
      BY <1>3 DEF InOrder
    <3>2. CASE n \in 1 .. b
      <4>1. m \in 1 .. b
        BY <3>2, <1>3
      <4> QED BY <3>1, <3>2, <4>1, <1>2, <1>3 DEF InOrder
    <3>3. CASE n \in b + 1 .. b + a /\ n - b \in 1 .. a
      <4>1. q.bts[n] = r.audio[n - b] /\ q.bts[n].kind = "audio"
        BY <3>3, <1>2 DEF Whole, AudioInOrder, a
      <4>2. CASE m \in 1 .. b
        BY <3>3, <4>1, <4>2, <1>2 DEF Whole, AudioInOrder, a, b
      <4>3. CASE m \in b + 1 .. b + a /\ m - b \in 1 .. a
        <5>1. m - b < n - b
          BY <1>3
        <5>2. q.bts[m] = r.audio[m - b]
          BY <4>3, <1>2
        <5>3. \A i, j \in 1 .. a : i < j => r.audio[i].id < r.audio[j].id
          BY DEF Whole, AudioInOrder, a
        <5> QED BY <3>3, <4>1, <4>3, <5>1, <5>2, <5>3
      <4> QED BY <4>2, <4>3, <1>5
    <3> QED BY <3>2, <3>3, <1>5
  <2> QED BY <2>1, <2>2 DEF BtsInOrder
<1>13. AudioInOrder(q)
  BY <1>8 DEF AudioInOrder
<1>14. ASSUME NEW n, Sent(r, n) PROVE Sent(q, n)
  <2>1. \A i \in 1 .. Len(q.bts) : q.bts[i].id <= n
    BY <1>2, <1>5, <1>14 DEF Sent, a, b
  <2> QED BY <2>1, <1>6, <1>8, <1>14 DEF Sent
<1> QED BY <1>9, <1>10, <1>11, <1>12, <1>13, <1>14 DEF Whole

\* The segment is stored and the key frame in hand starts the next.
LEMMA StoreWhole ==
    ASSUME NEW r, NEW q, NEW g, Whole(r, g), r.pc = "store",
           q.bts = <<r.cur>>, q.audio = <<>>, q.queue = r.queue, q.open = TRUE, ~Busy(q), q.cur \in HFrames
    PROVE  Whole(q, Append(g, r.item)) /\ \A n : Sent(r, n) => Sent(q, n)
<1> DEFINE f == r.cur
           k == Len(g)
           h == Append(g, r.item)
<1>1. /\ r.bts \in Seq(HFrames) /\ f \in HFrames /\ IsSeq(g) /\ Busy(r) /\ f.kind = "key"
      /\ r.item.data = r.bts /\ r.open
  BY DEF Whole, Typed, Busy, Storing
<1>2. k \in Nat /\ DOMAIN g = 1 .. k
  BY <1>1 DEF IsSeq
<1>3. IsSeq(h) /\ Len(h) = k + 1 /\ h[k + 1] = r.item /\ \A i \in 1 .. k : h[i] = g[i]
  BY <1>2 DEF IsSeq
<1>4. Len(q.bts) = 1 /\ q.bts[1] = f /\ q.bts \in Seq(HFrames) /\ 1 .. Len(q.bts) = {1} /\ DOMAIN q.bts = {1}
  BY <1>1
<1>5. Len(q.audio) = 0 /\ q.audio \in Seq(HFrames) /\ 1 .. Len(q.audio) = {}
  OBVIOUS
<1>6. f.id \in Nat /\ Len(r.bts) \in Nat /\ (\A m \in 1 .. Len(r.bts) : r.bts[m].id \in Nat)
  <2>1. f.id \in Nat
    BY <1>1 DEF HFrames
  <2> QED BY <2>1, <1>1, Ids
<1>7. Typed(q) /\ Coming(q) /\ Storing(q) /\ Started(q) /\ AudioInOrder(q)
  <2>1. Typed(q)
    BY <1>4, <1>5 DEF Whole, Typed
  <2>2. Coming(q) /\ Storing(q)
    BY DEF Whole, Coming, Storing, Busy
  <2>3. Started(q)
    BY <1>1, <1>4 DEF Started
  <2>4. AudioInOrder(q)
    BY <1>5 DEF AudioInOrder
  <2> QED BY <2>1, <2>2, <2>3, <2>4
<1>8. BtsInOrder(q)
  <2>1. Past(q, f)
    BY <1>1 DEF Whole, Coming, Past
  <2>2. InOrder(q.bts)
    BY <1>4 DEF InOrder
  <2> QED BY <2>1, <2>2, <1>4, <1>6 DEF BtsInOrder
<1>9. Cuts(q, h)
  <2>1. GoodSegment(r.bts)
    BY <1>1, <1>6 DEF Whole, Started, BtsInOrder, GoodSegment
  <2>2. \A m \in 1 .. Len(r.bts) : r.bts[m].id < f.id /\ r.bts[1].id <= r.bts[m].id
    <3>1. \A m \in 1 .. Len(r.bts) : r.bts[m].id < f.id /\ r.bts[m].id >= r.bts[1].id /\ 1 \in 1 .. Len(r.bts)
      BY <1>1, <1>6 DEF Whole, BtsInOrder, Past
    <3> QED BY <3>1, <1>6
  <2>3. ASSUME k > 0 PROVE Sooner(g[k].data, r.bts)
    <3>1. k \in 1 .. k /\ \A m \in 1 .. Len(g[k].data) : g[k].data[m].id < r.bts[1].id
      BY <2>3, <1>2 DEF Whole, Cuts
    <3>2. \A m \in 1 .. Len(g[k].data) : g[k].data[m].id \in Nat
      <4>1. g[k].data \in Seq(HFrames)
        BY <3>1 DEF Whole, Cuts, GoodSegment
      <4> HIDE DEF k
      <4> QED BY <4>1, Ids
    <3>3. \A n \in 1 .. Len(r.bts) : r.bts[n].id \in Nat /\ r.bts[1].id \in Nat /\ r.bts[1].id <= r.bts[n].id
      BY <1>6, <2>2
    <3> HIDE DEF k
    <3> QED BY <3>1, <3>2, <3>3 DEF Sooner
  <2> HIDE DEF k, h, f
  <2>4. \A j \in 1 .. Len(h) : GoodSegment(h[j].data)
    <3>1. \A j \in 1 .. k : GoodSegment(g[j].data)
      BY DEF Whole, Cuts, k
    <3>2. \A j \in 1 .. Len(h) : j \in 1 .. k \/ j = k + 1
      BY <1>2, <1>3
    <3> QED BY <2>1, <3>1, <3>2, <1>1, <1>3
  <2>5. \A j \in 1 .. Len(h) - 1 : Sooner(h[j].data, h[j + 1].data)
    <3> SUFFICES ASSUME NEW j \in 1 .. k PROVE Sooner(h[j].data, h[j + 1].data)
      BY <1>2, <1>3
    <3>1. CASE j = k
      <4>1. k > 0
        BY <1>2
      <4> QED BY <3>1, <4>1, <2>3, <1>1, <1>3
    <3>2. CASE j # k
      <4>1. j \in 1 .. k - 1 /\ j + 1 \in 1 .. k
        BY <3>2, <1>2
      <4>2. Sooner(g[j].data, g[j + 1].data)
        BY <4>1 DEF Whole, Cuts, k
      <4> QED BY <4>1, <4>2, <1>3
    <3> QED BY <3>1, <3>2
  <2>6. \A m \in 1 .. Len(h[Len(h)].data) : h[Len(h)].data[m].id < q.bts[1].id
    BY <2>2, <1>1, <1>3, <1>4
  <2> QED BY <2>4, <2>5, <2>6 DEF Cuts
<1>10. \A n : Sent(r, n) => Sent(q, n)
  BY <1>1, <1>4, <1>5 DEF Sent
<1> QED BY <1>3, <1>7, <1>8, <1>9, <1>10 DEF Whole

---------------------------------------------------------------------------
(* What SendPacket does to its Source.                                     *)

\* What one step may make of the Source r that has cut the segments g.
Follows(r, g, q, h) == Whole(q, h) /\ \A n : Sent(r, n) => Sent(q, n)

LEMMA NoFrameIs == NoFrame \in HFrames
  BY DEF NoFrame, HFrames

\* The packet in hand, if any, is dropped, or nothing that matters changes.
Resting(r, q) ==
    /\ q.queue = r.queue /\ q.bts = r.bts /\ q.audio = r.audio /\ q.open = r.open /\ q.item = r.item
    /\ q.cur \in {r.cur, NoFrame}
    /\ ~Busy(q) \/ (q.cur = r.cur /\ (q.pc = r.pc \/ (r.pc = "evict" /\ q.pc = "store")))

LEMMA RestingFollows ==
    ASSUME NEW r, NEW q, NEW g, Whole(r, g), Resting(r, q)
    PROVE  Follows(r, g, q, g)
<1>1. q.cur \in HFrames
  BY NoFrameIs DEF Resting, Whole, Typed
<1> QED BY <1>1, RestWhole DEF Resting, Follows

LEMMA EndResting ==
    ASSUME NEW r, DOMAIN r = Fields
    PROVE  /\ Resting(r, r) /\ Resting(r, Again(r)) /\ Resting(r, Failed(r)) /\ Resting(r, Panics(r))
           /\ Resting(r, [r EXCEPT !.closed = TRUE]) /\ Resting(r, [r EXCEPT !.chan = FALSE, !.alloc = FALSE])
           /\ Resting(r, Again([r EXCEPT !.conf = TRUE]))
<1>1. Resting(r, r)
  BY DEF Resting
<1>2. Resting(r, Again(r))
  BY DEF Resting, Again, Busy, Fields
<1>3. Resting(r, Failed(r))
  BY DEF Resting, Failed, Busy, Fields
<1>4. Resting(r, Panics(r))
  BY DEF Resting, Panics, Busy, Fields
<1>5. Resting(r, [r EXCEPT !.closed = TRUE])
  BY DEF Resting, Fields
<1>6. Resting(r, [r EXCEPT !.chan = FALSE, !.alloc = FALSE])
  BY DEF Resting, Fields
<1>7. Resting(r, Again([r EXCEPT !.conf = TRUE]))
  BY DEF Resting, Again, Busy, Fields
<1> QED BY <1>1, <1>2, <1>3, <1>4, <1>5, <1>6, <1>7

\* The four outcomes of tsMux.
Ready(r, q) == q.queue = r.queue /\ q.open = r.open /\ q.item = r.item /\ q.pc = "top" /\ q.cur = NoFrame
Skipped(r, q) == ~r.open /\ q.bts = r.bts /\ q.audio = r.audio
Shown(r, q)   == r.open /\ r.cur.kind # "audio" /\ q.bts = Append(r.bts, r.cur) /\ q.audio = r.audio
Cached(r, q)  == r.open /\ r.cur.kind = "audio" /\ q.bts = r.bts /\ q.audio = Append(r.audio, r.cur)
Flushed(r, q) == r.open /\ r.cur.kind = "audio" /\ q.bts = r.bts \o Append(r.audio, r.cur) /\ q.audio = <<>>

LEMMA MuxMakes ==
    ASSUME NEW r, DOMAIN r = Fields
    PROVE  /\ Ready(r, Mux(r))
           /\ Skipped(r, Mux(r)) \/ Shown(r, Mux(r)) \/ Cached(r, Mux(r)) \/ Flushed(r, Mux(r))
<1> DEFINE f == r.cur
           u == [r EXCEPT !.hasFirst = TRUE, !.first = IF r.hasFirst THEN @ ELSE f.ms, !.last = f.ms]
           a == [u EXCEPT !.audio = Append(@, f)]
           b == [u EXCEPT !.bts = Append(@, f)]
           Like(q) == DOMAIN q = Fields /\ q.queue = r.queue /\ q.open = r.open /\ q.item = r.item
<1>1. Like(u) /\ u.bts = r.bts /\ u.audio = r.audio
  BY DEF Fields
<1>2. /\ Like(a) /\ a.bts = r.bts /\ a.audio = Append(r.audio, f)
      /\ Like(b) /\ b.bts = Append(r.bts, f) /\ b.audio = r.audio
  <2> HIDE DEF u
  <2> QED BY <1>1 DEF Fields
<1>3. LET c == FlushAudio(a) IN Like(c) /\ c.bts = r.bts \o Append(r.audio, f) /\ c.audio = <<>>
  <2> HIDE DEF a
  <2> QED BY <1>2 DEF FlushAudio, Fields
<1>4. ASSUME NEW q, Like(q) PROVE Ready(r, Again(q)) /\ Again(q).bts = q.bts /\ Again(q).audio = q.audio
  BY <1>4 DEF Again, Ready, Fields
<1>5. \/ ~r.open /\ Mux(r) = Again(r)
      \/ r.open /\ f.kind # "audio" /\ Mux(r) = Again(b)
      \/ r.open /\ f.kind = "audio" /\ (Mux(r) = Again(a) \/ Mux(r) = Again(FlushAudio(a)))
  BY DEF Mux
<1> HIDE DEF a, b, u
<1>6. CASE ~r.open /\ Mux(r) = Again(r)
  BY <1>4, <1>6 DEF Skipped
<1>7. CASE r.open /\ f.kind # "audio" /\ Mux(r) = Again(b)
  BY <1>2, <1>4, <1>7 DEF Shown
<1>8. CASE r.open /\ f.kind = "audio" /\ Mux(r) = Again(a)
  BY <1>2, <1>4, <1>8 DEF Cached
<1>9. CASE r.open /\ f.kind = "audio" /\ Mux(r) = Again(FlushAudio(a))
  BY <1>3, <1>4, <1>9 DEF Flushed
<1> QED BY <1>5, <1>6, <1>7, <1>8, <1>9

\* A frame is muxed; a key frame that comes first opens the first segment.
LEMMA MuxFollows ==
    ASSUME NEW r, NEW g, DOMAIN r = Fields, Whole(r, g), r.pc = "work"
    PROVE  Follows(r, g, Mux([r EXCEPT !.open = @ \/ r.cur.kind = "key"]), g)
<1> DEFINE o == [r EXCEPT !.open = @ \/ r.cur.kind = "key"]
           q == Mux(o)
<1>1. /\ DOMAIN o = Fields /\ o.queue = r.queue /\ o.item = r.item /\ o.bts = r.bts /\ o.audio = r.audio
      /\ o.cur = r.cur /\ o.open = (r.open \/ r.cur.kind = "key") /\ r.open \in BOOLEAN
  BY DEF Fields, Whole, Typed
<1>2. Ready(o, q) /\ (Skipped(o, q) \/ Shown(o, q) \/ Cached(o, q) \/ Flushed(o, q))
  <2> HIDE DEF o
  <2> QED BY <1>1, MuxMakes
<1> HIDE DEF o, q
<1>3. q.queue = r.queue /\ q.item = r.item /\ q.pc = "top" /\ q.cur = NoFrame /\ q.cur \in HFrames /\ ~Busy(q)
  BY <1>1, <1>2, NoFrameIs DEF Ready, Busy
<1>4. CASE Skipped(o, q)
  <2>1. q.bts = r.bts /\ q.audio = r.audio /\ q.open = r.open
    BY <1>1, <1>2, <1>4 DEF Skipped, Ready
  <2>2. Resting(r, q)
    BY <1>3, <2>1 DEF Resting
  <2> QED BY <2>2, RestingFollows DEF q, o
<1>5. CASE Shown(o, q)
  <2>1. /\ q.bts = Append(r.bts, r.cur) /\ q.audio = r.audio /\ q.open = TRUE /\ r.cur.kind # "audio"
        /\ r.open \/ r.cur.kind = "key"
    BY <1>1, <1>2, <1>5 DEF Shown, Ready
  <2>2. Whole(q, g) /\ \A n : Sent(r, n) => Sent(q, n)
    BY <1>3, <2>1, VideoWhole
  <2> QED BY <2>2 DEF Follows, q, o
<1>6. CASE Cached(o, q)
  <2>1. /\ q.audio = Append(r.audio, r.cur) /\ q.bts = r.bts /\ q.open = r.open /\ r.open /\ r.cur.kind = "audio"
    BY <1>1, <1>2, <1>6 DEF Cached, Ready
  <2>2. Whole(q, g) /\ \A n : Sent(r, n) => Sent(q, n)
    BY <1>3, <2>1, AudioWhole
  <2> QED BY <2>2 DEF Follows, q, o
<1>7. CASE Flushed(o, q)
  <2>1. /\ q.bts = r.bts \o Append(r.audio, r.cur) /\ q.audio = <<>> /\ q.open = r.open /\ r.open
        /\ r.cur.kind = "audio"
    BY <1>1, <1>2, <1>7 DEF Flushed, Ready
  <2> DEFINE p == [r EXCEPT !.audio = Append(@, r.cur), !.pc = "top", !.cur = NoFrame]
  <2>2. /\ p.audio = Append(r.audio, r.cur) /\ p.bts = r.bts /\ p.queue = r.queue /\ p.open = r.open
        /\ p.pc = "top" /\ p.cur = NoFrame /\ p.cur \in HFrames /\ ~Busy(p)
    BY NoFrameIs DEF Fields, Busy
  <2> HIDE DEF p
  <2>3. Whole(p, g) /\ \A n : Sent(r, n) => Sent(p, n)
    BY <2>1, <2>2, AudioWhole
  <2>4. q.bts = p.bts \o p.audio /\ q.queue = p.queue /\ q.open = p.open /\ q.cur = p.cur /\ p.open
    BY <1>3, <2>1, <2>2
  <2>5. Whole(q, g) /\ \A n : Sent(p, n) => Sent(q, n)
    BY <1>3, <2>1, <2>3, <2>4, FlushWhole
  <2> QED BY <2>3, <2>5 DEF Follows, q, o
<1> QED BY <1>2, <1>4, <1>5, <1>6, <1>7 DEF q, o

LEMMA StoreFollows ==
    ASSUME NEW r, NEW g, DOMAIN r = Fields, Whole(r, g), r.pc = "store",
           NEW p, DOMAIN p = Fields, p.queue = r.queue, p.open = r.open, p.cur = r.cur,
           p.bts = <<>>, p.audio = r.audio
    PROVE  Follows(r, g, Mux(p), Append(g, r.item))
<1>1. r.open /\ r.cur.kind = "key" /\ Len(r.audio) = 0 /\ r.audio \in Seq(HFrames) /\ r.open \in BOOLEAN
  BY DEF Whole, Storing, Typed
<1>2. Ready(p, Mux(p)) /\ (Skipped(p, Mux(p)) \/ Shown(p, Mux(p)) \/ Cached(p, Mux(p)) \/ Flushed(p, Mux(p)))
  BY MuxMakes
<1> DEFINE q == Mux(p)
<1> HIDE DEF q
<1>3. Ready(p, q) /\ Shown(p, q)
  BY <1>1, <1>2 DEF Skipped, Cached, Flushed, q
<1>4. r.audio = <<>> /\ Append(<<>>, r.cur) = <<r.cur>>
  BY <1>1, EmptySeq
<1>5. /\ q.bts = <<r.cur>> /\ q.audio = <<>> /\ q.queue = r.queue /\ q.open = TRUE /\ q.pc = "top"
      /\ q.cur \in HFrames
  BY <1>1, <1>3, <1>4, NoFrameIs DEF Ready, Shown
<1>6. ~Busy(q)
  BY <1>5 DEF Busy
<1>7. Whole(q, Append(g, r.item)) /\ \A n : Sent(r, n) => Sent(q, n)
  BY <1>5, <1>6, StoreWhole
<1> QED BY <1>7 DEF Follows, q

---------------------------------------------------------------------------
(* The publishers.                                                         *)

PubFields == {"pc", "s", "rounds", "todo", "n", "inws"}

\* A loop that is publishing has a Source; one that has none has sent nothing.
Publisher(p, sources) ==
    /\ DOMAIN p = PubFields
    /\ p.pc \in {"idle", "make", "live", "drop", "gone", "closing", "ended"}
    /\ p.s \in sources \cup {None} /\ p.n \in Nat /\ p.todo \in Seq(Kinds \X Nat)
    /\ p.pc \in {"live", "drop", "closing"} => p.s \in sources
    /\ p.pc \in {"idle", "make"} => p.n = 0

Publishing ==
    /\ DOMAIN pub = Loops /\ \A l \in Loops : Publisher(pub[l], DOMAIN src)
    /\ idle \subseteq DOMAIN src /\ jan \in DOMAIN src \cup {None}

LEMMA OnePublisher ==
    ASSUME Publishing, NEW l \in Loops, NEW p, pub' = [pub EXCEPT ![l] = p], DOMAIN src \subseteq DOMAIN src',
           Publisher(p, DOMAIN src'), idle' \subseteq DOMAIN src', jan' \in DOMAIN src' \cup {None}
    PROVE  Publishing'
<1>1. DOMAIN pub' = Loops /\ pub'[l] = p /\ \A m \in Loops \ {l} : pub'[m] = pub[m]
  BY DEF Publishing
<1>2. \A m \in Loops : Publisher(pub[m], DOMAIN src')
  BY DEF Publishing, Publisher
<1> QED BY <1>1, <1>2 DEF Publishing

LEMMA QuietPublishing ==
    ASSUME Publishing, pub' = pub, DOMAIN src' = DOMAIN src,
           idle' \subseteq DOMAIN src', jan' \in DOMAIN src' \cup {None}
    PROVE  Publishing'
  BY DEF Publishing

LEMMA NextPublisher ==
    ASSUME NEW p, NEW sources, Publisher(p, sources), p.todo # <<>>
    PROVE  LET q == NextFrame(p) IN
           /\ DOMAIN q = PubFields /\ q.pc = p.pc /\ q.s = p.s /\ q.n = p.n + 1 /\ q.n \in Nat
           /\ q.todo \in Seq(Kinds \X Nat)
<1>1. Tail(p.todo) \in Seq(Kinds \X Nat)
  BY HeadTailProperties DEF Publisher
<1> QED BY <1>1 DEF NextFrame, Publisher, PubFields

LEMMA LoopPublishing ==
    ASSUME HlsInv, Publishing, NEW l \in Loops,
           GetWriterLoad(l) \/ GetWriterStore(l) \/ Write(l) \/ DropRound(l)
           \/ CloseInter(l) \/ CloseInterEnd(l) \/ CheckAlive(l)
    PROVE  Publishing'
<1> DEFINE p == pub[l]
<1>1. /\ DOMAIN pub = Loops /\ Publisher(p, DOMAIN src) /\ DOMAIN p = PubFields
      /\ idle \subseteq DOMAIN src /\ jan \in DOMAIN src \cup {None}
      /\ conns \in DOMAIN src \cup {None}
  BY DEF Publishing, Publisher, HlsInv, Shape
<1>2. CASE GetWriterLoad(l)
  <2>1. PICK t \in Scripts : pub' = [pub EXCEPT ![l].todo = t, ![l].s = conns,
                                    ![l].pc = IF conns = None THEN "make" ELSE "live"]
    BY <1>2 DEF GetWriterLoad
  <2>2. p.pc = "idle" /\ UNCHANGED <<src, idle, jan>>
    BY <1>2 DEF GetWriterLoad
  <2> DEFINE v == [p EXCEPT !.todo = t, !.s = conns, !.pc = IF conns = None THEN "make" ELSE "live"]
  <2>3. pub' = [pub EXCEPT ![l] = v]
    BY <1>1, <2>1
  <2>4. t \in Seq(Kinds \X Nat)
    BY HlsAssumption
  <2>5. Publisher(v, DOMAIN src)
    BY <1>1, <2>2, <2>4 DEF Publisher, PubFields
  <2> HIDE DEF v
  <2> QED BY <1>1, <2>2, <2>3, <2>5, OnePublisher
<1>3. CASE GetWriterStore(l)
  <2> DEFINE v == [p EXCEPT !.s = Len(src) + 1, !.pc = "live"]
  <2>1. p.pc = "make" /\ pub' = [pub EXCEPT ![l] = v] /\ src' = Append(src, NewSource) /\ UNCHANGED <<idle, jan>>
    BY <1>1, <1>3 DEF GetWriterStore
  <2>2. DOMAIN src' = 1 .. Len(src) + 1 /\ DOMAIN src = 1 .. Len(src) /\ Len(src) \in Nat
    BY <2>1 DEF HlsInv, Shape, IsSeq
  <2>3. DOMAIN src \subseteq DOMAIN src' /\ Len(src) + 1 \in DOMAIN src'
    BY <2>2
  <2>4. Publisher(v, DOMAIN src')
    BY <1>1, <2>1, <2>3 DEF Publisher, PubFields
  <2> HIDE DEF v
  <2> QED BY <1>1, <2>1, <2>3, <2>4, OnePublisher
<1>4. CASE Write(l)
  <2>1. /\ p.pc = "live" /\ p.todo # <<>> /\ DOMAIN src' = DOMAIN src /\ jan' = jan /\ idle' \subseteq idle
    BY <1>4 DEF Write
  <2> DEFINE w == NextFrame(p)
             g == [p EXCEPT !.pc = "gone"]
             d == [w EXCEPT !.pc = "drop", !.rounds = DropRounds]
  <2>2. pub' = [pub EXCEPT ![l] = g] \/ pub' = [pub EXCEPT ![l] = d] \/ pub' = [pub EXCEPT ![l] = w]
    BY <1>1, <1>4 DEF Write
  <2>3. Publisher(g, DOMAIN src)
    BY <1>1 DEF Publisher, PubFields
  <2>4. DOMAIN w = PubFields /\ w.pc = p.pc /\ w.s = p.s /\ w.n \in Nat /\ w.todo \in Seq(Kinds \X Nat)
    <3> HIDE DEF p
    <3> QED BY <1>1, <2>1, NextPublisher
  <2>5. p.s \in DOMAIN src
    BY <1>1, <2>1 DEF Publisher
  <2> HIDE DEF w
  <2>6. Publisher(w, DOMAIN src)
    BY <2>1, <2>4, <2>5 DEF Publisher
  <2>7. Publisher(d, DOMAIN src)
    BY <2>1, <2>4, <2>5 DEF Publisher, PubFields
  <2> HIDE DEF g, d
  <2> QED BY <1>1, <2>1, <2>2, <2>3, <2>6, <2>7, OnePublisher
<1>5. CASE DropRound(l)
  <2> DEFINE c == IF Requeued(src[pub[l].s].queue) /\ ~src[pub[l].s].chan THEN "gone"
                  ELSE IF pub[l].rounds > 1 THEN "drop"
                  ELSE IF pub[l].inws THEN "live" ELSE "gone"
             v == [p EXCEPT !.rounds = @ - 1, !.pc = c]
  <2>1. /\ p.pc = "drop" /\ DOMAIN src' = DOMAIN src /\ UNCHANGED <<jan, idle>>
        /\ pub' = [pub EXCEPT ![l] = v]
    BY <1>1, <1>5 DEF DropRound
  <2>2. c \in {"gone", "drop", "live"}
    OBVIOUS
  <2> HIDE DEF c
  <2>3. Publisher(v, DOMAIN src)
    BY <1>1, <2>1, <2>2 DEF Publisher, PubFields
  <2> HIDE DEF v
  <2> QED BY <1>1, <2>1, <2>3, OnePublisher
<1>6. CASE CloseInter(l) \/ CloseInterEnd(l)
  <2>1. DOMAIN src' = DOMAIN src /\ UNCHANGED <<jan, idle>>
    BY <1>6 DEF CloseInter, CloseInterEnd, CloseBegin, Cleanup
  <2> DEFINE c == [p EXCEPT !.pc = "closing"]
             e == [p EXCEPT !.pc = "ended"]
  <2>2. (p.pc = "live" /\ pub' = [pub EXCEPT ![l] = c]) \/ pub' = [pub EXCEPT ![l] = e]
    BY <1>1, <1>6 DEF CloseInter, CloseInterEnd
  <2>3. (p.pc = "live" => Publisher(c, DOMAIN src)) /\ Publisher(e, DOMAIN src)
    BY <1>1 DEF Publisher, PubFields
  <2> HIDE DEF c, e
  <2> QED BY <1>1, <2>1, <2>2, <2>3, OnePublisher
<1>7. CASE CheckAlive(l)
  <2> DEFINE v == [p EXCEPT !.inws = FALSE, !.pc = IF @ = "live" THEN "gone" ELSE @]
  <2>1. /\ DOMAIN src' = DOMAIN src /\ idle' = idle /\ p.s \in idle /\ jan' = p.s
        /\ pub' = [pub EXCEPT ![l] = v]
    BY <1>1, <1>7 DEF CheckAlive, CloseBegin, Cleanup
  <2>2. Publisher(v, DOMAIN src)
    BY <1>1 DEF Publisher, PubFields
  <2> HIDE DEF v
  <2> QED BY <1>1, <2>1, <2>2, OnePublisher
<1> QED BY <1>2, <1>3, <1>4, <1>5, <1>6, <1>7

LEMMA PublishingInductive ==
    /\ HlsInit => Publishing
    /\ HlsInv /\ Publishing /\ [HlsNext]_hlsVars => Publishing'
<1>1. ASSUME HlsInit PROVE Publishing
  <2> DEFINE p == [pc |-> "idle", s |-> None, rounds |-> 0, todo |-> <<>>, n |-> 0, inws |-> TRUE]
  <2>1. pub = [l \in Loops |-> p] /\ idle = {} /\ jan = None
    BY <1>1 DEF HlsInit
  <2>2. Publisher(p, DOMAIN src)
    BY DEF Publisher, PubFields
  <2> HIDE DEF p
  <2> QED BY <2>1, <2>2 DEF Publishing
<1>2. ASSUME HlsInv, Publishing, [HlsNext]_hlsVars PROVE Publishing'
  <2>0. idle \subseteq DOMAIN src /\ jan \in DOMAIN src \cup {None}
    BY <1>2 DEF Publishing
  <2>1. ASSUME NEW l \in Loops, GetWriterLoad(l) \/ GetWriterStore(l) \/ Write(l) \/ DropRound(l)
                                \/ CloseInter(l) \/ CloseInterEnd(l) \/ CheckAlive(l)
        PROVE  Publishing'
    BY <1>2, <2>1, LoopPublishing
  <2>2. ASSUME NEW s \in Sources, SendPacket(s) PROVE Publishing'
    <3>1. UNCHANGED <<pub, idle, jan>>
      BY <2>2 DEF SendPacket, SendTop, SendRecv, SendWork, SendCut, SetItemEvict, SetItemStore, Quiet
    <3>2. DOMAIN src' = DOMAIN src
      BY <2>2 DEF SendPacket, SendTop, SendRecv, SendWork, SendCut, SetItemEvict, SetItemStore
    <3> QED BY <1>2, <2>0, <3>1, <3>2, QuietPublishing
  <2>3. ASSUME NEW s \in Sources, CheckStop(s) \/ Timeout(s) PROVE Publishing'
    <3>1. UNCHANGED <<pub, src, jan>> /\ idle' \subseteq idle \cup {s} /\ s \in DOMAIN src
      BY <2>3 DEF CheckStop, Timeout, Sources
    <3> QED BY <1>2, <2>0, <3>1, QuietPublishing
  <2>4. CASE CheckAliveEnd
    <3>1. UNCHANGED <<pub, idle>> /\ jan' = None /\ DOMAIN src' = DOMAIN src
      BY <2>4 DEF CheckAliveEnd
    <3> QED BY <1>2, <2>0, <3>1, QuietPublishing
  <2>5. CASE Request \/ UNCHANGED hlsVars
    <3>1. UNCHANGED <<pub, src, idle, jan>>
      BY <2>5 DEF Request, ReqPlaylist, ReqWalk, ReqSegment, ReqEnd, QuietR, hlsVars
    <3> QED BY <1>2, <2>0, <3>1, QuietPublishing
  <2> QED BY <1>2, <2>1, <2>2, <2>3, <2>4, <2>5 DEF HlsNext
<1> QED BY <1>1, <1>2

---------------------------------------------------------------------------
(* The segments of every Source.                                           *)

\* No publisher is in DropPacket, which takes packets out and puts them back
\* in another order, and no two have sent packets to one Source.
Undisturbed ==
    /\ \A l \in Loops : pub[l].pc # "drop"
    /\ \A l, m \in Loops : pub[l].s = pub[m].s /\ pub[l].n > 0 /\ pub[m].n > 0 => l = m

\* What a Source holds has been sent by its publisher.
Streamed ==
    \A s \in DOMAIN src :
        /\ Whole(src[s], segs[s])
        /\ \A n \in Nat : (\A l \in Loops : pub[l].s = s => pub[l].n <= n) => Sent(src[s], n)

\* A loop stays with its Source once it has sent something.
SameCount == \A l \in Loops : pub[l].n = 0 \/ (pub'[l].s = pub[l].s /\ pub'[l].n = pub[l].n)

LEMMA CountBack ==
    ASSUME SameCount, NEW s, NEW n \in Nat, \A l \in Loops : pub'[l].s = s => pub'[l].n <= n
    PROVE  \A l \in Loops : pub[l].s = s => pub[l].n <= n
  BY DEF SameCount

LEMMA AllFollow ==
    ASSUME Streamed, SameCount, DOMAIN src' = DOMAIN src,
           \A s \in DOMAIN src : Follows(src[s], segs[s], src'[s], segs'[s])
    PROVE  Streamed'
<1>1. ASSUME NEW s \in DOMAIN src PROVE Whole(src'[s], segs'[s])
  BY DEF Follows
<1>2. ASSUME NEW s \in DOMAIN src, NEW n \in Nat, \A l \in Loops : pub'[l].s = s => pub'[l].n <= n
      PROVE  Sent(src'[s], n)
  <2>1. \A l \in Loops : pub[l].s = s => pub[l].n <= n
    BY <1>2, CountBack
  <2>2. Sent(src[s], n)
    BY <2>1 DEF Streamed
  <2> QED BY <2>2 DEF Follows
<1> QED BY <1>1, <1>2 DEF Streamed

\* A step of SendPacket.
LEMMA OneFollows ==
    ASSUME HlsInv, Streamed, pub' = pub, NEW s \in DOMAIN src, NEW q, NEW h, src' = [src EXCEPT ![s] = q],
           segs' = [segs EXCEPT ![s] = h] \/ (segs' = segs /\ h = segs[s]),
           Follows(src[s], segs[s], q, h)
    PROVE  Streamed'
<1>1. s \in DOMAIN segs /\ DOMAIN src = DOMAIN segs
  BY DEF HlsInv, Shape, IsSeq
<1>2. DOMAIN src' = DOMAIN src /\ src'[s] = q /\ segs'[s] = h
  BY <1>1
<1>3. ASSUME NEW t \in DOMAIN src PROVE Follows(src[t], segs[t], src'[t], segs'[t])
  <2>1. CASE t = s
    BY <1>2, <2>1
  <2>2. CASE t # s
    <3>1. src'[t] = src[t] /\ segs'[t] = segs[t]
      BY <1>1, <2>2
    <3> QED BY <3>1 DEF Streamed, Follows
  <2> QED BY <2>1, <2>2
<1>4. SameCount
  BY DEF SameCount
<1> QED BY <1>2, <1>3, <1>4, AllFollow

\* The publishers and the janitor close a Source, or leave it alone.
LEMMA RestStreamed ==
    ASSUME HlsInv, Streamed, SameCount, segs' = segs, NEW s,
           \/ src' = src
           \/ src' = [src EXCEPT ![s].closed = TRUE]
           \/ src' = [src EXCEPT ![s].chan = FALSE, ![s].alloc = FALSE]
    PROVE  Streamed'
<1> DEFINE c(r) == [r EXCEPT !.chan = FALSE, !.alloc = FALSE]
           d(r) == [r EXCEPT !.closed = TRUE]
<1>1. ASSUME NEW t \in DOMAIN src PROVE Follows(src[t], segs[t], src'[t], segs'[t])
  <2>1. DOMAIN src[t] = Fields /\ Whole(src[t], segs[t])
    BY DEF HlsInv, Shape, Streamed
  <2>2. src'[t] = src[t] \/ src'[t] = c(src[t]) \/ src'[t] = d(src[t])
    <3>1. CASE t = s
      BY <2>1, <3>1 DEF Fields
    <3>2. CASE t # s
      BY <3>2
    <3> QED BY <3>1, <3>2
  <2>3. Resting(src[t], src[t]) /\ Resting(src[t], c(src[t])) /\ Resting(src[t], d(src[t]))
    BY <2>1, EndResting
  <2> HIDE DEF c, d
  <2> QED BY <2>1, <2>2, <2>3, RestingFollows
<1>2. DOMAIN src' = DOMAIN src
  OBVIOUS
<1> QED BY <1>1, <1>2, AllFollow

LEMMA SentMore ==
    ASSUME NEW r, NEW g, Whole(r, g), NEW k \in Nat, NEW n \in Nat, k <= n, Sent(r, k)
    PROVE  Sent(r, n)
<1>1. r.queue \in Seq(HFrames) /\ r.bts \in Seq(HFrames) /\ r.audio \in Seq(HFrames) /\ r.cur.id \in Nat
  BY DEF Whole, Typed, HFrames
<1>2. \A i \in 1 .. Len(r.queue) : r.queue[i].id <= n
  <2>1. \A i \in 1 .. Len(r.queue) : r.queue[i].id \in Nat /\ r.queue[i].id <= k
    BY <1>1, Ids DEF Sent
  <2> QED BY <2>1
<1>3. \A i \in 1 .. Len(r.bts) : r.bts[i].id <= n
  <2>1. \A i \in 1 .. Len(r.bts) : r.bts[i].id \in Nat /\ r.bts[i].id <= k
    BY <1>1, Ids DEF Sent
  <2> QED BY <2>1
<1>4. \A i \in 1 .. Len(r.audio) : r.audio[i].id <= n
  <2>1. \A i \in 1 .. Len(r.audio) : r.audio[i].id \in Nat /\ r.audio[i].id <= k
    BY <1>1, Ids DEF Sent
  <2> QED BY <2>1
<1>5. Busy(r) => r.cur.id <= n
  BY <1>1 DEF Sent
<1> QED BY <1>2, <1>3, <1>4, <1>5 DEF Sent

\* A packet is put into the queue of the Source.
LEMMA WriteStreamed ==
    ASSUME HlsInv, Publishing, Streamed, Undisturbed', NEW l \in Loops, Write(l)
    PROVE  Streamed'
<1> DEFINE p == pub[l]
           s == p.s
           r == src[s]
           g == segs[s]
<1>1. /\ DOMAIN pub = Loops /\ Publisher(p, DOMAIN src) /\ DOMAIN p = PubFields /\ p.n \in Nat
      /\ p.pc = "live" /\ p.todo # <<>> /\ s \in DOMAIN src /\ p.todo \in Seq(Kinds \X Nat) /\ segs' = segs
  BY DEF Write, Publishing, Publisher
<1>2. DOMAIN r = Fields /\ Whole(r, g)
  BY <1>1 DEF HlsInv, Shape, Streamed
<1>3. CASE src' = src /\ pub' = [pub EXCEPT ![l].pc = "gone"]
  <2>1. SameCount
    BY <1>1, <1>3 DEF SameCount, PubFields
  <2> QED BY <1>1, <1>3, <2>1, RestStreamed
<1> DEFINE w == NextFrame(p)
<1>4. DOMAIN w = PubFields /\ w.s = s /\ w.n = p.n + 1
  <2> HIDE DEF p
  <2> QED BY <1>1, NextPublisher DEF s
<1>5. CASE src' = src /\ pub' = [pub EXCEPT ![l] = [NextFrame(@) EXCEPT !.pc = "drop", !.rounds = DropRounds]]
  <2>1. pub'[l].pc = "drop"
    <3> HIDE DEF w
    <3>1. [w EXCEPT !.pc = "drop", !.rounds = DropRounds].pc = "drop"
      BY <1>4 DEF PubFields
    <3> QED BY <1>1, <1>5, <3>1 DEF w
  <2> QED BY <2>1 DEF Undisturbed
<1>6. CASE src' = [src EXCEPT ![s].queue = Append(@, Frame(l))] /\ pub' = [pub EXCEPT ![l] = NextFrame(@)]
  <2> DEFINE f == Frame(l)
             q == [r EXCEPT !.queue = Append(@, f)]
  <2>1. f \in HFrames /\ f.id = p.n + 1
    <3>1. Head(p.todo) \in Kinds \X Nat
      BY <1>1, HeadTailProperties
    <3>2. f.id = p.n + 1
      BY DEF Frame
    <3> QED BY <1>1, <3>1, <3>2 DEF Frame, HFrames
  <2> HIDE DEF f
  <2>2. src'[s] = q /\ DOMAIN src' = DOMAIN src /\ \A t \in DOMAIN src \ {s} : src'[t] = src[t]
    BY <1>1, <1>6 DEF f
  <2>3. /\ q.queue = Append(r.queue, f) /\ q.cur = r.cur /\ q.pc = r.pc /\ q.item = r.item
        /\ q.bts = r.bts /\ q.audio = r.audio /\ q.open = r.open
    <3> HIDE DEF r
    <3> QED BY <1>2 DEF Fields
  <2>4. pub'[l] = w /\ (\A m \in Loops \ {l} : pub'[m] = pub[m]) /\ DOMAIN pub' = Loops
    BY <1>1, <1>6
  <2> HIDE DEF w, q
  <2>5. \A m \in Loops : pub[m].s = s => pub[m].n <= p.n
    <3> SUFFICES ASSUME NEW m \in Loops, pub[m].s = s, m # l PROVE pub[m].n <= p.n
      BY <1>1
    <3>1. pub'[l].n > 0 /\ pub'[l].s = s /\ pub'[m] = pub[m]
      BY <1>1, <1>4, <2>4
    <3>2. ~(pub[m].n > 0) /\ pub[m].n \in Nat
      BY <3>1 DEF Undisturbed, Publishing, Publisher
    <3> QED BY <1>1, <3>2
  <2>6. Sent(r, p.n)
    BY <1>1, <2>5 DEF Streamed
  <2>7. Whole(q, g) /\ Sent(q, p.n + 1)
    <3> HIDE DEF p, r, g
    <3> QED BY <1>1, <1>2, <2>1, <2>3, <2>6, WriteWhole
  <2>8. ASSUME NEW t \in DOMAIN src
        PROVE  /\ Whole(src'[t], segs'[t])
               /\ \A n \in Nat : (\A m \in Loops : pub'[m].s = t => pub'[m].n <= n) => Sent(src'[t], n)
    <3>1. CASE t = s
      <4> SUFFICES ASSUME NEW n \in Nat, \A m \in Loops : pub'[m].s = s => pub'[m].n <= n PROVE Sent(q, n)
        BY <1>1, <2>2, <2>7, <3>1
      <4>1. p.n + 1 \in Nat /\ p.n + 1 <= n
        BY <1>1, <1>4, <2>4
      <4> HIDE DEF p, g
      <4> QED BY <2>7, <4>1, SentMore
    <3>2. CASE t # s
      <4>1. src'[t] = src[t] /\ segs'[t] = segs[t] /\ Whole(src[t], segs[t])
        BY <1>1, <2>2, <3>2 DEF Streamed
      <4>2. ASSUME NEW n \in Nat, \A m \in Loops : pub'[m].s = t => pub'[m].n <= n PROVE Sent(src[t], n)
        <5>1. \A m \in Loops : pub[m].s = t => m # l /\ pub'[m] = pub[m]
          BY <2>4, <3>2
        <5>2. \A m \in Loops : pub[m].s = t => pub[m].n <= n
          BY <4>2, <5>1
        <5> QED BY <5>2 DEF Streamed
      <4> QED BY <4>1, <4>2
    <3> QED BY <3>1, <3>2
  <2> QED BY <2>2, <2>8 DEF Streamed
<1> QED BY <1>3, <1>5, <1>6 DEF Write

LEMMA SendStreamed ==
    ASSUME HlsInv, Streamed, NEW s \in Sources, SendPacket(s)
    PROVE  Streamed'
<1> DEFINE r == src[s]
           g == segs[s]
<1>1. s \in DOMAIN src /\ DOMAIN r = Fields /\ Whole(r, g)
  BY DEF HlsInv, Shape, Sources, Streamed
<1>2. pub' = pub
  BY DEF SendPacket, SendTop, SendRecv, SendWork, SendCut, SetItemEvict, SetItemStore, Quiet
<1> HIDE DEF r
<1>3. /\ Resting(r, Again(r)) /\ Resting(r, Failed(r)) /\ Resting(r, Panics(r))
      /\ Resting(r, Again([r EXCEPT !.conf = TRUE]))
  BY <1>1, EndResting
<1>4. ASSUME NEW q, Resting(r, q) PROVE Follows(r, g, q, g)
  BY <1>1, <1>4, RestingFollows
<1>5. ASSUME NEW q, src' = [src EXCEPT ![s] = q], segs' = segs, Follows(r, g, q, g) PROVE Streamed'
  BY <1>1, <1>2, <1>5, OneFollows DEF r
<1>6. CASE SendTop(s)
  <2> DEFINE q == [r EXCEPT !.pc = IF r.closed THEN "ended" ELSE "recv"]
  <2>1. src' = [src EXCEPT ![s] = q] /\ segs' = segs
    BY <1>1, <1>6 DEF SendTop, r
  <2>2. Resting(r, q)
    BY <1>1 DEF Resting, Busy, Fields
  <2> HIDE DEF q
  <2> QED BY <1>4, <1>5, <2>1, <2>2
<1>7. CASE SendRecv(s)
  <2> DEFINE q == [r EXCEPT !.queue = Tail(@), !.cur = Head(r.queue), !.pc = "work"]
             e == [r EXCEPT !.pc = "ended", !.closed = TRUE]
  <2>1. /\ r.pc = "recv" /\ segs' = segs
        /\ (r.queue # <<>> /\ src' = [src EXCEPT ![s] = q]) \/ src' = [src EXCEPT ![s] = e]
    BY <1>1, <1>7 DEF SendRecv, SourceAt, r
  <2>2. Resting(r, e)
    BY <1>1 DEF Resting, Busy, Fields
  <2>3. /\ q.queue = Tail(r.queue) /\ q.cur = Head(r.queue) /\ q.pc = "work"
        /\ q.bts = r.bts /\ q.audio = r.audio /\ q.open = r.open /\ ~Busy(r)
    BY <1>1, <2>1 DEF Fields, Busy
  <2> HIDE DEF q, e, g
  <2>4. r.queue # <<>> => Follows(r, g, q, g)
    BY <1>1, <2>3, RecvWhole DEF Follows
  <2> QED BY <1>4, <1>5, <2>1, <2>2, <2>4
<1>8. CASE SendWork(s)
  <2> DEFINE c == [r EXCEPT !.conf = TRUE]
             o == [r EXCEPT !.open = @ \/ r.cur.kind = "key"]
  <2>1. r.pc = "work" /\ segs' = segs
    BY <1>8 DEF SendWork, SourceAt, r
  <2>2. \E q \in {Again(r), Failed(r), Panics(r), Again(c), Mux(o)} : src' = [src EXCEPT ![s] = q]
    BY <1>8 DEF SendWork, r
  <2>3. Follows(r, g, Mux(o), g)
    <3> HIDE DEF g
    <3> QED BY <1>1, <2>1, MuxFollows
  <2>4. \A q \in {Again(r), Failed(r), Panics(r), Again(c), Mux(o)} : Follows(r, g, q, g)
    <3> HIDE DEF o, g
    <3> QED BY <1>3, <1>4, <2>3
  <2> HIDE DEF c, o, g
  <2> QED BY <1>5, <2>1, <2>2, <2>4
<1>9. CASE SendCut(s)
  <2> DEFINE a == FlushAudio(r)
             i == [name |-> clk', seq |-> a.seq + 1, dur |-> a.last - a.first, data |-> a.bts]
             q == [a EXCEPT !.pc = "evict", !.seq = @ + 1, !.item = i]
  <2>1. /\ DOMAIN a = Fields /\ a.bts = r.bts \o r.audio /\ a.audio = <<>> /\ a.queue = r.queue
        /\ a.open = r.open /\ a.cur = r.cur
    BY <1>1 DEF FlushAudio, Fields
  <2>2. r.pc = "work" /\ segs' = segs /\ src' = [src EXCEPT ![s] = q] /\ IsCut(a)
    BY <1>9 DEF SendCut, SourceAt, r
  <2>3. r.open /\ r.cur.kind = "key"
    <3> HIDE DEF a
    <3> QED BY <2>1, <2>2 DEF IsCut
  <2>4. i.data = a.bts
    OBVIOUS
  <2> HIDE DEF a, i
  <2>5. /\ q.bts = r.bts \o r.audio /\ q.audio = <<>> /\ q.queue = r.queue /\ q.open = r.open /\ q.cur = r.cur
        /\ q.pc = "evict" /\ q.item.data = q.bts
    BY <2>1, <2>4 DEF Fields
  <2> HIDE DEF q, g
  <2>6. Follows(r, g, q, g)
    BY <1>1, <2>2, <2>3, <2>5, FlushWhole DEF Follows
  <2> QED BY <1>5, <2>2, <2>6
<1>10. CASE SetItemEvict(s)
  <2> DEFINE e == [r EXCEPT !.pc = "store", !.ll = Tail(@), !.lm = {i \in @ : i.name # Head(r.ll)[1]}]
             t == [r EXCEPT !.pc = "store"]
  <2>1. r.pc = "evict" /\ segs' = segs
    BY <1>10 DEF SetItemEvict, SourceAt, r
  <2>2. \E q \in {Panics(r), e, t} : src' = [src EXCEPT ![s] = q]
    BY <1>10 DEF SetItemEvict, r
  <2>3. Resting(r, e) /\ Resting(r, t)
    BY <1>1, <2>1 DEF Resting, Fields
  <2> HIDE DEF e, t
  <2> QED BY <1>3, <1>4, <1>5, <2>1, <2>2, <2>3
<1>11. CASE SetItemStore(s)
  <2> DEFINE kept == {i \in r.lm : i.name # r.item.name}
             p == [r EXCEPT !.ll = PushBack(@, <<r.item.name, r.item.seq>>), !.lm = kept \cup {r.item},
                            !.item = NoItem, !.bts = <<>>, !.hasFirst = FALSE]
             h == Append(g, r.item)
  <2>1. /\ r.pc = "store"
        /\ \/ src' = [src EXCEPT ![s] = Panics(r)] /\ segs' = segs
           \/ src' = [src EXCEPT ![s] = Mux(p)] /\ segs' = [segs EXCEPT ![s] = h]
    BY <1>11 DEF SetItemStore, SourceAt, r
  <2>2. /\ DOMAIN p = Fields /\ p.queue = r.queue /\ p.open = r.open /\ p.cur = r.cur
        /\ p.bts = <<>> /\ p.audio = r.audio
    <3> HIDE DEF kept
    <3> QED BY <1>1 DEF Fields
  <2> HIDE DEF p
  <2>3. Follows(r, g, Mux(p), h)
    <3> HIDE DEF g
    <3> QED BY <1>1, <2>1, <2>2, StoreFollows
  <2>4. CASE src' = [src EXCEPT ![s] = Panics(r)] /\ segs' = segs
    BY <1>3, <1>4, <1>5, <2>4
  <2>5. CASE src' = [src EXCEPT ![s] = Mux(p)] /\ segs' = [segs EXCEPT ![s] = h]
    <3> HIDE DEF h
    <3> QED BY <1>1, <1>2, <2>3, <2>5, OneFollows DEF r
  <2> QED BY <2>1, <2>4, <2>5
<1> QED BY <1>6, <1>7, <1>8, <1>9, <1>10, <1>11 DEF SendPacket

LEMMA NewWhole == Whole(NewSource, <<>>) /\ \A n : Sent(NewSource, n)
<1>1. /\ NewSource.queue = <<>> /\ NewSource.bts = <<>> /\ NewSource.audio = <<>> /\ NewSource.open = FALSE
      /\ NewSource.pc = "top" /\ NewSource.cur = NoFrame
  BY DEF NewSource
<1>2. Len(<<>>) = 0 /\ <<>> \in Seq(HFrames) /\ 1 .. Len(<<>>) = {} /\ IsSeq(<<>>) /\ DOMAIN <<>> = {}
      /\ 1 .. Len(<<>>) - 1 = {}
  BY DEF IsSeq
<1>3. ~Busy(NewSource)
  BY <1>1 DEF Busy
<1>4. Typed(NewSource)
  BY <1>1, <1>2, NoFrameIs DEF Typed
<1>5. Coming(NewSource) /\ Started(NewSource) /\ Storing(NewSource) /\ AudioInOrder(NewSource)
  BY <1>1, <1>2, <1>3 DEF Coming, Started, Storing, AudioInOrder
<1>6. BtsInOrder(NewSource)
  BY <1>1, <1>2 DEF BtsInOrder, InOrder
<1>7. Cuts(NewSource, <<>>)
  BY <1>2 DEF Cuts
<1>8. \A n : Sent(NewSource, n)
  BY <1>1, <1>2, <1>3 DEF Sent
<1> QED BY <1>2, <1>4, <1>5, <1>6, <1>7, <1>8 DEF Whole

LEMMA AddedStreamed ==
    ASSUME HlsInv, Publishing, Streamed, NEW l \in Loops, GetWriterStore(l)
    PROVE  Streamed'
<1>1. /\ IsSeq(src) /\ IsSeq(segs) /\ Len(segs) = Len(src) /\ Len(src) \in Nat /\ DOMAIN src = 1 .. Len(src)
  BY DEF HlsInv, Shape, IsSeq
<1>2. src' = Append(src, NewSource) /\ segs' = Append(segs, <<>>)
  BY DEF GetWriterStore
<1>3. /\ src'[Len(src) + 1] = NewSource /\ segs'[Len(src) + 1] = <<>>
      /\ \A s \in DOMAIN src : src'[s] = src[s] /\ segs'[s] = segs[s]
      /\ DOMAIN src' = 1 .. Len(src) + 1
  BY <1>1, <1>2 DEF IsSeq
<1>4. \A s \in DOMAIN src' : s \in DOMAIN src \/ s = Len(src) + 1
  BY <1>1, <1>3
<1>5. SameCount
  BY DEF SameCount, GetWriterStore, Publishing, Publisher
<1>6. ASSUME NEW s \in DOMAIN src'
      PROVE  /\ Whole(src'[s], segs'[s])
             /\ \A n \in Nat : (\A m \in Loops : pub'[m].s = s => pub'[m].n <= n) => Sent(src'[s], n)
  <2>1. CASE s \in DOMAIN src
    <3>1. ASSUME NEW n \in Nat, \A m \in Loops : pub'[m].s = s => pub'[m].n <= n PROVE Sent(src[s], n)
      <4>1. \A m \in Loops : pub[m].s = s => pub[m].n <= n
        BY <1>5, <3>1, CountBack
      <4> QED BY <2>1, <4>1 DEF Streamed
    <3> QED BY <1>3, <2>1, <3>1 DEF Streamed
  <2>2. CASE s = Len(src) + 1
    BY <1>3, <2>2, NewWhole
  <2> QED BY <1>4, <2>1, <2>2
<1> QED BY <1>6 DEF Streamed

LEMMA StreamedInductive ==
    /\ HlsInit => Streamed
    /\ HlsInv /\ Publishing /\ Streamed /\ Undisturbed /\ Undisturbed' /\ [HlsNext]_hlsVars => Streamed'
<1>1. ASSUME HlsInit PROVE Streamed
  <2>1. DOMAIN src = {}
    BY <1>1 DEF HlsInit
  <2> QED BY <2>1 DEF Streamed
<1>2. ASSUME HlsInv, Publishing, Streamed, Undisturbed, Undisturbed', [HlsNext]_hlsVars PROVE Streamed'
  <2>1. ASSUME NEW l \in Loops, GetWriterLoad(l) PROVE Streamed'
    <3>1. UNCHANGED <<src, segs>>
      BY <2>1 DEF GetWriterLoad
    <3>2. SameCount
      BY <1>2, <2>1 DEF SameCount, GetWriterLoad, Publishing, Publisher
    <3> QED BY <1>2, <3>1, <3>2, RestStreamed
  <2>2. ASSUME NEW l \in Loops, CloseInter(l) \/ CloseInterEnd(l) \/ CheckAlive(l) PROVE Streamed'
    <3>1. /\ segs' = segs
          /\ \/ src' = src
             \/ src' = [src EXCEPT ![pub[l].s].closed = TRUE]
             \/ src' = [src EXCEPT ![pub[l].s].chan = FALSE, ![pub[l].s].alloc = FALSE]
      BY <2>2 DEF CloseInter, CloseInterEnd, CheckAlive, CloseBegin, Cleanup
    <3>2. SameCount
      <4>1. DOMAIN pub = Loops /\ DOMAIN pub[l] = PubFields
        BY <1>2 DEF Publishing, Publisher
      <4>2. pub'[l].s = pub[l].s /\ pub'[l].n = pub[l].n /\ \A m \in Loops \ {l} : pub'[m] = pub[m]
        BY <2>2, <4>1 DEF CloseInter, CloseInterEnd, CheckAlive, PubFields
      <4> QED BY <4>2 DEF SameCount
    <3> QED BY <1>2, <3>1, <3>2, RestStreamed
  <2>3. ASSUME NEW l \in Loops, DropRound(l) PROVE Streamed'
    BY <1>2, <2>3 DEF DropRound, Undisturbed
  <2>4. ASSUME NEW l \in Loops, Write(l) \/ GetWriterStore(l) PROVE Streamed'
    BY <1>2, <2>4, WriteStreamed, AddedStreamed
  <2>5. ASSUME NEW s \in Sources, SendPacket(s) PROVE Streamed'
    BY <1>2, <2>5, SendStreamed
  <2>6. CASE CheckAliveEnd \/ Request \/ (\E s \in Sources : CheckStop(s) \/ Timeout(s)) \/ UNCHANGED hlsVars
    <3>1. /\ segs' = segs /\ pub' = pub
          /\ src' = src \/ src' = [src EXCEPT ![jan].closed = TRUE]
      BY <2>6 DEF CheckAliveEnd, CheckStop, Timeout, hlsVars,
                  Request, ReqPlaylist, ReqWalk, ReqSegment, ReqEnd, QuietR
    <3>2. SameCount
      BY <3>1 DEF SameCount
    <3> QED BY <1>2, <3>1, <3>2, RestStreamed
  <2> QED BY <1>2, <2>1, <2>2, <2>3, <2>4, <2>5, <2>6 DEF HlsNext
<1> QED BY <1>1, <1>2

LEMMA InvTyped == HlsInv /\ Publishing => HlsTypeOK
  BY DEF HlsInv, Publishing, Publisher, HlsTypeOK, Sources, Shape, Shelf, Counted, Listed

LEMMA InvWhole == HlsInv /\ Streamed => SegmentsWhole
<1> SUFFICES ASSUME HlsInv, Streamed, NEW s \in DOMAIN src, NEW i \in DOMAIN segs[s]
             PROVE  LET all == Append(segs[s], [NoItem EXCEPT !.data = src[s].bts \o src[s].audio])
                    IN /\ all[i].data[1].kind = "key"
                       /\ \A m \in DOMAIN all[i].data : all[i].data[m].id >= all[i].data[1].id
                       /\ InOrder(all[i].data)
                       /\ \A m \in DOMAIN all[i].data : \A n \in DOMAIN all[i + 1].data :
                            all[i].data[m].id < all[i + 1].data[n].id
  BY DEF SegmentsWhole, Sources
<1> DEFINE r == src[s]
           g == segs[s]
           k == Len(g)
           e == r.bts \o r.audio
           x == [NoItem EXCEPT !.data = e]
           all == Append(g, x)
<1>1. Whole(r, g) /\ IsSeq(g) /\ k \in Nat /\ i \in 1 .. k /\ DOMAIN g = 1 .. k
  BY DEF Streamed, HlsInv, Shape, IsSeq
<1>2. x.data = e
  <2> HIDE DEF e
  <2> QED BY DEF NoItem
<1> HIDE DEF x
<1>3. all[k + 1] = x /\ \A j \in 1 .. k : all[j] = g[j]
  BY <1>1 DEF IsSeq
<1> HIDE DEF all, r, g
<1>4. \A j \in 1 .. k : GoodSegment(g[j].data) /\ DOMAIN g[j].data = 1 .. Len(g[j].data)
  <2>1. \A j \in 1 .. k : GoodSegment(g[j].data)
    BY <1>1 DEF Whole, Cuts
  <2> QED BY <2>1, Ids DEF GoodSegment
<1>5. all[i].data = g[i].data
  BY <1>1, <1>3
<1>6. Sooner(g[i].data, all[i + 1].data) /\ DOMAIN all[i + 1].data = 1 .. Len(all[i + 1].data)
  <2>1. CASE i = k
    <3>1. all[i + 1].data = e
      BY <1>2, <1>3, <2>1
    <3>2. r.bts \in Seq(HFrames) /\ r.audio \in Seq(HFrames) /\ r.open
      BY <1>1 DEF Whole, Typed, Cuts
    <3>3. /\ e \in Seq(HFrames) /\ Len(e) = Len(r.bts) + Len(r.audio)
          /\ \A n \in 1 .. Len(r.bts) + Len(r.audio) :
               e[n] = IF n <= Len(r.bts) THEN r.bts[n] ELSE r.audio[n - Len(r.bts)]
      BY <3>2, Joined
    <3>4. Len(r.bts) \in Nat /\ Len(r.audio) \in Nat /\ \A n \in 1 .. Len(r.bts) : r.bts[n].id \in Nat
      BY <3>2, Ids
    <3>5. \A n \in 1 .. Len(r.audio) : r.audio[n].id \in Nat
      BY <3>2, Ids
    <3>6. Len(r.bts) > 0 /\ 1 \in 1 .. Len(r.bts)
      BY <1>1, <3>2, <3>4 DEF Whole, Started
    <3> HIDE DEF e
    <3>7. \A n \in 1 .. Len(e) : e[n].id \in Nat /\ e[n].id >= r.bts[1].id
      <4> SUFFICES ASSUME NEW n \in 1 .. Len(e) PROVE e[n].id \in Nat /\ e[n].id >= r.bts[1].id
        OBVIOUS
      <4> DEFINE b == Len(r.bts)
                 a == Len(r.audio)
      <4>0. /\ n <= b => n \in 1 .. b /\ e[n] = r.bts[n]
            /\ ~(n <= b) => n - b \in 1 .. a /\ e[n] = r.audio[n - b]
        <5>1. b \in Nat /\ a \in Nat /\ n \in 1 .. b + a
          BY <3>3, <3>4
        <5>2. e[n] = IF n <= b THEN r.bts[n] ELSE r.audio[n - b]
          BY <3>3, <5>1
        <5> HIDE DEF a, b
        <5>3. (n <= b => n \in 1 .. b) /\ (~(n <= b) => n - b \in 1 .. a)
          BY <5>1
        <5> QED BY <5>2, <5>3
      <4>1. CASE n <= Len(r.bts)
        <5>1. n \in 1 .. Len(r.bts) /\ e[n] = r.bts[n]
          BY <4>0, <4>1
        <5> QED BY <1>1, <3>4, <5>1 DEF Whole, BtsInOrder
      <4>2. CASE ~(n <= Len(r.bts))
        <5>1. n - Len(r.bts) \in 1 .. Len(r.audio) /\ e[n] = r.audio[n - Len(r.bts)]
          BY <4>0, <4>2
        <5> QED BY <1>1, <3>5, <5>1 DEF Whole, AudioInOrder
      <4> QED BY <4>1, <4>2
    <3>8. \A m \in 1 .. Len(g[i].data) : g[i].data[m].id < r.bts[1].id
      BY <1>1, <2>1 DEF Whole, Cuts
    <3>9. \A m \in 1 .. Len(g[i].data) : g[i].data[m].id \in Nat
      <4>1. g[i].data \in Seq(HFrames)
        BY <1>1, <1>4 DEF GoodSegment
      <4> QED BY <4>1, Ids
    <3>10. r.bts[1].id \in Nat
      BY <3>4, <3>6
    <3>11. Sooner(g[i].data, e)
      BY <3>7, <3>8, <3>9, <3>10 DEF Sooner
    <3>12. DOMAIN e = 1 .. Len(e)
      BY <3>3, Ids
    <3> QED BY <3>1, <3>11, <3>12
  <2>2. CASE i # k
    <3>1. i \in 1 .. k - 1 /\ i + 1 \in 1 .. k
      BY <1>1, <2>2
    <3> QED BY <1>1, <1>3, <1>4, <3>1 DEF Whole, Cuts
  <2> QED BY <2>1, <2>2
<1>7. GoodSegment(all[i].data) /\ DOMAIN all[i].data = 1 .. Len(all[i].data)
  BY <1>1, <1>4, <1>5
<1>8. \A m \in DOMAIN all[i].data : \A n \in DOMAIN all[i + 1].data : all[i].data[m].id < all[i + 1].data[n].id
  BY <1>5, <1>6, <1>7 DEF Sooner
<1> QED BY <1>7, <1>8 DEF GoodSegment, all, x, e, r, g

\* Whoever publishes whatever: the server, the loops and the janitor refer to
\* Sources that exist, a Source lists at most CacheNum segments, and it has
\* numbered those it has cut and at most the one it is storing.
THEOREM HlsTyped == HlsSpec => []HlsTypeOK
<1> QED BY HlsInductive, PublishingInductive, InvTyped, PTL DEF HlsSpec

\* As long as Write finds the queue below its high-water mark and no two
\* publishers send packets to one Source, every segment starts with a key frame
\* and holds the frames up to the key frame that starts the next, each kind in
\* order and once, however SendPacket, the publisher's Close and the janitor
\* interleave, and whatever the kinds and times of the packets.
THEOREM HlsSegments == HlsSpec /\ []Undisturbed => []HlsSafe
<1>1. HlsInv /\ Publishing /\ Streamed => HlsSafe
  BY InvTyped, InvWhole DEF HlsSafe
<1> QED BY <1>1, HlsInductive, PublishingInductive, StreamedInductive, PTL DEF HlsSpec
=============================================================================
