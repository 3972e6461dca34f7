-------------------------------- MODULE Hls --------------------------------
(***************************************************************************)
(* HLS: src/protocol/hls.  The server keeps a Source per stream key; the   *)
(* TransStart loops of the stream write packets to it and close it, a      *)
(* goroutine of its own (SendPacket) cuts the stream into segments, and    *)
(* HTTP requests read the last segments.  There is one key here, published *)
(* by one loop after or over the other.  No field of a Source and nothing  *)
(* in its TSCacheItem is locked.                                           *)
(***************************************************************************)
EXTENDS Integers, Sequences, FiniteSets

CONSTANTS
    Loops,         \* TransStart loops of streams with this key
    Scripts,       \* what a publisher may send: sequences of <<kind, ms>>
    Duration,      \* duration: a segment is at least this long
    CacheNum,      \* maxTSCacheNum
    AudioFrames,   \* cache_max_frames
    HighWater,     \* maxQueueNum-24
    DropRounds,    \* maxQueueNum-84
    VideoMark,     \* maxQueueNum-10
    AudioMark      \* maxQueueNum-2

\* "end" is the AVC end of sequence, "short" a tag too short for its header,
\* "odd" an AAC tag of one byte, on which the parser panics, "other" a codec
\* that is not supported.
Kinds == {"meta", "vseq", "aseq", "key", "inter", "audio", "end", "short", "odd", "other"}
\* As DropPacket sees them; an end of sequence looks like a key frame.
Video == {"vseq", "key", "inter", "end", "short"}
Audio == {"audio", "aseq", "odd"}
KeepVideo == {"vseq", "key", "end"}

ASSUME HlsAssumption ==
    CacheNum \in Nat \ {0} /\ Scripts \subseteq Seq(Kinds \X Nat)

VARIABLES
    keep,    \* the configured hls_keep_after_end
    conns,   \* the Source in server.conns, or None
    src,     \* the Sources made so far
    pub,     \* per loop: where it is, its Source, whether that is still in the
             \* stream, what is left to send
    clk,     \* time.Now().Unix(), when a segment was last given a name
    jan,     \* the Source that the janitor of the streams is closing
    idle,    \* Sources whose last SetPreTime is longer ago than the timeout
    req,     \* the request being served
    segs,    \* history: per Source, the segments it has cut
    dup,     \* history: a segment got the name of an earlier one
    hlsCrashed  \* a panic or fatal error nobody recovers from

hlsVars == <<keep, conns, src, pub, clk, jan, idle, req, segs, dup, hlsCrashed>>

None    == 0
NoFrame == [id |-> 0, kind |-> "none", ms |-> 0]
NoItem  == [name |-> -1, seq |-> 0, dur |-> 0, data |-> <<>>]
NoReq   == [pc |-> "idle", s |-> None, e |-> 0, out |-> <<>>, had |-> FALSE, raced |-> FALSE]

\* NewSource.  `chan`: packetQueue is open; `alloc`: the pointers are not nil;
\* `bts` and `open`: what btswriter holds, once there is one; ll and lm: the
\* TSCacheItem, a list of names (with the elements' identities) and a map.
NewSource == [closed |-> FALSE, chan |-> TRUE, alloc |-> TRUE, queue |-> <<>>,
              pc |-> "top", cur |-> NoFrame, conf |-> FALSE,
              open |-> FALSE, bts |-> <<>>, audio |-> <<>>,
              hasFirst |-> FALSE, first |-> 0, last |-> 0,
              seq |-> 0, item |-> NoItem, ll |-> <<>>, lm |-> {}]

HlsInit ==
    /\ keep \in BOOLEAN
    /\ conns = None /\ src = <<>> /\ segs = <<>>
    /\ pub = [l \in Loops |-> [pc |-> "idle", s |-> None, rounds |-> 0, todo |-> <<>>, n |-> 0,
                             inws |-> TRUE]]
    /\ clk = 0 /\ jan = None /\ idle = {} /\ req = NoReq
    /\ dup = FALSE /\ hlsCrashed = FALSE

Sources == DOMAIN src
SourceAt(s, place) == ~hlsCrashed /\ src[s].pc = place

---------------------------------------------------------------------------
(* GetWriter, when a stream is published                                   *)

GetWriterLoad(l) ==
    /\ ~hlsCrashed /\ pub[l].pc = "idle"
    /\ \E t \in Scripts : pub' = [pub EXCEPT ![l].todo = t, ![l].s = conns,
                                  ![l].pc = IF conns = None THEN "make" ELSE "live"]
    /\ UNCHANGED <<keep, conns, src, clk, jan, idle, req, segs, dup, hlsCrashed>>

GetWriterStore(l) ==
    /\ ~hlsCrashed /\ pub[l].pc = "make"
    /\ src' = Append(src, NewSource) /\ segs' = Append(segs, <<>>)
    /\ conns' = Len(src) + 1
    /\ pub' = [pub EXCEPT ![l].s = Len(src) + 1, ![l].pc = "live"]
    /\ UNCHANGED <<keep, clk, jan, idle, req, dup, hlsCrashed>>

---------------------------------------------------------------------------
(* Write and DropPacket                                                    *)

Frame(l) == [id |-> pub[l].n + 1, kind |-> Head(pub[l].todo)[1], ms |-> Head(pub[l].todo)[2]]
NextFrame(p) == [p EXCEPT !.todo = Tail(@), !.n = @ + 1]

\* The writer is removed from its stream when it returns an error: it is
\* closed, or it was closed after the first test and the send panics.
Write(l) ==
    LET s == pub[l].s IN
    /\ ~hlsCrashed /\ pub[l].pc = "live" /\ pub[l].todo # <<>>
    /\ \/ /\ src[s].closed \/ ~src[s].chan
          /\ pub' = [pub EXCEPT ![l].pc = "gone"] /\ UNCHANGED src
       \/ /\ ~src[s].closed /\ src[s].chan /\ Len(src[s].queue) >= HighWater
          /\ pub' = [pub EXCEPT ![l] = [NextFrame(@) EXCEPT !.pc = "drop", !.rounds = DropRounds]]
          /\ UNCHANGED src
       \/ /\ ~src[s].closed /\ src[s].chan /\ Len(src[s].queue) < HighWater
          /\ src' = [src EXCEPT ![s].queue = Append(@, Frame(l))]
          /\ pub' = [pub EXCEPT ![l] = NextFrame(@)]
    /\ idle' = IF src[s].closed THEN idle ELSE idle \ {s}
    /\ UNCHANGED <<keep, conns, clk, jan, req, segs, dup, hlsCrashed>>

\* A round of DropPacket on a queue that is not empty.
DropOne(q) ==
    LET p == Head(q)
        r == IF p.kind \in KeepVideo THEN Append(Tail(q), p) ELSE Tail(q)
    IN IF p.kind \in Audio
       THEN IF Len(Tail(q)) > AudioMark THEN Tail(Tail(q)) ELSE Append(Tail(q), p)
       ELSE IF p.kind \in Video /\ Len(r) > VideoMark THEN Tail(r) ELSE r

\* The packet at the head is put back.
Requeued(q) ==
    q # <<>> /\ (Head(q).kind \in KeepVideo \/ (Head(q).kind \in Audio /\ Len(Tail(q)) <= AudioMark))

\* On an empty queue the loop waits; on a closed one a packet that would be
\* put back makes it panic, and Write return an error.
DropRound(l) ==
    LET s == pub[l].s
        q == src[s].queue
    IN
    /\ ~hlsCrashed /\ pub[l].pc = "drop"
    /\ \/ /\ src[s].chan /\ q # <<>>
          /\ src' = [src EXCEPT ![s].queue = DropOne(q)]
       \/ ~src[s].chan /\ src' = [src EXCEPT ![s].queue = IF q = <<>> THEN q ELSE Tail(q)]
    /\ pub' = [pub EXCEPT ![l].rounds = @ - 1,
                          ![l].pc = IF Requeued(q) /\ ~src[s].chan THEN "gone"
                                    ELSE IF pub[l].rounds > 1 THEN "drop"
                                    ELSE IF pub[l].inws THEN "live" ELSE "gone"]
    /\ UNCHANGED <<keep, conns, clk, jan, idle, req, segs, dup, hlsCrashed>>

---------------------------------------------------------------------------
(* Close                                                                   *)

\* Mutant: the channel stays open.
CleanupOpen(s) ==
    /\ src' = [src EXCEPT ![s].alloc = FALSE] /\ UNCHANGED hlsCrashed

\* cleanup.  Closing a closed channel panics.
Cleanup(s) ==
    /\ src' = [src EXCEPT ![s].chan = FALSE, ![s].alloc = FALSE]
    /\ hlsCrashed' = ~src[s].chan

\* Close, up to the assignment of `closed`.
CloseBegin(s) ==
    \/ ~src[s].closed /\ ~keep /\ Cleanup(s)
    \/ (src[s].closed \/ keep) /\ UNCHANGED <<src, hlsCrashed>>

\* closeInter, when the loop ends.
CloseInter(l) ==
    /\ ~hlsCrashed
    /\ \/ pub[l].pc = "live" /\ CloseBegin(pub[l].s) /\ pub' = [pub EXCEPT ![l].pc = "closing"]
       \/ pub[l].pc = "gone" /\ UNCHANGED <<src, hlsCrashed>> /\ pub' = [pub EXCEPT ![l].pc = "ended"]
    /\ UNCHANGED <<keep, conns, clk, jan, idle, req, segs, dup>>

CloseInterEnd(l) ==
    /\ ~hlsCrashed /\ pub[l].pc = "closing"
    /\ src' = [src EXCEPT ![pub[l].s].closed = TRUE]
    /\ pub' = [pub EXCEPT ![l].pc = "ended"]
    /\ UNCHANGED <<keep, conns, clk, jan, idle, req, segs, dup, hlsCrashed>>

\* CheckAlive of the streams: a writer that has timed out is removed from its
\* stream and closed.  A loop that is in Write stays there.
CheckAlive(l) ==
    /\ ~hlsCrashed /\ jan = None /\ pub[l].s \in idle
    /\ pub[l].inws /\ pub[l].pc \in {"live", "drop", "closing"}
    /\ CloseBegin(pub[l].s) /\ jan' = pub[l].s
    /\ pub' = [pub EXCEPT ![l].inws = FALSE, ![l].pc = IF @ = "live" THEN "gone" ELSE @]
    /\ UNCHANGED <<keep, conns, clk, idle, req, segs, dup>>

CheckAliveEnd ==
    /\ ~hlsCrashed /\ jan # None
    /\ src' = [src EXCEPT ![jan].closed = TRUE] /\ jan' = None
    /\ UNCHANGED <<keep, conns, pub, clk, idle, req, segs, dup, hlsCrashed>>

\* checkStop of the server.
CheckStop(s) ==
    /\ ~hlsCrashed /\ conns = s /\ s \in idle /\ ~keep
    /\ conns' = None
    /\ UNCHANGED <<keep, src, pub, clk, jan, idle, req, segs, dup, hlsCrashed>>

\* The timeout of a Source passes: no packet comes.  (After a while nobody
\* looks at it any more.)
Timeout(s) ==
    /\ ~hlsCrashed /\ s \notin idle
    /\ conns = s \/ \E l \in Loops : pub[l].s = s /\ pub[l].pc \in {"live", "drop", "closing"}
    /\ idle' = idle \cup {s}
    /\ UNCHANGED <<keep, conns, src, pub, clk, jan, req, segs, dup, hlsCrashed>>

---------------------------------------------------------------------------
(* SendPacket                                                              *)

Quiet == UNCHANGED <<keep, conns, pub, jan, idle, req, hlsCrashed>>

SendTop(s) ==
    /\ SourceAt(s, "top")
    /\ src' = [src EXCEPT ![s].pc = IF src[s].closed THEN "ended" ELSE "recv"]
    /\ UNCHANGED <<clk, segs, dup>> /\ Quiet

SendRecv(s) ==
    /\ SourceAt(s, "recv")
    /\ \/ /\ src[s].queue # <<>>
          /\ src' = [src EXCEPT ![s].queue = Tail(@), ![s].cur = Head(src[s].queue), ![s].pc = "work"]
       \/ src[s].queue = <<>> /\ ~src[s].chan /\ src' = [src EXCEPT ![s].pc = "ended", ![s].closed = TRUE]
    /\ UNCHANGED <<clk, segs, dup>> /\ Quiet

\* The end of a round, of the goroutine, of the goroutine by a panic.
Again(r)  == [r EXCEPT !.pc = "top", !.cur = NoFrame]
Failed(r) == [r EXCEPT !.pc = "ended", !.cur = NoFrame, !.closed = TRUE]
Panics(r) == [r EXCEPT !.pc = "ended", !.cur = NoFrame]

\* Mutant: the cached audio goes to the next segment.
FlushAudioNot(r) == r

\* muxAudio: the cached audio, as one frame, to btswriter.
FlushAudio(r) == [r EXCEPT !.bts = @ \o r.audio, !.audio = <<>>]

\* stat.update, and tsMux: video is written, audio is cached.
Mux(r) ==
    LET f == r.cur
        u == [r EXCEPT !.hasFirst = TRUE, !.first = IF r.hasFirst THEN @ ELSE f.ms, !.last = f.ms]
        a == [u EXCEPT !.audio = Append(@, f)]
    IN Again(IF ~r.open THEN r
             ELSE IF f.kind # "audio" THEN [u EXCEPT !.bts = Append(@, f)]
             ELSE IF Len(a.audio) >= AudioFrames THEN FlushAudio(a) ELSE a)

\* cut: parse calls it for key frames.
IsCut(r) == r.cur.kind = "key" /\ r.open /\ r.last - r.first >= Duration

\* Demux, parse and, when the packet starts no new segment, mux.
SendWork(s) ==
    LET r == src[s]
        k == r.cur.kind
        media == k \in {"key", "inter", "audio"}
    IN
    /\ SourceAt(s, "work") /\ ~(r.alloc /\ IsCut(r))
    /\ src' = [src EXCEPT ![s] =
         IF k \in {"meta", "end", "other", "vseq"} THEN Again(r)
         ELSE IF k = "aseq" THEN Again([r EXCEPT !.conf = TRUE])
         ELSE IF k = "short" THEN Failed(r)
         ELSE IF k = "odd" \/ (media /\ ~r.alloc) THEN Panics(r)
         ELSE IF k = "audio" /\ ~r.conf THEN Again(r)
         ELSE Mux([r EXCEPT !.open = @ \/ k = "key"])]
    /\ UNCHANGED <<clk, segs, dup>> /\ Quiet

\* A segment is complete.  Its name is the second of the clock, which may or
\* may not be that of the one before.
SendCut(s) ==
    LET r == FlushAudio(src[s]) IN
    /\ SourceAt(s, "work") /\ r.alloc /\ IsCut(r)
    /\ clk' \in {clk, clk + 1}
    /\ src' = [src EXCEPT ![s] = [r EXCEPT !.pc = "evict", !.seq = @ + 1,
         !.item = [name |-> clk', seq |-> r.seq + 1, dur |-> r.last - r.first, data |-> r.bts]]]
    /\ UNCHANGED <<segs, dup>> /\ Quiet

\* Mutant: one segment less is kept.
IsFullEarly(r) == Len(r.ll) >= CacheNum - 1

IsFull(r) == Len(r.ll) = CacheNum

\* SetItem drops the oldest segment ...
SetItemEvict(s) ==
    LET r == src[s] IN
    /\ SourceAt(s, "evict")
    /\ src' = [src EXCEPT ![s] =
         IF ~r.alloc THEN Panics(r)
         ELSE IF IsFull(r) /\ r.ll # <<>>
              THEN [r EXCEPT !.pc = "store", !.ll = Tail(@), !.lm = {i \in @ : i.name # Head(r.ll)[1]}]
         ELSE [r EXCEPT !.pc = "store"]]
    /\ UNCHANGED <<clk, segs, dup>> /\ Quiet

\* Mutant: the new segment goes to the front.
PushBackFront(ll, e) == <<e>> \o ll

PushBack(ll, e) == Append(ll, e)

\* ... and stores the new one, over one that has the same name.  btswriter and
\* the status start again, and the key frame is written.
SetItemStore(s) ==
    LET r == src[s]
        kept == {i \in r.lm : i.name # r.item.name}
        reset == [r EXCEPT !.ll = PushBack(@, <<r.item.name, r.item.seq>>), !.lm = kept \cup {r.item},
                           !.item = NoItem, !.bts = <<>>, !.hasFirst = FALSE]
    IN
    /\ SourceAt(s, "store")
    /\ IF r.alloc THEN /\ src' = [src EXCEPT ![s] = Mux(reset)]
                       /\ segs' = [segs EXCEPT ![s] = Append(@, r.item)]
                       /\ dup' = (dup \/ \E i \in DOMAIN segs[s] : segs[s][i].name = r.item.name)
                  ELSE src' = [src EXCEPT ![s] = Panics(r)] /\ UNCHANGED <<segs, dup>>
    /\ UNCHANGED clk /\ Quiet

---------------------------------------------------------------------------
(* handle                                                                  *)

QuietR == UNCHANGED <<keep, conns, src, pub, clk, jan, idle, segs, dup>>
Setting(s) == src[s].pc \in {"evict", "store"}

\* A playlist: ErrNoPublisher, or the list is walked from its front.
ReqPlaylist ==
    /\ ~hlsCrashed /\ req.pc = "idle" /\ conns # None /\ src[conns].alloc
    /\ req' = [NoReq EXCEPT !.pc = IF src[conns].ll = <<>> THEN "done" ELSE "walk", !.s = conns,
                            !.e = IF src[conns].ll = <<>> THEN 0 ELSE Head(src[conns].ll)[2],
                            !.had = src[conns].ll # <<>>, !.raced = Setting(conns)]
    /\ UNCHANGED hlsCrashed /\ QuietR

\* One element: its name is looked up in the map, which Go may find being
\* written and then ends the process; Next of a removed element is nil.
ReqWalk ==
    LET s == req.s
        at == {i \in DOMAIN src[s].ll : src[s].ll[i][2] = req.e}
        next == {src[s].ll[i + 1][2] : i \in {j \in at : j < Len(src[s].ll)}}
        name == segs[s][req.e].name
        hit == {i \in src[s].lm : i.name = name}
    IN
    /\ ~hlsCrashed /\ req.pc = "walk"
    /\ hlsCrashed' \in {FALSE, Setting(s)}
    /\ req' = [req EXCEPT !.out = IF hit = {} THEN @ ELSE Append(@, CHOOSE i \in hit : TRUE),
                          !.e = IF next = {} THEN 0 ELSE CHOOSE n \in next : TRUE,
                          !.pc = IF next = {} THEN "done" ELSE "walk",
                          !.raced = @ \/ Setting(s) \/ at = {}]
    /\ QuietR

\* The player asks for a segment of the playlist, or leaves.  The Source is
\* looked up again; a nil TSCacheItem is dereferenced, net/http recovers.
ReqSegment ==
    /\ ~hlsCrashed /\ req.pc = "done" /\ req.out # <<>> /\ conns = req.s
    /\ \E i \in DOMAIN req.out :
         LET found == \E x \in src[req.s].lm : x.name = req.out[i].name
         IN req' = [req EXCEPT !.pc = IF ~src[req.s].alloc THEN "panic"
                                      ELSE IF found THEN "served" ELSE "nokey",
                               !.e = req.out[i].seq]
    /\ hlsCrashed' \in {FALSE, Setting(req.s)}
    /\ QuietR

ReqEnd ==
    /\ req.pc \in {"done", "served", "nokey", "panic"} /\ req' = NoReq
    /\ UNCHANGED hlsCrashed /\ QuietR

---------------------------------------------------------------------------
SendPacket(s) == SendTop(s) \/ SendRecv(s) \/ SendWork(s) \/ SendCut(s) \/ SetItemEvict(s) \/ SetItemStore(s)
Request == ReqPlaylist \/ ReqWalk \/ ReqSegment \/ ReqEnd

HlsNext ==
    \/ \E l \in Loops : GetWriterLoad(l) \/ GetWriterStore(l) \/ Write(l) \/ DropRound(l)
                        \/ CloseInter(l) \/ CloseInterEnd(l) \/ CheckAlive(l)
    \/ \E s \in Sources : SendPacket(s) \/ CheckStop(s) \/ Timeout(s)
    \/ CheckAliveEnd \/ Request

HlsSpec == HlsInit /\ [][HlsNext]_hlsVars

\* Goroutines that can step do; the janitor and checkStop run for ever, and a
\* Source that nobody writes to times out.
HlsFairness ==
    /\ \A l \in Loops : WF_hlsVars(DropRound(l)) /\ WF_hlsVars(CheckAlive(l)) /\ WF_hlsVars(CloseInterEnd(l))
    /\ WF_hlsVars(CheckAliveEnd)
    /\ \A s \in 1 .. Cardinality(Loops) :
         /\ WF_hlsVars(s \in Sources /\ SendPacket(s))
         /\ WF_hlsVars(s \in Sources /\ CheckStop(s))
         /\ WF_hlsVars(s \in Sources /\ Timeout(s))

---------------------------------------------------------------------------
(* Properties                                                              *)

IsClosed(s) == s \in Sources /\ src[s].closed

\* The type invariant.
HlsTypeOK ==
    /\ conns \in Sources \cup {None} /\ idle \subseteq Sources /\ jan \in Sources \cup {None}
    /\ \A s \in Sources :
         /\ src[s].pc \in {"top", "recv", "work", "evict", "store", "ended"}
         /\ Len(src[s].ll) <= CacheNum /\ src[s].seq \in {Len(segs[s]), Len(segs[s]) + 1}
    /\ \A l \in Loops :
         pub[l].pc \in {"idle", "make", "live", "drop", "gone", "closing", "ended"}

\* The audio is in order, and so is the rest.
InOrder(d) ==
    \A m, n \in DOMAIN d :
        m < n /\ ((d[m].kind = "audio") <=> (d[n].kind = "audio")) => d[m].id < d[n].id

\* A segment can be decoded by itself and nothing between two of them is lost:
\* it starts with a key frame and holds the frames, audio that was cached
\* included, from that key frame to the one that starts the next segment (cut,
\* flushAudio), each kind in order and once.
SegmentsWhole ==
    \A s \in Sources :
        LET all == Append(segs[s], [NoItem EXCEPT !.data = src[s].bts \o src[s].audio])
        IN \A i \in DOMAIN segs[s] :
            /\ all[i].data[1].kind = "key"
            /\ \A m \in DOMAIN all[i].data : all[i].data[m].id >= all[i].data[1].id
            /\ InOrder(all[i].data)
            /\ \A m \in DOMAIN all[i].data : \A n \in DOMAIN all[i + 1].data :
                 all[i].data[m].id < all[i + 1].data[n].id

\* A playlist names consecutive segments, and is empty only if there are none
\* or a segment was added while it was made (the race that the comment at
\* cache.go:39 admits) - as long as no two segments got the same second for
\* their name.
PlaylistConsecutive ==
    req.pc = "done" /\ ~dup =>
        /\ \A i \in DOMAIN req.out : req.out[i].seq = req.out[1].seq + i - 1
        /\ req.had /\ ~req.raced => req.out # <<>>

\* A segment of a playlist is served until CacheNum newer ones have been made
\* (names again being different); the handler panics on a nil TSCacheItem
\* (hls.go:141) only after the end of a stream that is not kept.
ListedIsServed ==
    /\ req.pc = "nokey" /\ ~dup => src[req.s].seq >= req.e + CacheNum
    /\ req.pc = "panic" => ~keep /\ ~src[req.s].chan

\* A loop comes back from DropPacket, even if it has waited on a queue that
\* SendPacket has emptied meanwhile: the writer times out and closing it closes
\* the channel - unless HLS is kept after the end, or SendPacket has failed and
\* has set `closed` (line 62), so that Close leaves the channel open.
DropReturns ==
    \A l \in Loops :
        pub[l].pc = "drop" ~> \/ pub[l].pc # "drop" \/ keep \/ hlsCrashed
                              \/ IsClosed(pub[l].s) /\ src[pub[l].s].chan

\* SendPacket of a Source that is closed ends, unless HLS is kept after the
\* end: then it waits on its channel for ever (line 136).
SourceEnds ==
    \A s \in 1 .. Cardinality(Loops) :
        IsClosed(s) ~> ((s \in Sources /\ src[s].pc = "ended") \/ keep \/ hlsCrashed)

\* The server forgets a closed Source, so that the stream can be published on
\* HLS again - unless it is kept (hls.go:69, :93).
SourceForgotten ==
    \A s \in 1 .. Cardinality(Loops) :
        (IsClosed(s) /\ conns = s) ~> (conns # s \/ keep \/ hlsCrashed)

\* What SendPacket cuts is typed and whole.
HlsSafe == HlsTypeOK /\ SegmentsWhole

\* Nothing waits for ever for a Source or stays behind one: neither a loop in
\* DropPacket, nor SendPacket, nor the entry of the server.
HlsEnds == DropReturns /\ SourceEnds /\ SourceForgotten
=============================================================================
