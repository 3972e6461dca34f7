------------------------------- MODULE Fanout -------------------------------
(***************************************************************************)
(* The loop of Stream.TransStart (src/protocol/rtmp/stream.go) between the *)
(* publisher, the cache and the players of one stream: a packet is read,   *)
(* cached, and given to every writer in s.ws; a writer that is new gets    *)
(* the contents of the cache instead.  Players join and leave at any time, *)
(* also in the middle of s.ws.Range.                                       *)
(***************************************************************************)
EXTENDS Cache, SequencesExt

CONSTANTS
    Players,     \* the writers of the stream
    MaxPackets   \* bound: number of packets of the publisher

VARIABLES
    pub,    \* history: the packets read from the publisher
    ws,     \* keys of s.ws
    init,   \* PackWriterCloser.init
    todo,   \* writers the running s.ws.Range has still to visit
    got     \* history: the packets written to each writer

fanVars == <<pub, ws, init, todo, got>>

FanInit ==
    /\ Init
    /\ pub = <<>> /\ ws = {} /\ todo = {}
    /\ init = [w \in Players |-> FALSE]
    /\ got = [w \in Players |-> <<>>]

\* AddWriter.  A Range that is running may or may not see the new key.
Join(w) ==
    /\ w \notin ws /\ got[w] = <<>>
    /\ ws' = ws \cup {w}
    /\ init' = [init EXCEPT ![w] = FALSE]
    /\ \/ UNCHANGED todo
       \/ todo # {} /\ todo' = todo \cup {w}
    /\ UNCHANGED <<cacheVars, pub, got>>

\* A writer is closed by somebody else and removed from s.ws.
Leave(w) ==
    /\ w \in ws
    /\ ws' = ws \ {w} /\ todo' = todo \ {w}
    /\ UNCHANGED <<cacheVars, pub, init, got>>

\* s.r.Read(&p), s.cache.Write(p), and s.ws.Range begins.
ReadPacket(p) ==
    /\ todo = {} /\ p.id = Len(pub) + 1
    /\ Write(p)
    /\ pub' = Append(pub, p)
    /\ todo' = ws
    /\ UNCHANGED <<ws, init, got>>

\* SpecialCache.Send sends the packet it has, if any.
SpecialSend(p) == IF p = NoPacket THEN <<>> ELSE <<p>>

\* Cache.Send: what a new writer is sent, in this order.
Snapshot ==
    SpecialSend(meta) \o SpecialSend(vseq) \o SpecialSend(aseq) \o FlattenSeq(SendOrder)

\* Mutant: a new writer gets the cache and then the packet as well.
FirstTimeTwice(w) ==
    /\ got' = [got EXCEPT ![w] = @ \o Snapshot \o <<Last(pub)>>]
    /\ init' = [init EXCEPT ![w] = TRUE]

\* The branch for a new writer: the packet itself reaches it with the cache.
FirstTime(w) ==
    /\ got' = [got EXCEPT ![w] = @ \o Snapshot]
    /\ init' = [init EXCEPT ![w] = TRUE]

\* One call of the function given to s.ws.Range.
Visit(w) ==
    /\ w \in todo
    /\ todo' = todo \ {w}
    /\ \/ ~init[w] /\ FirstTime(w)
       \/ init[w] /\ got' = [got EXCEPT ![w] = Append(@, Last(pub))] /\ UNCHANGED init
    /\ UNCHANGED <<cacheVars, pub, ws>>

\* The same with an error of w.Write or cache.Send: the writer is removed.
VisitFails(w) ==
    /\ w \in todo
    /\ todo' = todo \ {w} /\ ws' = ws \ {w}
    /\ UNCHANGED <<cacheVars, pub, init, got>>

FanNext ==
    \/ \E p \in Packets : ReadPacket(p)
    \/ \E w \in Players : Join(w) \/ Leave(w) \/ Visit(w) \/ VisitFails(w)

FanSpec == FanInit /\ [][FanNext]_<<cacheVars, fanVars>>

---------------------------------------------------------------------------
(* Properties                                                              *)

IsFrame(p) == p.kind \in {"key", "inter"}
IsSeq(p)   == p.kind = "seq"

\* The number of packets the stream has offered to w so far.
Offered(w) == IF w \in todo THEN Len(pub) - 1 ELSE Len(pub)

\* The number of frames from packet k to n.
FrameCount(packets, k, n) == Cardinality({j \in k .. n : IsFrame(packets[j])})

\* Some group of pictures of the first n packets does not fit into the cache.
GopTooBig(packets, n) ==
    \E i, m \in 1 .. n :
        /\ packets[i].kind = "key"
        /\ \A j \in i + 1 .. m : packets[j].kind # "key"
        /\ FrameCount(packets, i, m) > MaxGopCap

\* The frames in s are the frames from packets k to n, each once and in order.
SameFrames(s, packets, k, n) ==
    /\ \A j \in DOMAIN s : IsFrame(s[j]) => s[j].id \in k .. n /\ s[j] = packets[s[j].id]
    /\ \A i, j \in DOMAIN s : i < j /\ IsFrame(s[i]) /\ IsFrame(s[j]) => s[i].id < s[j].id
    /\ \A i \in k .. n : IsFrame(packets[i]) => \E j \in DOMAIN s : s[j] = packets[i]

\* Every player sees the video of the publisher without a gap and without a
\* repetition from a key frame on (from where it joined, if there was no
\* key frame yet), wherever in the loop it joins - unless a group of
\* pictures is larger than the cache, whose error writeToArray ignores.
PlayersSeeWholeGops ==
    \A w \in ws :
        init[w] /\ ~GopTooBig(pub, Offered(w)) =>
            \E k \in 1 .. Offered(w) + 1 :
                /\ SameFrames(got[w], pub, k, Offered(w))
                /\ \/ k <= Offered(w) /\ pub[k].kind = "key"
                   \/ \A j \in 1 .. k - 1 : pub[j].kind # "key"

\* The identity of the last sequence header in the first n packets of s.
HeaderIn(s, n) ==
    LET h == {i \in 1 .. n : IsSeq(s[i])} IN IF h = {} THEN 0 ELSE s[Max(h)].id

\* A player never decodes a frame with a sequence header older than the one
\* the publisher encoded it with (it may be newer: Cache.Send sends the
\* latest header before frames that were cached earlier).
NeverStaleHeader ==
    \A w \in Players : \A j \in DOMAIN got[w] :
        IsFrame(got[w][j]) => HeaderIn(got[w], j) >= HeaderIn(pub, got[w][j].id)
=============================================================================
