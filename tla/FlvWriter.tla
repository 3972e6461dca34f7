------------------------------ MODULE FlvWriter ------------------------------
(***************************************************************************)
(* An HTTP-FLV player: FLVWriter of src/protocol/httpflv/writer.go.  The   *)
(* HTTP handler makes the writer, puts it into the stream and waits for    *)
(* closedChan; the TransStart loop of the stream writes to a queue, a      *)
(* goroutine (SendPacket) writes tags to the response; the janitor and the *)
(* loop, when it ends, call Close.  It differs from VirWriter in what      *)
(* DropPacket throws away and in what Close closes.                        *)
(***************************************************************************)
EXTENDS Integers, Sequences

CONSTANTS
    FlvKinds,     \* kinds of packets: "meta", "badmeta" (not AMF), "audio",
                  \* "seq", "key" and "inter"
    FlvCap,       \* maxQueueNum
    FlvHighWater, \* maxQueueNum-24
    FlvRounds,    \* maxQueueNum-84
    FlvMark,      \* maxQueueNum-10
    FlvPackets    \* bound: packets written

ASSUME FlvAssumption ==
    /\ FlvCap \in Nat /\ FlvHighWater \in Nat /\ FlvMark \in Nat /\ FlvPackets \in Nat
    /\ FlvRounds \in Nat \ {0}
    /\ FlvKinds \subseteq {"meta", "badmeta", "audio", "seq", "key", "inter"}

VARIABLES
    fq, fopen,    \* packetQueue, and whether it is open; so is closedChan
    fclosed,      \* closed
    wpc, wpkt, wrounds,  \* the loop: its place in Write, tmpPkt, rounds left
    fspc, fsend,  \* SendPacket: its place, the packet it writes
    ccpc,         \* per caller of Close: its place
    handler,      \* the HTTP handler: "wait" or "returned"
    fcrashed,     \* close of a closed channel
    fn, fsent     \* history: packets written so far; tags sent, in order

flvVars == <<fq, fopen, fclosed, wpc, wpkt, wrounds, fspc, fsend, ccpc, handler, fcrashed, fn, fsent>>

FCallers == {"janitor", "loop"}
NoTag    == [id |-> 0, kind |-> "none"]
FVideo   == {"seq", "key", "inter"}

\* NewFLVWriter marks the writer closed when the header cannot be written, and
\* starts SendPacket all the same.
FlvInit ==
    /\ fq = <<>> /\ fopen = TRUE /\ fclosed \in BOOLEAN
    /\ wpc = "idle" /\ wpkt = NoTag /\ wrounds = 0
    /\ fspc = "recv" /\ fsend = NoTag
    /\ ccpc = [c \in FCallers |-> "idle"] /\ handler = "wait" /\ fcrashed = FALSE
    /\ fn = 0 /\ fsent = <<>>

QueueOnly == UNCHANGED <<fopen, fclosed, fspc, fsend, ccpc, handler, fcrashed, fn, fsent>>

---------------------------------------------------------------------------
(* Write and DropPacket                                                    *)

QueueFull == Len(fq) >= FlvHighWater

FlvWrite ==
    /\ ~fcrashed /\ wpc = "idle" /\ fn < FlvPackets /\ ccpc["loop"] = "idle"
    /\ \/ /\ fclosed \/ (~fopen /\ ~QueueFull)
          /\ wpc' = "gone" /\ UNCHANGED <<fq, wrounds, fn>>
       \/ /\ ~fclosed /\ fn' = fn + 1
          /\ \/ /\ QueueFull
                /\ wpc' = "pop" /\ wrounds' = FlvRounds /\ UNCHANGED fq
             \/ /\ ~QueueFull /\ fopen
                /\ \E k \in FlvKinds : fq' = Append(fq, [id |-> fn + 1, kind |-> k])
                /\ UNCHANGED <<wpc, wrounds>>
    /\ UNCHANGED <<fopen, fclosed, wpkt, fspc, fsend, ccpc, handler, fcrashed, fsent>>

RoundEnd == wrounds' = wrounds - 1 /\ wpc' = IF wrounds > 1 THEN "pop" ELSE "idle"

\* Mutant: every video packet is put back.
IsKeptAll(p) == p.kind \in FVideo

\* The sps config and key frames are put back.
IsKept(p) == p.kind \in {"seq", "key"}

DropTake ==
    /\ ~fcrashed /\ wpc = "pop"
    /\ \/ /\ fq # <<>> /\ fq' = Tail(fq)
          /\ \/ /\ Head(fq).kind \in FVideo /\ UNCHANGED wrounds
                /\ wpc' = IF IsKept(Head(fq)) THEN "requeue" ELSE "mark"
                /\ wpkt' = IF IsKept(Head(fq)) THEN Head(fq) ELSE NoTag
             \/ Head(fq).kind = "audio" /\ wpc' = "audio" /\ wpkt' = Head(fq) /\ UNCHANGED wrounds
             \/ Head(fq).kind \in {"meta", "badmeta"} /\ RoundEnd /\ UNCHANGED wpkt
       \/ fq = <<>> /\ ~fopen /\ RoundEnd /\ UNCHANGED <<fq, wpkt>>
    /\ QueueOnly

\* Putting back panics on a closed channel, and Write returns an error.
PutBack(next) ==
    /\ wpkt' = NoTag
    /\ \/ fopen /\ Len(fq) < FlvCap /\ fq' = Append(fq, wpkt) /\ next
       \/ ~fopen /\ wpc' = "gone" /\ UNCHANGED <<fq, wrounds>>

DropRequeue ==
    /\ ~fcrashed /\ wpc = "requeue"
    /\ PutBack(wpc' = "mark" /\ UNCHANGED wrounds)
    /\ QueueOnly

DropAudioBack ==
    /\ ~fcrashed /\ wpc = "audio"
    /\ PutBack(RoundEnd)
    /\ QueueOnly

\* After a video packet one more goes if the queue is nearly full ...
DropAtMark ==
    /\ ~fcrashed /\ wpc = "mark"
    /\ fq' = IF Len(fq) > FlvMark THEN Tail(fq) ELSE fq
    /\ wpc' = "other"
    /\ UNCHANGED <<wpkt, wrounds>> /\ QueueOnly

\* ... and then one more in any case, whatever it is.
DropOther ==
    /\ ~fcrashed /\ wpc = "other"
    /\ \/ fq # <<>> /\ fq' = Tail(fq)
       \/ fq = <<>> /\ ~fopen /\ UNCHANGED fq
    /\ RoundEnd
    /\ UNCHANGED wpkt /\ QueueOnly

DropPacket == DropTake \/ DropRequeue \/ DropAudioBack \/ DropAtMark \/ DropOther

---------------------------------------------------------------------------
(* SendPacket                                                              *)

FlvRecv ==
    /\ ~fcrashed /\ fspc = "recv"
    /\ \/ /\ fq # <<>> /\ fq' = Tail(fq) /\ fsend' = Head(fq)
          /\ fspc' = "tag" /\ UNCHANGED fclosed
       \/ fq = <<>> /\ ~fopen /\ fspc' = "ended" /\ fclosed' = TRUE /\ UNCHANGED <<fq, fsend>>
    /\ UNCHANGED <<fopen, wpc, wpkt, wrounds, ccpc, handler, fcrashed, fn, fsent>>

\* The tag is written, or one of the three writes fails, or MetaDataReform:
\* the flag is set and both channels stay open.
FlvTag ==
    /\ ~fcrashed /\ fspc = "tag"
    /\ \/ /\ fsend.kind # "badmeta"
          /\ fspc' = "recv" /\ fsent' = Append(fsent, fsend) /\ UNCHANGED fclosed
       \/ fspc' = "failed" /\ fclosed' = TRUE /\ UNCHANGED fsent
    /\ fsend' = NoTag
    /\ UNCHANGED <<fq, fopen, wpc, wpkt, wrounds, ccpc, handler, fcrashed, fn>>

---------------------------------------------------------------------------
(* Close and Wait                                                          *)

FlvCloseTest(c) ==
    /\ ~fcrashed /\ ccpc[c] = "idle"
    /\ wpc # "gone" /\ (c = "loop" => wpc = "idle")
    /\ ccpc' = [ccpc EXCEPT ![c] = IF fclosed THEN "set" ELSE "close"]
    /\ UNCHANGED <<fq, fopen, fclosed, wpc, wpkt, wrounds, fspc, fsend, handler, fcrashed, fn, fsent>>

\* Mutant: the channels stay open.
FlvCloseChansNot(c) ==
    /\ ~fcrashed /\ ccpc[c] = "close"
    /\ ccpc' = [ccpc EXCEPT ![c] = "set"]
    /\ UNCHANGED <<fq, fopen, fclosed, wpc, wpkt, wrounds, fspc, fsend, handler, fcrashed, fn, fsent>>

\* close(packetQueue) and close(closedChan): on closed ones, a panic.
FlvCloseChans(c) ==
    /\ ~fcrashed /\ ccpc[c] = "close"
    /\ fopen' = FALSE /\ fcrashed' = ~fopen
    /\ ccpc' = [ccpc EXCEPT ![c] = "set"]
    /\ UNCHANGED <<fq, fclosed, wpc, wpkt, wrounds, fspc, fsend, handler, fn, fsent>>

FlvCloseSet(c) ==
    /\ ~fcrashed /\ ccpc[c] = "set"
    /\ fclosed' = TRUE /\ ccpc' = [ccpc EXCEPT ![c] = "done"]
    /\ UNCHANGED <<fq, fopen, wpc, wpkt, wrounds, fspc, fsend, handler, fcrashed, fn, fsent>>

FlvClose(c) == FlvCloseTest(c) \/ FlvCloseChans(c) \/ FlvCloseSet(c)

Wait ==
    /\ ~fcrashed /\ handler = "wait" /\ ~fopen
    /\ handler' = "returned"
    /\ UNCHANGED <<fq, fopen, fclosed, wpc, wpkt, wrounds, fspc, fsend, ccpc, fcrashed, fn, fsent>>

FlvNext == FlvWrite \/ DropPacket \/ FlvRecv \/ FlvTag \/ (\E c \in FCallers : FlvClose(c)) \/ Wait

FlvSpec == FlvInit /\ [][FlvNext]_flvVars

\* Goroutines that can step do, but a write to the response may block as long
\* as the player likes.  The janitor closes a writer that sends nothing for the
\* timeout, while it is in the stream; packets being bounded, that comes.
FlvFairness ==
    /\ WF_flvVars(DropPacket) /\ WF_flvVars(FlvRecv) /\ WF_flvVars(Wait)
    /\ WF_flvVars(FlvClose("janitor")) /\ WF_flvVars(ccpc["loop"] # "idle" /\ FlvClose("loop"))

---------------------------------------------------------------------------
(* Properties                                                              *)

\* The type invariant.  The loop alone never fills the queue to its capacity.
FlvTypeOK ==
    /\ Len(fq) <= FlvHighWater /\ wrounds \in 0 .. FlvRounds
    /\ wpc \in {"idle", "pop", "requeue", "mark", "other", "audio", "gone"}
    /\ fspc \in {"recv", "tag", "ended", "failed"} /\ handler \in {"wait", "returned"}

\* What DropPacket does not put back is sent in order: a packet that another
\* one, written after it, has overtaken is a key frame, an sps config or audio.
FlvOnlyKeptOvertaken ==
    \A i, j \in DOMAIN fsent :
        i < j /\ fsent[i].id > fsent[j].id => fsent[j].kind \in {"seq", "key", "audio"}

\* The loop comes back from Write.  DropPacket takes more packets than the
\* queue may hold (line 81) and waits; when the writer has timed out Close ends
\* that - unless SendPacket has failed: then `closed` is set, Close (line 175)
\* closes nothing, and the loop waits for ever.
FlvWriteReturns ==
    wpc \notin {"idle", "gone"} ~> (wpc \in {"idle", "gone"} \/ fspc = "failed" \/ fcrashed)

\* The HTTP handler of a writer that Close finds open returns.  (One whose
\* `closed` an error has set, lines 47, 52 and 58, waits for ever.)
HandlerReturns == (\E c \in FCallers : ccpc[c] = "close") ~> (handler = "returned" \/ fcrashed)

\* The queue stays within its mark, and what it drops keeps the order of the
\* rest (DropPacket).
FlvSafe == FlvTypeOK /\ FlvOnlyKeptOvertaken

\* Neither the loop nor the HTTP handler waits for ever for an FLV player.
FlvEnds == FlvWriteReturns /\ HandlerReturns
=============================================================================
