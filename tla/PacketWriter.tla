--------------------------- MODULE PacketWriter ---------------------------
(***************************************************************************)
(* The outgoing side of one RTMP connection: VirWriter of                  *)
(* src/protocol/rtmp/rtmp.go.  A bounded channel, packetQueue, connects    *)
(* the goroutines that call Write (the TransStart loop of the stream that  *)
(* owns the writer, and for a moment the one of the stream it is moved     *)
(* from or to) with the goroutine running SendPacket.  Close may be called *)
(* by the goroutine running Check, by the janitor (Stream.CheckAlive) and  *)
(* by a TransStart loop that ends (closeInter).  None of the fields is     *)
(* protected by a lock, so every channel operation and every access to     *)
(* `closed` is a step of its own.                                          *)
(***************************************************************************)
EXTENDS Integers, Sequences, FiniteSets

CONSTANTS
    Producers,   \* goroutines that call Write: TransStart loops
    Callers,     \* goroutines that call Close: the one running Check, the
                 \* janitor, and producers whose loop ends (closeInter)
    Janitor,     \* the caller that runs CheckAlive
    Cap,         \* maxQueueNum, the capacity of packetQueue
    HighWater,   \* maxQueueNum-24, Write drops from here on
    DropRounds,  \* maxQueueNum-84, rounds of the loop of DropPacket
    VideoMark,   \* maxQueueNum-10
    AudioMark,   \* maxQueueNum-2
    Kinds,       \* the kinds of packets the publisher sends
    MaxPackets   \* bound: number of calls of Write

AllKinds == {"meta", "audio", "seq", "key", "inter"}

ASSUME ThreadAssumption ==
    /\ IsFiniteSet(Producers)
    /\ Producers # {}
    /\ Janitor \in Callers \ Producers

ASSUME SizeAssumption ==
    /\ Cap \in Nat /\ HighWater \in Nat /\ DropRounds \in Nat
    /\ VideoMark \in Nat /\ AudioMark \in Nat /\ MaxPackets \in Nat
    /\ 0 < DropRounds /\ DropRounds <= HighWater
    /\ HighWater <= VideoMark /\ VideoMark <= AudioMark /\ AudioMark < Cap
    /\ Kinds \subseteq AllKinds

VARIABLES
    queue,      \* packetQueue
    chanClosed, \* close(packetQueue) has been executed
    closed,     \* v.closed
    connClosed, \* v.conn is closed
    pc,         \* per producer: where it is in Write
    cur,        \* per producer: the packet it holds (p or tmpPkt)
    rounds,     \* per producer: rounds of DropPacket that are left
    spc,        \* where SendPacket is
    inflight,   \* the packet handed to conn.Write
    cpc,        \* per caller of Close: where it is
    crashed,    \* a panic nobody recovers from: the process is dead
    overlap,    \* history: two calls of Close were in progress at once
    n,          \* history: number of packets written so far
    sent,       \* history: the packets written to the connection, in order
    dropped,    \* history: the packets DropPacket threw away
    refused,    \* history: the packets that met a full queue
    failed      \* history: the packets lost to an error

chanVars  == <<queue, chanClosed>>
flagVars  == <<closed, connClosed>>
writeVars == <<pc, cur, rounds>>
sendVars  == <<spc, inflight>>
closeVars == <<cpc, crashed, overlap>>
outVars   == <<sent, dropped, refused, failed>>
histVars  == <<n, outVars>>
vars == <<chanVars, flagVars, writeVars, sendVars, closeVars, histVars>>

Packet   == [id : 1 .. MaxPackets, kind : Kinds, by : Producers]
NoPacket == [id |-> 0, kind |-> "none", by |-> "none"]

Init ==
    /\ queue = <<>> /\ chanClosed = FALSE
    /\ closed = FALSE /\ connClosed = FALSE
    /\ pc = [p \in Producers |-> "idle"]
    /\ cur = [p \in Producers |-> NoPacket]
    /\ rounds = [p \in Producers |-> 0]
    /\ spc = "recv" /\ inflight = NoPacket
    /\ cpc = [c \in Callers |-> "idle"]
    /\ crashed = FALSE /\ overlap = FALSE
    /\ n = 0
    /\ sent = <<>> /\ dropped = {} /\ refused = {} /\ failed = {}

---------------------------------------------------------------------------
(* Write and DropPacket                                                    *)

\* Mutant: off by one.
QueueHighLate == Len(queue) > HighWater

\* The guard of the overflow branch of Write, line 291.
QueueHigh == Len(queue) >= HighWater

\* The packets that DropPacket tells apart: audio, video and, of these, the
\* sps config and key frames it puts back.
IsAudio(p) == p.kind = "audio"
IsVideo(p) == p.kind \in {"seq", "key", "inter"}

\* Mutants: the sps config is forgotten; every video packet is kept.
KeepVideoNoSeq(p) == p.kind = "key"
KeepVideoAll(p) == p.kind \in {"seq", "key", "inter"}

KeepVideo(p) == p.kind \in {"seq", "key"}

Goto(p, l)   == pc' = [pc EXCEPT ![p] = l]
Hold(p, pkt) == cur' = [cur EXCEPT ![p] = pkt]
Release(p)   == Hold(p, NoPacket)

\* Write is called; a writer marked closed is refused and the caller, which
\* removes it from its stream, never calls again.
WriteCall(p) ==
    /\ ~crashed /\ pc[p] = "idle" /\ n < MaxPackets
    /\ p \in Callers => cpc[p] = "idle"
    /\ \/ closed /\ Goto(p, "gone") /\ UNCHANGED <<cur, n>>
       \/ /\ ~closed
          /\ n' = n + 1
          /\ \E k \in Kinds : Hold(p, [id |-> n + 1, kind |-> k, by |-> p])
          /\ Goto(p, "len")
    /\ UNCHANGED <<chanVars, flagVars, rounds, sendVars, closeVars, outVars>>

\* The overflow test.  In the overflow branch p itself is never enqueued.
WriteLen(p) ==
    /\ ~crashed /\ pc[p] = "len"
    /\ \/ /\ QueueHigh
          /\ Goto(p, "pop") /\ Release(p)
          /\ rounds' = [rounds EXCEPT ![p] = DropRounds]
          /\ refused' = refused \cup {cur[p]}
       \/ ~QueueHigh /\ Goto(p, "push") /\ UNCHANGED <<cur, rounds, refused>>
    /\ UNCHANGED <<chanVars, flagVars, sendVars, closeVars, n, sent, dropped, failed>>

\* Mutant: the error is swallowed.
SendQuiet(p, next) ==
    /\ \/ /\ ~chanClosed /\ Len(queue) < Cap
          /\ queue' = Append(queue, cur[p])
          /\ next /\ UNCHANGED failed
       \/ chanClosed /\ Goto(p, "idle") /\ UNCHANGED <<queue, rounds, failed>>
    /\ Release(p)

\* A send on packetQueue.  On a closed channel it panics, the deferred
\* recover turns the panic into an error, and Write returns it.
Send(p, next) ==
    /\ \/ /\ ~chanClosed /\ Len(queue) < Cap
          /\ queue' = Append(queue, cur[p])
          /\ next /\ UNCHANGED failed
       \/ /\ chanClosed
          /\ Goto(p, "gone")
          /\ failed' = failed \cup {cur[p]}
          /\ UNCHANGED <<queue, rounds>>
    /\ Release(p)

WritePush(p) ==
    /\ ~crashed /\ pc[p] = "push"
    /\ Send(p, Goto(p, "idle") /\ UNCHANGED rounds)
    /\ UNCHANGED <<chanClosed, flagVars, sendVars, closeVars, n, sent, dropped, refused>>

\* Mutant: one round too many.
RoundDoneLate(p) ==
    /\ rounds' = [rounds EXCEPT ![p] = @ - 1]
    /\ Goto(p, IF rounds[p] > 0 THEN "pop" ELSE "idle")

\* The end of a round of DropPacket: the next one, or Write returns nil.
RoundDone(p) ==
    /\ rounds' = [rounds EXCEPT ![p] = @ - 1]
    /\ Goto(p, IF rounds[p] > 1 THEN "pop" ELSE "idle")

Drop(S) == dropped' = dropped \cup S

\* tmpPkt, ok := <-pktQue.  On an empty open channel the loop waits.
DropPop(p) ==
    /\ ~crashed /\ pc[p] = "pop"
    /\ \/ /\ queue # <<>>
          /\ queue' = Tail(queue)
          /\ LET tmp == Head(queue) IN
             \/ IsAudio(tmp) /\ Goto(p, "audio") /\ Hold(p, tmp) /\ UNCHANGED <<rounds, dropped>>
             \/ KeepVideo(tmp) /\ Goto(p, "requeue") /\ Hold(p, tmp) /\ UNCHANGED <<rounds, dropped>>
             \/ /\ IsVideo(tmp) /\ ~KeepVideo(tmp)
                /\ Goto(p, "video") /\ Drop({tmp}) /\ UNCHANGED <<cur, rounds>>
             \/ /\ ~IsAudio(tmp) /\ ~IsVideo(tmp)
                /\ RoundDone(p) /\ Drop({tmp}) /\ UNCHANGED cur
       \/ queue = <<>> /\ chanClosed /\ RoundDone(p) /\ UNCHANGED <<queue, cur, dropped>>
    /\ UNCHANGED <<chanClosed, flagVars, sendVars, closeVars, n, sent, refused, failed>>

\* Audio: above the mark tmpPkt and one more packet go, else it is requeued.
DropAudio(p) ==
    /\ ~crashed /\ pc[p] = "audio"
    /\ \/ /\ Len(queue) > AudioMark
          /\ Goto(p, "extra") /\ Release(p) /\ Drop({cur[p]})
       \/ Len(queue) <= AudioMark /\ Goto(p, "requeueA") /\ UNCHANGED <<cur, dropped>>
    /\ UNCHANGED <<chanVars, flagVars, rounds, sendVars, closeVars, n, sent, refused, failed>>

RequeueAudio(p) ==
    /\ ~crashed /\ pc[p] = "requeueA"
    /\ Send(p, RoundDone(p))
    /\ UNCHANGED <<chanClosed, flagVars, sendVars, closeVars, n, sent, dropped, refused>>

RequeueVideo(p) ==
    /\ ~crashed /\ pc[p] = "requeue"
    /\ Send(p, Goto(p, "video") /\ UNCHANGED rounds)
    /\ UNCHANGED <<chanClosed, flagVars, sendVars, closeVars, n, sent, dropped, refused>>

\* After a video packet: above the mark one more packet goes.
DropVideo(p) ==
    /\ ~crashed /\ pc[p] = "video"
    /\ \/ Len(queue) > VideoMark /\ Goto(p, "extra") /\ UNCHANGED rounds
       \/ Len(queue) <= VideoMark /\ RoundDone(p)
    /\ UNCHANGED <<chanVars, flagVars, cur, sendVars, closeVars, histVars>>

\* The bare <-pktQue of either branch.
DropExtra(p) ==
    /\ ~crashed /\ pc[p] = "extra"
    /\ RoundDone(p)
    /\ \/ queue # <<>> /\ queue' = Tail(queue) /\ Drop({Head(queue)})
       \/ queue = <<>> /\ chanClosed /\ UNCHANGED <<queue, dropped>>
    /\ UNCHANGED <<chanClosed, flagVars, cur, sendVars, closeVars, n, sent, refused, failed>>

Write(p) ==
    \/ WriteCall(p) \/ WriteLen(p) \/ WritePush(p)
    \/ DropPop(p) \/ DropAudio(p) \/ RequeueAudio(p) \/ RequeueVideo(p)
    \/ DropVideo(p) \/ DropExtra(p)

---------------------------------------------------------------------------
(* SendPacket                                                              *)

SendRecv ==
    /\ ~crashed /\ spc = "recv"
    /\ \/ /\ queue # <<>>
          /\ inflight' = Head(queue) /\ queue' = Tail(queue) /\ spc' = "conn"
       \/ queue = <<>> /\ chanClosed /\ spc' = "done" /\ UNCHANGED <<queue, inflight>>
    /\ UNCHANGED <<chanClosed, flagVars, writeVars, closeVars, histVars>>

\* conn.Write fails, possibly because the connection is closed: the flag is
\* set, the channel stays open and nobody receives from it any more.
SendFails ==
    /\ closed' = TRUE
    /\ spc' = "failed"
    /\ failed' = failed \cup {inflight}

SendConn ==
    /\ ~crashed /\ spc = "conn"
    /\ \/ /\ spc' = "recv"
          /\ sent' = Append(sent, inflight)
          /\ UNCHANGED <<closed, failed>>
       \/ SendFails /\ UNCHANGED sent
    /\ inflight' = NoPacket
    /\ UNCHANGED <<chanVars, connClosed, writeVars, closeVars, n, dropped, refused>>

---------------------------------------------------------------------------
(* Close                                                                   *)

\* if !v.closed.  A producer calls Close between two calls of Write, and
\* does not write afterwards.
CloseTest(c) ==
    /\ ~crashed /\ cpc[c] = "idle"
    /\ c \in Producers => pc[c] = "idle"
    /\ cpc' = [cpc EXCEPT ![c] = IF closed THEN "set" ELSE "close"]
    /\ overlap' = (overlap \/ \E d \in Callers : cpc[d] \in {"close", "set"})
    /\ UNCHANGED <<chanVars, flagVars, writeVars, sendVars, crashed, histVars>>

\* Mutant: the channel is left open.
CloseChanOpen(c) ==
    /\ ~crashed /\ cpc[c] = "close"
    /\ cpc' = [cpc EXCEPT ![c] = "set"]
    /\ UNCHANGED <<chanVars, crashed, flagVars, writeVars, sendVars, overlap, histVars>>

\* close(v.packetQueue): closing a closed channel panics, and no caller of
\* Close recovers.
CloseChan(c) ==
    /\ ~crashed /\ cpc[c] = "close"
    /\ cpc' = [cpc EXCEPT ![c] = "set"]
    /\ crashed' = chanClosed
    /\ chanClosed' = TRUE
    /\ UNCHANGED <<queue, flagVars, writeVars, sendVars, overlap, histVars>>

\* Mutant: the flag is not set.
CloseFlagNever(c) ==
    /\ ~crashed /\ cpc[c] = "set"
    /\ cpc' = [cpc EXCEPT ![c] = "conn"]
    /\ UNCHANGED <<chanVars, flagVars, writeVars, sendVars, crashed, overlap, histVars>>

\* v.closed = true
CloseFlag(c) ==
    /\ ~crashed /\ cpc[c] = "set"
    /\ cpc' = [cpc EXCEPT ![c] = "conn"]
    /\ closed' = TRUE
    /\ UNCHANGED <<chanVars, connClosed, writeVars, sendVars, crashed, overlap, histVars>>

\* Mutant: the connection stays open.
CloseConnOpen(c) ==
    /\ ~crashed /\ cpc[c] = "conn"
    /\ cpc' = [cpc EXCEPT ![c] = "done"]
    /\ UNCHANGED <<chanVars, flagVars, writeVars, sendVars, crashed, overlap, histVars>>

\* v.conn.Close(err)
CloseConn(c) ==
    /\ ~crashed /\ cpc[c] = "conn"
    /\ cpc' = [cpc EXCEPT ![c] = "done"]
    /\ connClosed' = TRUE
    /\ UNCHANGED <<chanVars, closed, writeVars, sendVars, crashed, overlap, histVars>>

Close(c) == CloseTest(c) \/ CloseChan(c) \/ CloseFlag(c) \/ CloseConn(c)

---------------------------------------------------------------------------
Next ==
    \/ \E p \in Producers : Write(p)
    \/ SendRecv \/ SendConn
    \/ \E c \in Callers : Close(c)

Spec == Init /\ [][Next]_vars

(***************************************************************************)
(* Fairness.  Goroutines that can run do run.  conn.Write may block for    *)
(* ever on a player that does not read, except on a closed connection.     *)
(* The janitor calls Close on a writer, as long as it is in a stream (no   *)
(* Write of it has failed), when SendPacket has not taken a packet for the *)
(* timeout (RWBaser.Alive).  In a behaviour of this specification it takes *)
(* finitely many (MaxPackets), so the timeout always comes.  Check and a   *)
(* TransStart loop that ends need never call Close, but finish a call.     *)
(***************************************************************************)
Fairness ==
    /\ \A p \in Producers : WF_vars(pc[p] # "idle" /\ Write(p))
    /\ WF_vars(SendRecv)
    /\ WF_vars(connClosed /\ SendConn)
    /\ WF_vars((\E p \in Producers : pc[p] # "gone") /\ CloseTest(Janitor))
    /\ \A c \in Callers : WF_vars(cpc[c] # "idle" /\ Close(c))

LiveSpec == Spec /\ Fairness

---------------------------------------------------------------------------
(* Properties                                                              *)

\* The variables have the types the code gives them; rounds never underflows
\* (the loop counter of DropPacket).
TypeOK ==
    /\ queue \in Seq(Packet)
    /\ {chanClosed, closed, connClosed, crashed, overlap} \subseteq BOOLEAN
    /\ pc \in [Producers -> {"idle", "len", "push", "pop", "audio", "requeueA",
                             "requeue", "video", "extra", "gone"}]
    /\ cur \in [Producers -> Packet \cup {NoPacket}]
    /\ rounds \in [Producers -> 0 .. DropRounds]
    /\ spc \in {"recv", "conn", "failed", "done"}
    /\ inflight \in Packet \cup {NoPacket}
    /\ cpc \in [Callers -> {"idle", "close", "set", "conn", "done"}]
    /\ n \in 0 .. MaxPackets
    /\ sent \in Seq(Packet)
    /\ dropped \subseteq Packet /\ refused \subseteq Packet /\ failed \subseteq Packet

\* The packets a producer is about to put on the channel.
Pending == {p \in Producers : pc[p] \in {"push", "audio", "requeueA", "requeue"}}

\* The overflow test of Write (line 291) bounds the queue: the test and the
\* send are two steps, so each producer can overshoot by one packet, and
\* the packets DropPacket puts back are never too many.
QueueBound == Len(queue) + Cardinality(Pending) < HighWater + Cardinality(Producers)

\* "dont't drop sps config and dont't drop key frame", "try to don't drop
\* audio" (lines 252, 265): of the packets in the queue DropPacket throws
\* away inter frames and metadata only.  The branches at lines 254 and 269,
\* which throw away any packet, are never taken.
KeptKinds ==
    /\ \A x \in dropped : x.kind \in {"inter", "meta"}
    /\ \A p \in Producers : pc[p] # "extra"

\* Every packet given to Write is in exactly one place: in the queue once,
\* in the hands of one goroutine, sent once, or dropped, refused or failed.
\* Neither the rotation of DropPacket nor a Close in the middle of it loses
\* track of a packet or sends one twice.
Conservation ==
    LET At(i) ==
            Cardinality({j \in 1 .. Len(queue) : queue[j].id = i})
          + Cardinality({p \in Producers : cur[p].id = i})
          + (IF inflight.id = i THEN 1 ELSE 0)
          + Cardinality({j \in 1 .. Len(sent) : sent[j].id = i})
          + Cardinality({x \in dropped : x.id = i})
          + Cardinality({x \in refused : x.id = i})
          + Cardinality({x \in failed : x.id = i})
    IN \A i \in 1 .. n : At(i) = 1

\* Packets of one producer reach the connection in the order in which it
\* wrote them, but for the ones DropPacket rotates to the back of the queue:
\* an inter frame or metadata is never overtaken.
OnlyKeptKindsOvertaken ==
    \A i, j \in 1 .. Len(sent) :
        LET first == sent[i]
            late  == sent[j]
        IN i < j /\ first.by = late.by /\ first.id > late.id
           => late.kind \in {"audio", "seq", "key"}

\* The panic of a double close(packetQueue), which kills the process, needs
\* two calls of Close in progress at once: a Close after a Close is safe.
PanicNeedsOverlap == crashed => overlap

\* A writer marked closed has told SendPacket to stop, by closing the
\* channel, unless SendPacket itself set the mark and is gone.
ClosedStopsSender == closed => chanClosed \/ spc = "failed"

\* A call of Write that has begun returns, even if DropPacket meets an empty
\* queue, because the janitor closes the channel - unless conn.Write has
\* failed: then Close finds `closed` set, leaves the channel open, and a
\* DropPacket waiting for a packet waits for ever.
WriteReturns ==
    \A p \in Producers :
        pc[p] \notin {"idle", "gone"}
            ~> (pc[p] \in {"idle", "gone"} \/ spc = "failed" \/ crashed)

\* Once the writer is marked closed SendPacket ends, also when it is blocked
\* in conn.Write: Close closes the connection.
SenderEnds == closed ~> (spc \in {"done", "failed"} \/ crashed)

\* Neither the loop in Write nor SendPacket waits for ever for an RTMP player.
WriterEnds == WriteReturns /\ SenderEnds
=============================================================================
