------------------------ MODULE PacketWriterProofs ------------------------
(***************************************************************************)
(* What PacketWriter guarantees for any number of producers and callers of *)
(* Close, any queue size and any number of packets.                        *)
(***************************************************************************)
EXTENDS PacketWriter, FlvWriter, TLAPS, FiniteSetTheorems, FunctionTheorems

(***************************************************************************)
(* Types.  TypeOK is not inductive: what a goroutine holds is a packet     *)
(* where it is about to send it, and the round counter is positive inside  *)
(* DropPacket.                                                             *)
(***************************************************************************)
Dropping == {"pop", "audio", "requeueA", "requeue", "video", "extra"}
Holding  == {"len", "push", "audio", "requeueA", "requeue"}

HoldInv ==
    /\ \A p \in Producers : pc[p] \in Holding => cur[p] \in Packet
    /\ \A p \in Producers : pc[p] \in Dropping => rounds[p] > 0
    /\ spc = "conn" => inflight \in Packet

TypeInv == TypeOK /\ HoldInv

\* What taking a packet off a queue, and putting one on it, yields.
LEMMA HeadTail ==
    ASSUME NEW S, NEW q \in Seq(S), q # <<>>
    PROVE  /\ Head(q) \in S
           /\ Tail(q) \in Seq(S)
           /\ Len(Tail(q)) = Len(q) - 1
           /\ Len(q) \in Nat /\ Len(q) > 0
  OBVIOUS

LEMMA AppendSeq ==
    ASSUME NEW S, NEW q \in Seq(S), NEW x \in S
    PROVE  /\ Append(q, x) \in Seq(S)
           /\ Len(Append(q, x)) = Len(q) + 1
           /\ Len(q) \in Nat
  OBVIOUS

Labels == {"idle", "len", "push", "pop", "audio", "requeueA", "requeue", "video",
           "extra", "gone"}

\* A step of Write keeps the types.
LEMMA WriteTyped ==
    ASSUME TypeInv, NEW p \in Producers, Write(p)
    PROVE  TypeInv'
  <1> USE SizeAssumption DEF Dropping, Holding, Labels
  <1>r. pc[p] \in Dropping => rounds[p] \in 1 .. DropRounds /\ rounds[p] - 1 \in 0 .. DropRounds
    BY DEF TypeInv, TypeOK, HoldInv
  <1>h. queue # <<>> => Head(queue) \in Packet /\ Tail(queue) \in Seq(Packet)
    BY HeadTail DEF TypeInv, TypeOK
  <1>a. pc[p] \in Holding => cur[p] \in Packet /\ Append(queue, cur[p]) \in Seq(Packet)
    <2>1. pc[p] \in Holding => cur[p] \in Packet
      BY DEF TypeInv, HoldInv
    <2> QED
      BY <2>1, AppendSeq DEF TypeInv, TypeOK
  <1>1. CASE WriteCall(p)
    <2>1. CASE closed
      <3>1. pc' \in [Producers -> Labels]
        BY <1>1, <2>1 DEF TypeInv, TypeOK, WriteCall, Goto
      <3>2. TypeOK'
        BY <1>1, <2>1, <3>1 DEF TypeInv, TypeOK, WriteCall, chanVars, flagVars, sendVars, closeVars, outVars
      <3>3. HoldInv'
        BY <1>1, <2>1 DEF TypeInv, TypeOK, HoldInv, WriteCall, Goto, sendVars
      <3> QED  BY <3>2, <3>3 DEF TypeInv
    <2>2. CASE ~closed
      <3>1. PICK k \in Kinds : Hold(p, [id |-> n + 1, kind |-> k, by |-> p])
        BY <1>1, <2>2 DEF WriteCall
      <3>2. [id |-> n + 1, kind |-> k, by |-> p] \in Packet
        BY <1>1 DEF TypeInv, TypeOK, WriteCall, Packet
      <3>3. n' \in 0 .. MaxPackets
        BY <1>1, <2>2 DEF TypeInv, TypeOK, WriteCall
      <3>4. pc' \in [Producers -> Labels] /\ cur' \in [Producers -> Packet \cup {NoPacket}]
        BY <1>1, <2>2, <3>1, <3>2 DEF TypeInv, TypeOK, WriteCall, Goto, Hold
      <3>5. TypeOK'
        BY <1>1, <2>2, <3>3, <3>4 DEF TypeInv, TypeOK, WriteCall, chanVars, flagVars, sendVars, closeVars, outVars
      <3>6. HoldInv'
        BY <1>1, <2>2, <3>1, <3>2 DEF TypeInv, TypeOK, HoldInv, WriteCall, Goto, Hold, sendVars
      <3> QED  BY <3>5, <3>6 DEF TypeInv
    <2> QED  BY <2>1, <2>2
  <1>2. CASE WriteLen(p)
    <2> USE <1>2 DEF WriteLen
    <2>q. queue' \in Seq(Packet)
      BY DEF TypeInv, TypeOK, chanVars
    <2>1. pc' \in [Producers -> Labels]
      BY DEF TypeInv, TypeOK, HoldInv, Goto, Hold, Release
    <2>2. cur' \in [Producers -> Packet \cup {NoPacket}]
      BY <1>a, <1>r DEF TypeInv, TypeOK, HoldInv, Goto, Hold, Release
    <2>3. rounds' \in [Producers -> 0 .. DropRounds]
      <3>1. DropRounds \in 0 .. DropRounds
        OBVIOUS
      <3> QED  BY <3>1 DEF TypeInv, TypeOK
    <2>4. TypeOK'
      BY <1>a, <1>r, <2>q, <2>1, <2>2, <2>3 DEF TypeInv, TypeOK, HoldInv, Goto, Hold, Release, chanVars, flagVars, sendVars, closeVars, histVars, outVars
    <2>5. (\A q \in Producers : pc[q] \in Holding => cur[q] \in Packet)'
      BY <1>a, <1>r DEF TypeInv, TypeOK, HoldInv, Goto, Hold, Release
    <2>6. (\A q \in Producers : pc[q] \in Dropping => rounds[q] > 0)'
      BY <1>a, <1>r DEF TypeInv, TypeOK, HoldInv, Goto, Hold, Release
    <2> QED
      BY <2>4, <2>5, <2>6 DEF TypeInv, HoldInv, sendVars
  <1>3. CASE WritePush(p)
    <2> USE <1>3 DEF WritePush
    <2>q. queue' \in Seq(Packet)
      <3>1. queue' = Append(queue, cur[p]) \/ queue' = queue
        BY DEF Send
      <3> QED  BY <3>1, <1>a DEF TypeInv, TypeOK
    <2>1. pc' \in [Producers -> Labels]
      BY DEF TypeInv, TypeOK, HoldInv, Send, Goto, Hold, Release
    <2>2. cur' \in [Producers -> Packet \cup {NoPacket}]
      BY <1>a, <1>r DEF TypeInv, TypeOK, HoldInv, Send, Goto, Hold, Release
    <2>3. rounds' \in [Producers -> 0 .. DropRounds]
      BY <1>a, <1>r DEF TypeInv, TypeOK, HoldInv, Send, Goto, Hold, Release
    <2>4. TypeOK'
      BY <1>a, <1>r, <2>q, <2>1, <2>2, <2>3 DEF TypeInv, TypeOK, HoldInv, Send, Goto, Hold, Release, chanVars, flagVars, sendVars, closeVars, histVars, outVars
    <2>5. (\A q \in Producers : pc[q] \in Holding => cur[q] \in Packet)'
      BY <1>a, <1>r DEF TypeInv, TypeOK, HoldInv, Send, Goto, Hold, Release
    <2>6. (\A q \in Producers : pc[q] \in Dropping => rounds[q] > 0)'
      BY <1>a, <1>r DEF TypeInv, TypeOK, HoldInv, Send, Goto, Hold, Release
    <2> QED
      BY <2>4, <2>5, <2>6 DEF TypeInv, HoldInv, sendVars
  <1>4. CASE DropPop(p)
    <2> USE <1>4 DEF DropPop
    <2>q. queue' \in Seq(Packet)
      BY <1>h DEF TypeInv, TypeOK
    <2>d. dropped' \subseteq Packet
      BY <1>h DEF TypeInv, TypeOK, Drop
    <2>1. pc' \in [Producers -> Labels]
      BY DEF TypeInv, TypeOK, HoldInv, RoundDone, Drop, Goto, Hold
    <2>2. cur' \in [Producers -> Packet \cup {NoPacket}]
      BY <1>h, <1>r DEF TypeInv, TypeOK, HoldInv, RoundDone, Drop, Goto, Hold
    <2>3. rounds' \in [Producers -> 0 .. DropRounds]
      BY <1>h, <1>r DEF TypeInv, TypeOK, HoldInv, RoundDone, Drop, Goto, Hold
    <2>4. TypeOK'
      BY <1>h, <1>r, <2>q, <2>d, <2>1, <2>2, <2>3 DEF TypeInv, TypeOK, HoldInv, RoundDone, Drop, Goto, Hold, chanVars, flagVars, sendVars, closeVars, histVars, outVars
    <2>5. (\A q \in Producers : pc[q] \in Holding => cur[q] \in Packet)'
      <3>1. CASE pc' = [pc EXCEPT ![p] = pc'[p]] /\ UNCHANGED cur /\ pc'[p] \notin Holding
        BY <3>1 DEF TypeInv, TypeOK, HoldInv
      <3>2. CASE queue # <<>> /\ Hold(p, Head(queue)) /\ pc' = [pc EXCEPT ![p] = pc'[p]]
        BY <3>2, <1>h DEF TypeInv, TypeOK, HoldInv, Hold
      <3> QED
        BY <3>1, <3>2 DEF TypeInv, TypeOK, RoundDone, Goto
    <2>6. (\A q \in Producers : pc[q] \in Dropping => rounds[q] > 0)'
      <3>1. \A q \in Producers \ {p} : pc'[q] = pc[q] /\ rounds'[q] = rounds[q]
        BY DEF TypeInv, TypeOK, RoundDone, Goto
      <3>2. pc'[p] \in Dropping => rounds'[p] > 0
        BY <1>r DEF TypeInv, TypeOK, HoldInv, RoundDone, Goto
      <3> QED  BY <3>1, <3>2 DEF TypeInv, HoldInv
    <2> QED
      BY <2>4, <2>5, <2>6 DEF TypeInv, HoldInv, sendVars
  <1>5. CASE DropAudio(p)
    <2> USE <1>5 DEF DropAudio
    <2>q. queue' \in Seq(Packet)
      BY DEF TypeInv, TypeOK, chanVars
    <2>1. pc' \in [Producers -> Labels]
      BY DEF TypeInv, TypeOK, HoldInv, Drop, Goto, Hold, Release
    <2>2. cur' \in [Producers -> Packet \cup {NoPacket}]
      BY <1>a, <1>r DEF TypeInv, TypeOK, HoldInv, Drop, Goto, Hold, Release
    <2>3. rounds' \in [Producers -> 0 .. DropRounds]
      BY <1>a, <1>r DEF TypeInv, TypeOK, HoldInv, Drop, Goto, Hold, Release
    <2>4. TypeOK'
      BY <1>a, <1>r, <2>q, <2>1, <2>2, <2>3 DEF TypeInv, TypeOK, HoldInv, Drop, Goto, Hold, Release, chanVars, flagVars, sendVars, closeVars, histVars, outVars
    <2>5. (\A q \in Producers : pc[q] \in Holding => cur[q] \in Packet)'
      BY <1>a, <1>r DEF TypeInv, TypeOK, HoldInv, Drop, Goto, Hold, Release
    <2>6. (\A q \in Producers : pc[q] \in Dropping => rounds[q] > 0)'
      BY <1>a, <1>r DEF TypeInv, TypeOK, HoldInv, Drop, Goto, Hold, Release
    <2> QED
      BY <2>4, <2>5, <2>6 DEF TypeInv, HoldInv, sendVars
  <1>6. CASE RequeueAudio(p)
    <2> USE <1>6 DEF RequeueAudio
    <2>q. queue' \in Seq(Packet)
      <3>1. queue' = Append(queue, cur[p]) \/ queue' = queue
        BY DEF Send
      <3> QED  BY <3>1, <1>a DEF TypeInv, TypeOK
    <2>1. pc' \in [Producers -> Labels]
      BY DEF TypeInv, TypeOK, HoldInv, RoundDone, Send, Goto, Hold, Release
    <2>2. cur' \in [Producers -> Packet \cup {NoPacket}]
      BY <1>a, <1>r DEF TypeInv, TypeOK, HoldInv, RoundDone, Send, Goto, Hold, Release
    <2>3. rounds' \in [Producers -> 0 .. DropRounds]
      BY <1>a, <1>r DEF TypeInv, TypeOK, HoldInv, RoundDone, Send, Goto, Hold, Release
    <2>4. TypeOK'
      BY <1>a, <1>r, <2>q, <2>1, <2>2, <2>3 DEF TypeInv, TypeOK, HoldInv, RoundDone, Send, Goto, Hold, Release, chanVars, flagVars, sendVars, closeVars, histVars, outVars
    <2>5. (\A q \in Producers : pc[q] \in Holding => cur[q] \in Packet)'
      BY <1>a, <1>r DEF TypeInv, TypeOK, HoldInv, RoundDone, Send, Goto, Hold, Release
    <2>6. (\A q \in Producers : pc[q] \in Dropping => rounds[q] > 0)'
      BY <1>a, <1>r DEF TypeInv, TypeOK, HoldInv, RoundDone, Send, Goto, Hold, Release
    <2> QED
      BY <2>4, <2>5, <2>6 DEF TypeInv, HoldInv, sendVars
  <1>7. CASE RequeueVideo(p)
    <2> USE <1>7 DEF RequeueVideo
    <2>q. queue' \in Seq(Packet)
      <3>1. queue' = Append(queue, cur[p]) \/ queue' = queue
        BY DEF Send
      <3> QED  BY <3>1, <1>a DEF TypeInv, TypeOK
    <2>1. pc' \in [Producers -> Labels]
      BY DEF TypeInv, TypeOK, HoldInv, Send, Goto, Hold, Release
    <2>2. cur' \in [Producers -> Packet \cup {NoPacket}]
      BY <1>a, <1>r DEF TypeInv, TypeOK, HoldInv, Send, Goto, Hold, Release
    <2>3. rounds' \in [Producers -> 0 .. DropRounds]
      BY <1>a, <1>r DEF TypeInv, TypeOK, HoldInv, Send, Goto, Hold, Release
    <2>4. TypeOK'
      BY <1>a, <1>r, <2>q, <2>1, <2>2, <2>3 DEF TypeInv, TypeOK, HoldInv, Send, Goto, Hold, Release, chanVars, flagVars, sendVars, closeVars, histVars, outVars
    <2>5. (\A q \in Producers : pc[q] \in Holding => cur[q] \in Packet)'
      BY <1>a, <1>r DEF TypeInv, TypeOK, HoldInv, Send, Goto, Hold, Release
    <2>6. (\A q \in Producers : pc[q] \in Dropping => rounds[q] > 0)'
      BY <1>a, <1>r DEF TypeInv, TypeOK, HoldInv, Send, Goto, Hold, Release
    <2> QED
      BY <2>4, <2>5, <2>6 DEF TypeInv, HoldInv, sendVars
  <1>8. CASE DropVideo(p)
    <2> USE <1>8 DEF DropVideo
    <2>q. queue' \in Seq(Packet)
      BY DEF TypeInv, TypeOK, chanVars
    <2>1. pc' \in [Producers -> Labels]
      BY DEF TypeInv, TypeOK, HoldInv, RoundDone, Goto
    <2>2. cur' \in [Producers -> Packet \cup {NoPacket}]
      BY <1>a, <1>r DEF TypeInv, TypeOK, HoldInv, RoundDone, Goto
    <2>3. rounds' \in [Producers -> 0 .. DropRounds]
      BY <1>a, <1>r DEF TypeInv, TypeOK, HoldInv, RoundDone, Goto
    <2>4. TypeOK'
      BY <1>a, <1>r, <2>q, <2>1, <2>2, <2>3 DEF TypeInv, TypeOK, HoldInv, RoundDone, Goto, chanVars, flagVars, sendVars, closeVars, histVars, outVars
    <2>5. (\A q \in Producers : pc[q] \in Holding => cur[q] \in Packet)'
      BY <1>a, <1>r DEF TypeInv, TypeOK, HoldInv, RoundDone, Goto
    <2>6. (\A q \in Producers : pc[q] \in Dropping => rounds[q] > 0)'
      BY <1>a, <1>r DEF TypeInv, TypeOK, HoldInv, RoundDone, Goto
    <2> QED
      BY <2>4, <2>5, <2>6 DEF TypeInv, HoldInv, sendVars
  <1>9. CASE DropExtra(p)
    <2> USE <1>9 DEF DropExtra
    <2>q. queue' \in Seq(Packet)
      BY <1>h DEF TypeInv, TypeOK
    <2>d. dropped' \subseteq Packet
      BY <1>h DEF TypeInv, TypeOK, Drop
    <2>1. pc' \in [Producers -> Labels]
      BY DEF TypeInv, TypeOK, HoldInv, RoundDone, Drop, Goto
    <2>2. cur' \in [Producers -> Packet \cup {NoPacket}]
      BY <1>h, <1>r DEF TypeInv, TypeOK, HoldInv, RoundDone, Drop, Goto
    <2>3. rounds' \in [Producers -> 0 .. DropRounds]
      BY <1>h, <1>r DEF TypeInv, TypeOK, HoldInv, RoundDone, Drop, Goto
    <2>4. TypeOK'
      BY <1>h, <1>r, <2>q, <2>d, <2>1, <2>2, <2>3 DEF TypeInv, TypeOK, HoldInv, RoundDone, Drop, Goto, chanVars, flagVars, sendVars, closeVars, histVars, outVars
    <2>5. (\A q \in Producers : pc[q] \in Holding => cur[q] \in Packet)'
      BY <1>h, <1>r DEF TypeInv, TypeOK, HoldInv, RoundDone, Drop, Goto
    <2>6. (\A q \in Producers : pc[q] \in Dropping => rounds[q] > 0)'
      BY <1>h, <1>r DEF TypeInv, TypeOK, HoldInv, RoundDone, Drop, Goto
    <2> QED
      BY <2>4, <2>5, <2>6 DEF TypeInv, HoldInv, sendVars
  <1> QED
    BY <1>1, <1>2, <1>3, <1>4, <1>5, <1>6, <1>7, <1>8, <1>9 DEF Write

\* So do the steps of SendPacket and of Close.
LEMMA SenderTyped ==
    ASSUME TypeInv, SendRecv \/ SendConn
    PROVE  TypeInv'
  <1>h. queue # <<>> => Head(queue) \in Packet /\ Tail(queue) \in Seq(Packet)
    BY HeadTail DEF TypeInv, TypeOK
  <1>1. CASE SendRecv
    <2>1. queue' \in Seq(Packet) /\ inflight' \in Packet \cup {NoPacket}
      BY <1>1, <1>h DEF TypeInv, TypeOK, SendRecv
    <2>2. TypeOK'
      BY <1>1, <2>1 DEF TypeInv, TypeOK, SendRecv, flagVars, writeVars, closeVars, histVars, outVars
    <2>3. HoldInv'
      BY <1>1, <1>h DEF TypeInv, HoldInv, SendRecv, writeVars
    <2> QED  BY <2>2, <2>3 DEF TypeInv
  <1>2. CASE SendConn
    <2>1. inflight \in Packet
      BY <1>2 DEF TypeInv, HoldInv, SendConn
    <2>2. Append(sent, inflight) \in Seq(Packet)
      BY <2>1, AppendSeq DEF TypeInv, TypeOK
    <2>3. sent' \in Seq(Packet) /\ failed' \subseteq Packet /\ closed' \in BOOLEAN
      BY <1>2, <2>1, <2>2 DEF TypeInv, TypeOK, SendConn, SendFails
    <2>4. TypeOK'
      BY <1>2, <2>3 DEF TypeInv, TypeOK, SendConn, SendFails, chanVars, writeVars, closeVars
    <2>5. HoldInv'
      BY <1>2 DEF TypeInv, HoldInv, SendConn, SendFails, writeVars
    <2> QED  BY <2>4, <2>5 DEF TypeInv
  <1> QED  BY <1>1, <1>2

LEMMA CloseTyped ==
    ASSUME TypeInv, NEW c \in Callers, Close(c)
    PROVE  TypeInv'
  <1>1. cpc' \in [Callers -> {"idle", "close", "set", "conn", "done"}]
    BY DEF TypeInv, TypeOK, Close, CloseTest, CloseChan, CloseFlag, CloseConn
  <1>2. {chanClosed', closed', connClosed', crashed', overlap'} \subseteq BOOLEAN
    BY DEF TypeInv, TypeOK, Close, CloseTest, CloseChan, CloseFlag, CloseConn, chanVars, flagVars
  <1>3. UNCHANGED <<queue, writeVars, sendVars, histVars>>
    BY DEF Close, CloseTest, CloseChan, CloseFlag, CloseConn, chanVars
  <1> QED
    BY <1>1, <1>2, <1>3 DEF TypeInv, TypeOK, HoldInv, writeVars, sendVars, histVars, outVars

\* The initial state, and every step, have the types.
LEMMA TypeInductive ==
    /\ Init => TypeInv
    /\ TypeInv /\ [Next]_vars => TypeInv'
  <1>1. Init => TypeInv
    <2> SUFFICES ASSUME Init PROVE TypeInv
      OBVIOUS
    <2>1. <<>> \in Seq(Packet) /\ 0 \in 0 .. DropRounds /\ 0 \in 0 .. MaxPackets
      BY SizeAssumption
    <2>2. TypeOK
      BY <2>1 DEF Init, TypeOK
    <2> QED
      BY <2>2 DEF Init, TypeInv, HoldInv, Holding, Dropping
  <1>2. ASSUME TypeInv, [Next]_vars PROVE TypeInv'
    <2>1. CASE Next
      BY <1>2, <2>1, WriteTyped, SenderTyped, CloseTyped DEF Next
    <2>2. CASE UNCHANGED vars
      BY <1>2, <2>2 DEF TypeInv, TypeOK, HoldInv, vars, chanVars, flagVars, writeVars, sendVars, closeVars, histVars, outVars
    <2> QED  BY <1>2, <2>1, <2>2
  <1> QED  BY <1>1, <1>2

\* PacketWriter is type correct: in particular DropPacket never executes
\* more rounds than the code's loop bound.
THEOREM TypeCorrect == Spec => []TypeOK
  <1>1. TypeInv => TypeOK
    BY DEF TypeInv
  <1> QED
    BY <1>1, TypeInductive, PTL DEF Spec

---------------------------------------------------------------------------
(***************************************************************************)
(* The queue.  QueueBound is inductive: the test of Write lets a producer  *)
(* through only below HighWater, and a packet DropPacket holds left its    *)
(* place in the queue.                                                     *)
(***************************************************************************)

\* Entering and leaving Pending changes its size by one.
LEMMA PendingSize ==
    ASSUME NEW T \in SUBSET Producers, NEW p \in Producers
    PROVE  /\ Cardinality(T) \in Nat
           /\ Cardinality(T) <= Cardinality(Producers)
           /\ p \notin T => Cardinality(T \cup {p}) = Cardinality(T) + 1
           /\ p \in T => Cardinality(T \ {p}) = Cardinality(T) - 1
           /\ p \in T => Cardinality(T) > 0
           /\ Cardinality(Producers) \in Nat
  <1>1. IsFiniteSet(T) /\ Cardinality(T) \in Nat /\ Cardinality(T) <= Cardinality(Producers)
    BY FS_Subset, FS_CardinalityType, ThreadAssumption
  <1>2. p \notin T => Cardinality(T \cup {p}) = Cardinality(T) + 1
    BY <1>1, FS_AddElement
  <1>3. p \in T => Cardinality(T \ {p}) = Cardinality(T) - 1
    BY <1>1, FS_RemoveElement
  <1>4. p \in T => Cardinality(T) > 0
    BY <1>1, FS_EmptySet
  <1> QED
    BY <1>1, <1>2, <1>3, <1>4, FS_CardinalityType, ThreadAssumption

PushLabels == {"push", "audio", "requeueA", "requeue"}

\* How a step of Write moves packets between the queue and the producers.
LEMMA WriteMoves ==
    ASSUME TypeInv, NEW p \in Producers, Write(p)
    PROVE  \/ Len(queue') = Len(queue) /\ Pending' = Pending
           \/ Len(queue') = Len(queue) /\ p \in Pending /\ Pending' = Pending \ {p}
           \/ Len(queue) < HighWater /\ Len(queue') = Len(queue)
              /\ p \notin Pending /\ Pending' = Pending \cup {p}
           \/ Len(queue') = Len(queue) + 1 /\ p \in Pending /\ Pending' = Pending \ {p}
           \/ Len(queue') = Len(queue) - 1 /\ p \notin Pending /\ Pending' = Pending \cup {p}
           \/ Len(queue') = Len(queue) - 1 /\ Pending' = Pending
  <1> USE DEF Pending
  <1>h. queue # <<>> => Len(Tail(queue)) = Len(queue) - 1
    BY HeadTail DEF TypeInv, TypeOK
  <1>a. pc[p] \in Holding => Len(Append(queue, cur[p])) = Len(queue) + 1
    BY AppendSeq DEF TypeInv, TypeOK, HoldInv
  <1>t. pc \in [Producers -> Labels] /\ Len(queue) \in Nat
    BY DEF TypeInv, TypeOK, Labels
  <1>s. ASSUME NEW l, pc' = [pc EXCEPT ![p] = l]
        PROVE  /\ l \in PushLabels => Pending' = Pending \cup {p}
               /\ l \notin PushLabels => Pending' = Pending \ {p}
    BY <1>t, <1>s DEF PushLabels
  <1>1. CASE WriteCall(p)
    BY <1>1, <1>t DEF WriteCall, Goto, chanVars
  <1>2. CASE WriteLen(p)
    <2>1. CASE QueueHigh
      BY <1>2, <2>1, <1>t, <1>s DEF WriteLen, Goto, chanVars, PushLabels, QueueHigh
    <2>2. CASE ~QueueHigh
      BY <1>2, <2>2, <1>t, <1>s, SizeAssumption DEF WriteLen, Goto, chanVars, PushLabels, QueueHigh
    <2> QED  BY <2>1, <2>2
  <1>3. CASE WritePush(p) \/ RequeueAudio(p) \/ RequeueVideo(p)
    <2>1. p \in Pending /\ pc[p] \in Holding
      BY <1>3, <1>t DEF WritePush, RequeueAudio, RequeueVideo, Holding
    <2>2. Len(queue') = Len(queue) \/ Len(queue') = Len(queue) + 1
      BY <1>3, <1>a, <2>1 DEF WritePush, RequeueAudio, RequeueVideo, Send
    <2>3. \E l \in {"idle", "gone", "pop", "video"} : pc' = [pc EXCEPT ![p] = l]
      BY <1>3 DEF WritePush, RequeueAudio, RequeueVideo, Send, RoundDone, Goto
    <2>4. Pending' = Pending \ {p}
      BY <2>3, <1>s DEF PushLabels
    <2> QED  BY <2>1, <2>2, <2>4
  <1>4. CASE DropPop(p)
    <2>1. p \notin Pending
      BY <1>4 DEF DropPop
    <2>2. CASE queue = <<>>
      BY <1>4, <2>1, <2>2, <1>s DEF DropPop, RoundDone, Goto, PushLabels
    <2>3. CASE queue # <<>>
      <3>1. Len(queue') = Len(queue) - 1
        BY <1>4, <2>3, <1>h DEF DropPop
      <3>2. \E l \in {"audio", "requeue", "video", "pop", "idle"} : pc' = [pc EXCEPT ![p] = l]
        BY <1>4, <2>3 DEF DropPop, RoundDone, Goto
      <3> QED  BY <2>1, <3>1, <3>2, <1>s DEF PushLabels
    <2> QED  BY <2>2, <2>3
  <1>5. CASE DropAudio(p)
    BY <1>5, <1>t, <1>s DEF DropAudio, Goto, chanVars, PushLabels
  <1>6. CASE DropVideo(p)
    BY <1>6, <1>t, <1>s DEF DropVideo, RoundDone, Goto, chanVars, PushLabels
  <1>7. CASE DropExtra(p)
    <2>1. p \notin Pending /\ Pending' = Pending \ {p}
      BY <1>7, <1>s DEF DropExtra, RoundDone, Goto, PushLabels
    <2>2. Len(queue') = Len(queue) - 1 \/ Len(queue') = Len(queue)
      BY <1>7, <1>h DEF DropExtra
    <2> QED  BY <2>1, <2>2
  <1> QED
    BY <1>1, <1>2, <1>3, <1>4, <1>5, <1>6, <1>7 DEF Write

LEMMA BoundInductive ==
    /\ Init => QueueBound
    /\ TypeInv /\ QueueBound /\ [Next]_vars => QueueBound'
  <1>1. Init => QueueBound
    <2> SUFFICES ASSUME Init PROVE QueueBound
      OBVIOUS
    <2>1. Pending = {} /\ Len(queue) = 0
      BY DEF Init, Pending
    <2> QED
      BY <2>1, FS_EmptySet, FS_CardinalityType, ThreadAssumption, SizeAssumption DEF QueueBound
  <1>2. ASSUME TypeInv, QueueBound, [Next]_vars PROVE QueueBound'
    <2>1. ASSUME NEW p \in Producers, Write(p) PROVE QueueBound'
      <3>1. /\ Pending \in SUBSET Producers /\ Pending' \in SUBSET Producers
            /\ Len(queue) \in Nat
        BY <1>2 DEF Pending, TypeInv, TypeOK
      <3>2. Cardinality(Pending') <= Cardinality(Producers)
        BY <3>1, PendingSize
      <3>3. Len(queue') + Cardinality(Pending') < HighWater + Cardinality(Producers)
        <4>1. /\ Cardinality(Pending) \in Nat /\ Cardinality(Producers) \in Nat
              /\ p \notin Pending => Cardinality(Pending \cup {p}) = Cardinality(Pending) + 1
              /\ p \in Pending => Cardinality(Pending \ {p}) = Cardinality(Pending) - 1
          BY <2>1, <3>1, PendingSize
        <4>2. Len(queue) + Cardinality(Pending) < HighWater + Cardinality(Producers)
          BY <1>2 DEF QueueBound
        <4>3. \/ Len(queue') = Len(queue) /\ Cardinality(Pending') = Cardinality(Pending)
              \/ Len(queue') = Len(queue) /\ Cardinality(Pending') = Cardinality(Pending) - 1
              \/ Len(queue) < HighWater /\ Len(queue') = Len(queue)
              \/ Len(queue') = Len(queue) + 1 /\ Cardinality(Pending') = Cardinality(Pending) - 1
              \/ Len(queue') = Len(queue) - 1 /\ Cardinality(Pending') = Cardinality(Pending) + 1
              \/ Len(queue') = Len(queue) - 1 /\ Cardinality(Pending') = Cardinality(Pending)
          BY <1>2, <2>1, <4>1, WriteMoves, Zenon
        <4>4. Cardinality(Pending') \in Nat
          BY <3>1, PendingSize
        <4> QED
          BY <3>1, <3>2, <4>1, <4>2, <4>3, <4>4, SizeAssumption
      <3> QED  BY <3>3 DEF QueueBound
    <2>2. CASE SendRecv \/ SendConn
      <3>1. Pending' = Pending /\ Cardinality(Pending) \in Nat /\ Cardinality(Producers) \in Nat
        BY <2>2, PendingSize, ThreadAssumption DEF Pending, SendRecv, SendConn, writeVars
      <3>2. Len(queue) \in Nat /\ (Len(queue') = Len(queue) \/ Len(queue') = Len(queue) - 1)
        BY <1>2, <2>2, HeadTail DEF TypeInv, TypeOK, SendRecv, SendConn, chanVars
      <3> QED  BY <1>2, <3>1, <3>2, SizeAssumption DEF QueueBound
    <2>3. ASSUME NEW c \in Callers, Close(c) PROVE QueueBound'
      <3>1. UNCHANGED <<queue, pc>>
        BY <2>3 DEF Close, CloseTest, CloseChan, CloseFlag, CloseConn, chanVars, writeVars
      <3> QED  BY <1>2, <3>1 DEF QueueBound, Pending
    <2>4. CASE UNCHANGED vars
      BY <1>2, <2>4 DEF QueueBound, Pending, vars, chanVars, writeVars
    <2> QED
      BY <1>2, <2>1, <2>2, <2>3, <2>4 DEF Next
  <1> QED  BY <1>1, <1>2

\* With P producers the queue never holds HighWater + P packets, so the
\* sends of Write and DropPacket do not wait for room.
THEOREM BoundedQueue == Spec => []QueueBound
  BY TypeInductive, BoundInductive, PTL DEF Spec

---------------------------------------------------------------------------
(***************************************************************************)
(* What DropPacket throws away.  The margin is the distance between the    *)
(* two marks of the code, 24 and 10 packets below the capacity: it is      *)
(* large enough for 15 producers.                                          *)
(***************************************************************************)
Margin == HighWater + Cardinality(Producers) - 1 <= VideoMark

LEMMA KindsInductive ==
    ASSUME Margin
    PROVE  /\ Init => KeptKinds
           /\ TypeInv /\ QueueBound /\ KeptKinds /\ [Next]_vars => KeptKinds'
  <1>1. Init => KeptKinds
    BY DEF Init, KeptKinds
  <1>2. ASSUME TypeInv, QueueBound, KeptKinds, [Next]_vars PROVE KeptKinds'
    <2>t. /\ pc \in [Producers -> Labels] /\ Len(queue) \in Nat
          /\ Cardinality(Producers) \in Nat /\ Cardinality(Pending) \in Nat
      <3>1. Pending \in SUBSET Producers
        BY DEF Pending
      <3>2. Cardinality(Producers) \in Nat /\ Cardinality(Pending) \in Nat
        BY <3>1, PendingSize, ThreadAssumption
      <3> QED  BY <1>2, <3>2 DEF TypeInv, TypeOK, Labels
    <2>1. ASSUME NEW p \in Producers, Write(p) PROVE KeptKinds'
      <3>1. CASE DropPop(p)
        <4>1. ASSUME queue # <<>>, ~IsAudio(Head(queue)), ~KeepVideo(Head(queue))
              PROVE  Head(queue).kind \in {"inter", "meta"}
          <5>1. Head(queue) \in Packet
            BY <1>2, <4>1, HeadTail DEF TypeInv, TypeOK
          <5>2. Head(queue).kind \in AllKinds
            BY <5>1, SizeAssumption DEF Packet
          <5> QED  BY <4>1, <5>2 DEF IsAudio, KeepVideo, AllKinds
        <4>2. \A x \in dropped' : x.kind \in {"inter", "meta"}
          BY <1>2, <3>1, <4>1 DEF KeptKinds, DropPop, Drop, IsVideo, KeepVideo
        <4>3. \A q \in Producers : pc'[q] # "extra"
          BY <1>2, <3>1, <2>t DEF KeptKinds, DropPop, RoundDone, Goto
        <4> QED  BY <4>2, <4>3 DEF KeptKinds
      <3>2. CASE DropAudio(p)
        <4>1. p \in Pending /\ Pending \in SUBSET Producers
          BY <3>2 DEF DropAudio, Pending
        <4>2. Cardinality(Pending) > 0
          BY <4>1, PendingSize
        <4>3. ~(Len(queue) > AudioMark)
          BY <1>2, <4>2, <2>t, SizeAssumption, Margin DEF QueueBound, Margin
        <4> QED  BY <1>2, <3>2, <4>3, <2>t DEF KeptKinds, DropAudio, Goto
      <3>3. CASE DropVideo(p)
        <4>1. ~(Len(queue) > VideoMark)
          BY <1>2, <2>t, SizeAssumption, Margin DEF QueueBound, Margin
        <4> QED  BY <1>2, <3>3, <4>1, <2>t DEF KeptKinds, DropVideo, RoundDone, Goto, histVars, outVars
      <3>4. CASE DropExtra(p)
        BY <1>2, <3>4 DEF KeptKinds, DropExtra
      <3>5. CASE \/ WriteCall(p) \/ WriteLen(p) \/ WritePush(p)
                 \/ RequeueAudio(p) \/ RequeueVideo(p)
        <4>1. dropped' = dropped
          BY <3>5 DEF WriteCall, WriteLen, WritePush, RequeueAudio, RequeueVideo, outVars
        <4>2. \E l \in Labels \ {"extra"} : pc' = [pc EXCEPT ![p] = l]
          BY <3>5 DEF WriteCall, WriteLen, WritePush, RequeueAudio, RequeueVideo, Send, RoundDone, Goto, Labels
        <4> QED  BY <1>2, <4>1, <4>2, <2>t DEF KeptKinds
      <3> QED
        BY <2>1, <3>1, <3>2, <3>3, <3>4, <3>5 DEF Write
    <2>2. CASE SendRecv \/ SendConn
      BY <1>2, <2>2 DEF KeptKinds, SendRecv, SendConn, writeVars, histVars, outVars
    <2>3. ASSUME NEW c \in Callers, Close(c) PROVE KeptKinds'
      BY <1>2, <2>3 DEF KeptKinds, Close, CloseTest, CloseChan, CloseFlag, CloseConn, writeVars, histVars, outVars
    <2>4. CASE UNCHANGED vars
      BY <1>2, <2>4 DEF KeptKinds, vars, writeVars, histVars, outVars
    <2> QED
      BY <1>2, <2>1, <2>2, <2>3, <2>4 DEF Next
  <1> QED  BY <1>1, <1>2

\* Within the margin DropPacket throws away inter frames and metadata only,
\* whatever the producers, SendPacket and Close do meanwhile.
THEOREM DropsOnlyInterFrames ==
    ASSUME Margin
    PROVE  Spec => []KeptKinds
  BY TypeInductive, BoundInductive, KindsInductive, PTL DEF Spec

---------------------------------------------------------------------------
(***************************************************************************)
(* Close.  Between close(packetQueue) and v.closed = true the channel is   *)
(* closed and the flag is not: exactly then a second caller gets through   *)
(* the test.                                                               *)
(***************************************************************************)
Closing(c) == cpc[c] \in {"close", "set"}

CloseInv ==
    /\ ClosedStopsSender
    /\ PanicNeedsOverlap
    /\ \A c \in Callers : cpc[c] = "set" => chanClosed \/ spc = "failed"
    /\ chanClosed /\ ~closed => \E c \in Callers : cpc[c] = "set"
    /\ ~overlap => \A c, d \in Callers : Closing(c) /\ Closing(d) => c = d
    /\ ~overlap => \A c \in Callers : cpc[c] = "close" => ~chanClosed
    /\ spc = "failed" => closed

LEMMA CloseInductive ==
    /\ Init => CloseInv
    /\ TypeInv /\ CloseInv /\ [Next]_vars => CloseInv'
  <1> USE DEF CloseInv, ClosedStopsSender, PanicNeedsOverlap, Closing
  <1>1. Init => CloseInv
    BY DEF Init
  <1>2. ASSUME TypeInv, CloseInv, [Next]_vars PROVE CloseInv'
    <2>t. /\ cpc \in [Callers -> {"idle", "close", "set", "conn", "done"}]
          /\ chanClosed \in BOOLEAN /\ closed \in BOOLEAN /\ overlap \in BOOLEAN
      BY <1>2 DEF TypeInv, TypeOK
    <2>1. ASSUME NEW p \in Producers, Write(p) PROVE CloseInv'
      <3>1. UNCHANGED <<chanClosed, closed, spc, cpc, crashed, overlap>>
        BY <2>1 DEF Write, WriteCall, WriteLen, WritePush, DropPop, DropAudio, RequeueAudio, RequeueVideo, DropVideo, DropExtra, chanVars, flagVars, sendVars, closeVars
      <3> QED  BY <1>2, <3>1
    <2>2. CASE SendRecv
      BY <1>2, <2>2 DEF SendRecv, flagVars, closeVars
    <2>3. CASE SendConn
      BY <1>2, <2>3 DEF SendConn, SendFails, chanVars, closeVars
    <2>4. ASSUME NEW c \in Callers, CloseTest(c) PROVE CloseInv'
      <3>1. CASE closed
        BY <1>2, <2>4, <2>t, <3>1 DEF CloseTest, chanVars, flagVars, sendVars
      <3>2. CASE ~closed
        BY <1>2, <2>4, <2>t, <3>2 DEF CloseTest, chanVars, flagVars, sendVars
      <3> QED  BY <2>t, <3>1, <3>2
    <2>5. ASSUME NEW c \in Callers, CloseChan(c) PROVE CloseInv'
      BY <1>2, <2>5, <2>t DEF CloseChan, flagVars, sendVars
    <2>6. ASSUME NEW c \in Callers, CloseFlag(c) PROVE CloseInv'
      BY <1>2, <2>6, <2>t DEF CloseFlag, chanVars, sendVars
    <2>7. ASSUME NEW c \in Callers, CloseConn(c) PROVE CloseInv'
      BY <1>2, <2>7, <2>t DEF CloseConn, chanVars, sendVars
    <2>8. CASE UNCHANGED vars
      BY <1>2, <2>8 DEF vars, chanVars, flagVars, sendVars, closeVars
    <2> QED
      BY <1>2, <2>1, <2>2, <2>3, <2>4, <2>5, <2>6, <2>7, <2>8 DEF Next, Close
  <1> QED  BY <1>1, <1>2

\* The process dies of a double close only if two calls of Close overlap.
THEOREM PanicOnlyOnOverlap == Spec => []PanicNeedsOverlap
  <1>1. CloseInv => PanicNeedsOverlap
    BY DEF CloseInv
  <1> QED
    BY <1>1, TypeInductive, CloseInductive, PTL DEF Spec

\* No closed writer leaves its SendPacket goroutine waiting on a channel
\* that stays open.
THEOREM ClosedWriterStops == Spec => []ClosedStopsSender
  <1>1. CloseInv => ClosedStopsSender
    BY DEF CloseInv
  <1> QED
    BY <1>1, TypeInductive, CloseInductive, PTL DEF Spec

---------------------------------------------------------------------------
(***************************************************************************)
(* Where packets are.  Whatever a step of Write, SendPacket or Close is in *)
(* the code, for the packets it is one of eight moves.                     *)
(***************************************************************************)

\* A goroutine that is not about to send a packet holds none.
Hands ==
    /\ \A p \in Producers : pc[p] \notin Holding => cur[p] = NoPacket
    /\ spc # "conn" => inflight = NoPacket

\* DropPacket puts these back.
Kept == {"audio", "seq", "key"}

lostVars == <<dropped, refused, failed>>

\* A packet is given to Write, leaves it for the queue, or is lost there.
Enter(p) ==
    /\ cur[p] = NoPacket /\ n' = n + 1 /\ n' <= MaxPackets
    /\ \E k \in Kinds : cur' = [cur EXCEPT ![p] = [id |-> n + 1, kind |-> k, by |-> p]]
    /\ UNCHANGED <<queue, inflight, sent, lostVars>>
Push(p) ==
    /\ cur[p] \in Packet /\ queue' = Append(queue, cur[p]) /\ cur' = [cur EXCEPT ![p] = NoPacket]
    /\ UNCHANGED <<n, inflight, sent, lostVars>>
Lose(p) ==
    /\ cur[p] \in Packet /\ cur' = [cur EXCEPT ![p] = NoPacket]
    /\ \/ dropped' = dropped \cup {cur[p]} /\ UNCHANGED <<refused, failed>>
       \/ refused' = refused \cup {cur[p]} /\ UNCHANGED <<dropped, failed>>
       \/ failed' = failed \cup {cur[p]} /\ UNCHANGED <<dropped, refused>>
    /\ UNCHANGED <<n, queue, inflight, sent>>

\* DropPacket takes one from the queue, to put it back or to throw it away.
Rotate(p) ==
    /\ cur[p] = NoPacket /\ queue # <<>> /\ Head(queue).kind \in Kept
    /\ queue' = Tail(queue) /\ cur' = [cur EXCEPT ![p] = Head(queue)]
    /\ UNCHANGED <<n, inflight, sent, lostVars>>
Throw ==
    /\ queue # <<>> /\ queue' = Tail(queue) /\ dropped' = dropped \cup {Head(queue)}
    /\ UNCHANGED <<n, cur, inflight, sent, refused, failed>>

\* SendPacket takes one, and sends it or fails to.
Take ==
    /\ inflight = NoPacket /\ queue # <<>> /\ queue' = Tail(queue) /\ inflight' = Head(queue)
    /\ UNCHANGED <<n, cur, sent, lostVars>>
Sent ==
    /\ inflight \in Packet /\ sent' = Append(sent, inflight) /\ inflight' = NoPacket
    /\ UNCHANGED <<n, queue, cur, lostVars>>
Fail ==
    /\ inflight \in Packet /\ failed' = failed \cup {inflight} /\ inflight' = NoPacket
    /\ UNCHANGED <<n, queue, cur, sent, dropped, refused>>

Still == UNCHANGED <<n, queue, cur, inflight, sent, lostVars>>

Move ==
    \/ \E p \in Producers : Enter(p) \/ Push(p) \/ Lose(p) \/ Rotate(p)
    \/ Throw \/ Take \/ Sent \/ Fail \/ Still

LEMMA WriteIsMove ==
    ASSUME TypeInv, Hands, NEW p \in Producers, Write(p)
    PROVE  Move /\ Hands'
<1> USE DEF lostVars, Goto, Hold, Release, Holding
<1>t. /\ pc \in [Producers -> Labels] /\ cur \in [Producers -> Packet \cup {NoPacket}]
      /\ n \in 0 .. MaxPackets /\ MaxPackets \in Nat
  BY SizeAssumption DEF TypeInv, TypeOK, Labels
<1>h. pc[p] \in Holding => cur[p] \in Packet
  BY DEF TypeInv, HoldInv
<1>f. UNCHANGED <<inflight, spc, sent>>
  BY DEF Write, WriteCall, WriteLen, WritePush, DropPop, DropAudio, RequeueAudio, RequeueVideo,
         DropVideo, DropExtra, sendVars, histVars, outVars
<1>o. \A q \in Producers \ {p} : pc'[q] = pc[q] /\ cur'[q] = cur[q]
  BY <1>t DEF Write, WriteCall, WriteLen, WritePush, DropPop, DropAudio, RequeueAudio, RequeueVideo,
         DropVideo, DropExtra, Send, RoundDone
<1>g. ASSUME pc'[p] \notin Holding => cur'[p] = NoPacket PROVE Hands'
  BY <1>g, <1>f, <1>o DEF Hands
<1>1. CASE WriteCall(p)
  <2>1. cur[p] = NoPacket
    BY <1>1 DEF Hands, WriteCall
  <2>2. Enter(p) \/ Still
    BY <1>1, <1>t, <2>1 DEF WriteCall, Enter, Still, chanVars, sendVars, outVars
  <2>3. pc'[p] \notin Holding => cur'[p] = NoPacket
    BY <1>1, <1>t, <2>1 DEF WriteCall
  <2> QED  BY <1>g, <2>2, <2>3 DEF Move
<1>2. CASE WriteLen(p)
  <2>1. Lose(p) \/ Still
    BY <1>2, <1>t, <1>h DEF WriteLen, Lose, Still, chanVars, sendVars
  <2>2. pc'[p] \notin Holding => cur'[p] = NoPacket
    BY <1>2, <1>t DEF WriteLen
  <2> QED  BY <1>g, <2>1, <2>2 DEF Move
<1>3. CASE WritePush(p) \/ RequeueAudio(p) \/ RequeueVideo(p)
  <2>1. cur[p] \in Packet /\ cur' = [cur EXCEPT ![p] = NoPacket]
    BY <1>3, <1>h DEF WritePush, RequeueAudio, RequeueVideo, Send
  <2>2. /\ UNCHANGED <<n, inflight, sent, dropped, refused>>
        /\ \/ queue' = Append(queue, cur[p]) /\ UNCHANGED failed
           \/ queue' = queue /\ failed' = failed \cup {cur[p]}
    BY <1>3, <1>f DEF WritePush, RequeueAudio, RequeueVideo, Send
  <2>3. Push(p) \/ Lose(p)
    BY <2>1, <2>2 DEF Push, Lose
  <2>4. cur'[p] = NoPacket
    BY <2>1, <1>t
  <2> QED  BY <1>g, <2>3, <2>4 DEF Move
<1>4. CASE DropPop(p)
  <2>1. cur[p] = NoPacket
    BY <1>4 DEF Hands, DropPop
  <2>2. UNCHANGED <<n, inflight, sent, refused, failed>>
    BY <1>4, <1>f DEF DropPop
  <2>3. \/ /\ queue # <<>> /\ queue' = Tail(queue) /\ Head(queue).kind \in Kept /\ dropped' = dropped
           /\ cur' = [cur EXCEPT ![p] = Head(queue)] /\ pc'[p] \in {"audio", "requeue"}
        \/ queue # <<>> /\ queue' = Tail(queue) /\ cur' = cur /\ dropped' = dropped \cup {Head(queue)}
        \/ UNCHANGED <<queue, cur, dropped>>
    BY <1>4, <1>t DEF DropPop, Drop, Kept, IsAudio, KeepVideo
  <2>4. Rotate(p) \/ Throw \/ Still
    BY <2>1, <2>2, <2>3 DEF Rotate, Throw, Still
  <2>5. pc'[p] \notin Holding => cur'[p] = NoPacket
    BY <2>1, <2>3
  <2> QED  BY <1>g, <2>4, <2>5 DEF Move
<1>5. CASE DropAudio(p)
  <2>1. Lose(p) \/ Still
    BY <1>5, <1>t, <1>h DEF DropAudio, Lose, Still, chanVars, sendVars, Drop
  <2>2. pc'[p] \notin Holding => cur'[p] = NoPacket
    BY <1>5, <1>t DEF DropAudio
  <2> QED  BY <1>g, <2>1, <2>2 DEF Move
<1>6. CASE DropVideo(p) \/ DropExtra(p)
  <2>1. cur[p] = NoPacket
    BY <1>6 DEF Hands, DropVideo, DropExtra
  <2>2. Throw \/ Still
    BY <1>6, <1>f DEF DropVideo, DropExtra, Throw, Still, chanVars, sendVars, histVars, outVars, Drop
  <2>3. cur' = cur
    BY <1>6 DEF DropVideo, DropExtra
  <2> QED  BY <1>g, <2>1, <2>2, <2>3 DEF Move
<1> QED  BY <1>1, <1>2, <1>3, <1>4, <1>5, <1>6 DEF Write

LEMMA StepIsMove == TypeInv /\ Hands /\ [Next]_vars => Move /\ Hands'
<1> SUFFICES ASSUME TypeInv, Hands, [Next]_vars PROVE Move /\ Hands'
  OBVIOUS
<1> USE DEF lostVars
<1>1. ASSUME NEW p \in Producers, Write(p) PROVE Move /\ Hands'
  BY <1>1, WriteIsMove
<1>2. CASE SendRecv
  <2>1. Take \/ Still
    BY <1>2 DEF SendRecv, Hands, Take, Still, writeVars, histVars, outVars
  <2> QED  BY <1>2, <2>1 DEF SendRecv, Hands, Move, writeVars
<1>3. CASE SendConn
  <2>1. inflight \in Packet
    BY <1>3 DEF SendConn, TypeInv, HoldInv
  <2>2. Sent \/ Fail
    BY <1>3, <2>1 DEF SendConn, SendFails, Sent, Fail, chanVars, writeVars
  <2> QED  BY <1>3, <2>2 DEF SendConn, Hands, Move, writeVars
<1>4. ASSUME NEW c \in Callers, Close(c) PROVE Move /\ Hands'
  <2>1. Still /\ UNCHANGED <<pc, spc>>
    BY <1>4 DEF Close, CloseTest, CloseChan, CloseFlag, CloseConn, Still, chanVars, writeVars, sendVars,
       histVars, outVars
  <2> QED  BY <2>1 DEF Hands, Move, Still
<1>5. CASE UNCHANGED vars
  BY <1>5 DEF vars, Still, Hands, Move, chanVars, writeVars, sendVars, histVars, outVars
<1> QED  BY <1>1, <1>2, <1>3, <1>4, <1>5 DEF Next

---------------------------------------------------------------------------
(***************************************************************************)
(* Order.  A packet that DropPacket never puts back is behind every older  *)
(* packet of its producer, from the hand of Write to the connection.       *)
(***************************************************************************)

\* `late` may come after `first`.
InTurn(first, late) == first.by = late.by /\ late.kind \notin Kept => first.id <= late.id

\* Ids are counted by n, and only the producer of a packet that is never put
\* back has it in hand.
Numbered ==
    /\ \A i \in 1 .. Len(sent) : sent[i].id <= n
    /\ \A i \in 1 .. Len(queue) : queue[i].id <= n
    /\ inflight.id <= n
    /\ \A p \in Producers : cur[p].id <= n
    /\ \A p \in Producers : cur[p] \in Packet /\ cur[p].kind \notin Kept => cur[p].by = p

SentInTurn == \A i, j \in 1 .. Len(sent) : i < j => InTurn(sent[i], sent[j])
FlightInTurn == inflight \in Packet => \A i \in 1 .. Len(sent) : InTurn(sent[i], inflight)
QueueInTurn ==
    \A j \in 1 .. Len(queue) :
        /\ \A i \in 1 .. Len(sent) : InTurn(sent[i], queue[j])
        /\ InTurn(inflight, queue[j])
        /\ \A i \in 1 .. Len(queue) : i < j => InTurn(queue[i], queue[j])
HandsInTurn ==
    \A p \in Producers : cur[p] \in Packet =>
        /\ \A i \in 1 .. Len(sent) : InTurn(sent[i], cur[p])
        /\ InTurn(inflight, cur[p])
        /\ \A i \in 1 .. Len(queue) : InTurn(queue[i], cur[p])
        /\ \A q \in Producers \ {p} : InTurn(cur[q], cur[p])

OrderInv == Numbered /\ SentInTurn /\ FlightInTurn /\ QueueInTurn /\ HandsInTurn

\* Elements of what is left of a queue, and of a queue with one more.
LEMMA TailAt ==
    ASSUME NEW S, NEW q \in Seq(S), q # <<>>
    PROVE  /\ Len(q) \in Nat /\ 1 \in 1 .. Len(q) /\ Head(q) = q[1] /\ Len(Tail(q)) = Len(q) - 1
           /\ \A i \in 1 .. Len(Tail(q)) : i + 1 \in 1 .. Len(q) /\ Tail(q)[i] = q[i + 1]
  OBVIOUS

LEMMA AppendAt ==
    ASSUME NEW S, NEW q \in Seq(S), NEW x \in S
    PROVE  /\ Len(q) \in Nat /\ Len(Append(q, x)) = Len(q) + 1
           /\ \A i \in 1 .. Len(q) : Append(q, x)[i] = q[i]
           /\ Append(q, x)[Len(q) + 1] = x
           /\ \A i \in 1 .. Len(q) + 1 : i \in 1 .. Len(q) \/ i = Len(q) + 1
  OBVIOUS

LEMMA NoPacketIs == NoPacket \notin Packet /\ NoPacket.id = 0 /\ \A x \in Packet : x.id \in Nat \ {0}
  BY SizeAssumption DEF NoPacket, Packet

LEMMA NoneInTurn == \A x \in Packet : InTurn(NoPacket, x)
  BY NoPacketIs DEF InTurn

LEMMA OrderKept ==
    ASSUME TypeInv, OrderInv, Move
    PROVE  OrderInv'
<1>t. /\ queue \in Seq(Packet) /\ sent \in Seq(Packet) /\ n \in Nat /\ Len(queue) \in Nat /\ Len(sent) \in Nat
      /\ inflight \in Packet \cup {NoPacket} /\ cur \in [Producers -> Packet \cup {NoPacket}]
  BY DEF TypeInv, TypeOK
<1>i. /\ \A i \in 1 .. Len(queue) : queue[i] \in Packet
      /\ \A i \in 1 .. Len(sent) : sent[i] \in Packet
  BY <1>t
<1>q. queue # <<>> =>
        /\ 1 \in 1 .. Len(queue) /\ Head(queue) = queue[1] /\ Len(Tail(queue)) = Len(queue) - 1
        /\ \A i \in 1 .. Len(Tail(queue)) : i + 1 \in 1 .. Len(queue) /\ Tail(queue)[i] = queue[i + 1]
  BY <1>t, TailAt
<1>z. \A x \in Packet : InTurn(NoPacket, x)
  BY NoneInTurn
<1>1. ASSUME NEW p \in Producers, Enter(p) PROVE OrderInv'
  <2>1. PICK k \in Kinds : cur' = [cur EXCEPT ![p] = [id |-> n + 1, kind |-> k, by |-> p]]
    BY <1>1 DEF Enter
  <2>2. /\ cur'[p] = [id |-> n + 1, kind |-> k, by |-> p] /\ n' = n + 1
        /\ UNCHANGED <<queue, inflight, sent>> /\ \A q \in Producers \ {p} : cur'[q] = cur[q]
    BY <1>1, <1>t, <2>1 DEF Enter
  <2>3. \A x : x.id <= n /\ x.id \in Int => InTurn(x, cur'[p])
    BY <1>t, <2>2 DEF InTurn
  <2>4. /\ \A i \in 1 .. Len(sent) : sent[i].id \in Int /\ sent[i].id <= n
        /\ \A i \in 1 .. Len(queue) : queue[i].id \in Int /\ queue[i].id <= n
        /\ inflight.id \in Int /\ inflight.id <= n
        /\ \A q \in Producers : cur[q].id \in Int /\ cur[q].id <= n
    BY <1>t, <1>i, NoPacketIs DEF OrderInv, Numbered
  <2>5. Numbered'
    BY <1>t, <2>2, <2>4 DEF OrderInv, Numbered
  <2>6. SentInTurn' /\ FlightInTurn' /\ QueueInTurn'
    BY <2>2 DEF OrderInv, SentInTurn, FlightInTurn, QueueInTurn
  <2>7. HandsInTurn'
    <3>1. \A q \in Producers \ {p} : cur[q] \in Packet => InTurn(cur'[p], cur[q])
      BY <2>2 DEF OrderInv, Numbered, InTurn
    <3>2. ASSUME NEW q \in Producers \ {p}, cur'[q] \in Packet
          PROVE  /\ \A i \in 1 .. Len(sent') : InTurn(sent'[i], cur'[q])
                 /\ InTurn(inflight', cur'[q])
                 /\ \A i \in 1 .. Len(queue') : InTurn(queue'[i], cur'[q])
                 /\ \A r \in Producers \ {q} : InTurn(cur'[r], cur'[q])
      BY <2>2, <3>1, <3>2 DEF OrderInv, HandsInTurn
    <3>3. /\ \A i \in 1 .. Len(sent') : InTurn(sent'[i], cur'[p])
          /\ InTurn(inflight', cur'[p])
          /\ \A i \in 1 .. Len(queue') : InTurn(queue'[i], cur'[p])
          /\ \A r \in Producers \ {p} : InTurn(cur'[r], cur'[p])
      BY <2>2, <2>3, <2>4
    <3> QED  BY <3>2, <3>3 DEF HandsInTurn
  <2> QED  BY <2>5, <2>6, <2>7 DEF OrderInv
<1>2. ASSUME NEW p \in Producers, Push(p) PROVE OrderInv'
  <2>1. /\ cur[p] \in Packet /\ cur'[p] = NoPacket /\ queue' = Append(queue, cur[p])
        /\ UNCHANGED <<n, inflight, sent>> /\ \A q \in Producers \ {p} : cur'[q] = cur[q]
    BY <1>2, <1>t DEF Push
  <2>2. /\ Len(queue') = Len(queue) + 1 /\ queue'[Len(queue) + 1] = cur[p]
        /\ \A i \in 1 .. Len(queue) : queue'[i] = queue[i]
        /\ \A i \in 1 .. Len(queue') : i \in 1 .. Len(queue) \/ i = Len(queue) + 1
    BY <1>t, <2>1, AppendAt
  <2>3. Numbered'
    <3>1. \A i \in 1 .. Len(queue') : queue'[i].id <= n
      BY <2>2 DEF OrderInv, Numbered
    <3>2. \A q \in Producers : cur'[q].id <= n
      BY <1>t, <2>1, NoPacketIs DEF OrderInv, Numbered
    <3>3. \A q \in Producers : cur'[q] \in Packet /\ cur'[q].kind \notin Kept => cur'[q].by = q
      BY <2>1, NoPacketIs DEF OrderInv, Numbered
    <3> QED  BY <2>1, <3>1, <3>2, <3>3 DEF OrderInv, Numbered
  <2>4. SentInTurn' /\ FlightInTurn'
    BY <2>1 DEF OrderInv, SentInTurn, FlightInTurn
  <2>5. QueueInTurn'
    <3>1. ASSUME NEW j \in 1 .. Len(queue)
          PROVE  /\ \A i \in 1 .. Len(sent') : InTurn(sent'[i], queue'[j])
                 /\ InTurn(inflight', queue'[j])
                 /\ \A i \in 1 .. Len(queue') : i < j => InTurn(queue'[i], queue'[j])
      BY <1>t, <2>1, <2>2 DEF OrderInv, QueueInTurn
    <3>2. /\ \A i \in 1 .. Len(sent') : InTurn(sent'[i], cur[p])
          /\ InTurn(inflight', cur[p])
          /\ \A i \in 1 .. Len(queue) : InTurn(queue'[i], cur[p])
      BY <2>1, <2>2 DEF OrderInv, HandsInTurn
    <3> QED  BY <1>t, <2>2, <3>1, <3>2 DEF QueueInTurn
  <2>6. HandsInTurn'
    <3> SUFFICES ASSUME NEW q \in Producers, cur'[q] \in Packet
                 PROVE  /\ \A i \in 1 .. Len(sent') : InTurn(sent'[i], cur'[q])
                        /\ InTurn(inflight', cur'[q])
                        /\ \A i \in 1 .. Len(queue') : InTurn(queue'[i], cur'[q])
                        /\ \A r \in Producers \ {q} : InTurn(cur'[r], cur'[q])
      BY DEF HandsInTurn
    <3>1. q # p /\ cur'[q] = cur[q]
      BY <2>1, NoPacketIs
    <3>2. InTurn(cur[p], cur[q])
      BY <3>1 DEF OrderInv, HandsInTurn
    <3> QED  BY <1>z, <2>1, <2>2, <3>1, <3>2 DEF OrderInv, HandsInTurn
  <2> QED  BY <2>3, <2>4, <2>5, <2>6 DEF OrderInv
<1>3. ASSUME NEW p \in Producers, Lose(p) PROVE OrderInv'
  <2>1. /\ cur'[p] = NoPacket /\ UNCHANGED <<n, queue, inflight, sent>>
        /\ \A q \in Producers \ {p} : cur'[q] = cur[q]
    BY <1>3, <1>t DEF Lose
  <2>2. Numbered'
    BY <1>t, <2>1, NoPacketIs DEF OrderInv, Numbered
  <2>3. HandsInTurn'
    BY <1>z, <2>1, NoPacketIs DEF OrderInv, HandsInTurn
  <2> QED  BY <2>1, <2>2, <2>3 DEF OrderInv, SentInTurn, FlightInTurn, QueueInTurn
<1>4. ASSUME NEW p \in Producers, Rotate(p) PROVE OrderInv'
  <2>1. /\ queue # <<>> /\ queue' = Tail(queue) /\ cur'[p] = queue[1] /\ queue[1].kind \in Kept
        /\ UNCHANGED <<n, inflight, sent>> /\ \A q \in Producers \ {p} : cur'[q] = cur[q]
    BY <1>4, <1>t, <1>q DEF Rotate
  <2>2. \A x : InTurn(x, cur'[p])
    BY <2>1 DEF InTurn
  <2>3. Numbered'
    BY <1>q, <2>1 DEF OrderInv, Numbered
  <2>4. SentInTurn' /\ FlightInTurn'
    BY <2>1 DEF OrderInv, SentInTurn, FlightInTurn
  <2>5. QueueInTurn'
    BY <1>t, <1>q, <2>1 DEF OrderInv, QueueInTurn
  <2>6. HandsInTurn'
    BY <1>q, <2>1, <2>2 DEF OrderInv, HandsInTurn
  <2> QED  BY <2>3, <2>4, <2>5, <2>6 DEF OrderInv
<1>5. CASE Throw
  <2>1. queue # <<>> /\ queue' = Tail(queue) /\ UNCHANGED <<n, cur, inflight, sent>>
    BY <1>5 DEF Throw
  <2>2. Numbered' /\ SentInTurn' /\ FlightInTurn'
    BY <1>q, <2>1 DEF OrderInv, Numbered, SentInTurn, FlightInTurn
  <2>3. QueueInTurn'
    BY <1>t, <1>q, <2>1 DEF OrderInv, QueueInTurn
  <2>4. HandsInTurn'
    BY <1>q, <2>1 DEF OrderInv, HandsInTurn
  <2> QED  BY <2>2, <2>3, <2>4 DEF OrderInv
<1>6. CASE Take
  <2>1. queue # <<>> /\ queue' = Tail(queue) /\ inflight' = queue[1] /\ UNCHANGED <<n, cur, sent>>
    BY <1>6, <1>q DEF Take
  <2>2. Numbered' /\ SentInTurn'
    BY <1>q, <2>1 DEF OrderInv, Numbered, SentInTurn
  <2>3. FlightInTurn'
    BY <1>q, <2>1 DEF OrderInv, QueueInTurn, FlightInTurn
  <2>4. QueueInTurn'
    BY <1>t, <1>q, <2>1 DEF OrderInv, QueueInTurn
  <2>5. HandsInTurn'
    BY <1>q, <2>1 DEF OrderInv, HandsInTurn
  <2> QED  BY <2>2, <2>3, <2>4, <2>5 DEF OrderInv
<1>7. CASE Sent
  <2>1. inflight \in Packet /\ sent' = Append(sent, inflight) /\ inflight' = NoPacket
        /\ UNCHANGED <<n, queue, cur>>
    BY <1>7 DEF Sent
  <2>2. /\ Len(sent') = Len(sent) + 1 /\ sent'[Len(sent) + 1] = inflight
        /\ \A i \in 1 .. Len(sent) : sent'[i] = sent[i]
        /\ \A i \in 1 .. Len(sent') : i \in 1 .. Len(sent) \/ i = Len(sent) + 1
    BY <1>t, <2>1, AppendAt
  <2>3. Numbered'
    BY <1>t, <2>1, <2>2, NoPacketIs DEF OrderInv, Numbered
  <2>4. SentInTurn'
    BY <1>t, <2>1, <2>2 DEF OrderInv, SentInTurn, FlightInTurn
  <2>5. FlightInTurn'
    BY <2>1, NoPacketIs DEF FlightInTurn
  <2>6. QueueInTurn'
    BY <1>i, <1>z, <2>1, <2>2 DEF OrderInv, QueueInTurn
  <2>7. HandsInTurn'
    BY <1>z, <2>1, <2>2 DEF OrderInv, HandsInTurn
  <2> QED  BY <2>3, <2>4, <2>5, <2>6, <2>7 DEF OrderInv
<1>8. CASE Fail
  <2>1. inflight' = NoPacket /\ UNCHANGED <<n, queue, cur, sent>>
    BY <1>8 DEF Fail
  <2> QED  BY <1>t, <1>i, <1>z, <2>1, NoPacketIs
           DEF OrderInv, Numbered, SentInTurn, FlightInTurn, QueueInTurn, HandsInTurn
<1>9. CASE Still
  BY <1>9 DEF Still, OrderInv, Numbered, SentInTurn, FlightInTurn, QueueInTurn, HandsInTurn
<1> QED  BY <1>1, <1>2, <1>3, <1>4, <1>5, <1>6, <1>7, <1>8, <1>9 DEF Move

LEMMA OrderInductive ==
    /\ Init => OrderInv /\ Hands
    /\ TypeInv /\ Hands /\ OrderInv /\ [Next]_vars => OrderInv'
<1>1. Init => OrderInv /\ Hands
  BY NoPacketIs DEF Init, OrderInv, Numbered, SentInTurn, FlightInTurn, QueueInTurn, HandsInTurn, Hands
<1>2. TypeInv /\ Hands /\ OrderInv /\ [Next]_vars => OrderInv'
  BY StepIsMove, OrderKept
<1> QED  BY <1>1, <1>2

\* Whatever DropPacket puts back and whoever writes, an inter frame or metadata
\* is never overtaken by a later packet of its producer.
THEOREM InterFramesInOrder == Spec => []OnlyKeptKindsOvertaken
<1>1. TypeInv /\ OrderInv => OnlyKeptKindsOvertaken
  <2> SUFFICES ASSUME TypeInv, OrderInv, NEW i \in 1 .. Len(sent), NEW j \in 1 .. Len(sent), i < j,
                      sent[i].by = sent[j].by, sent[i].id > sent[j].id
               PROVE  sent[j].kind \in Kept
    BY DEF OnlyKeptKindsOvertaken, Kept
  <2>1. sent[i] \in Packet /\ sent[j] \in Packet
    BY DEF TypeInv, TypeOK
  <2>2. sent[i].id \in Nat /\ sent[j].id \in Nat
    BY <2>1, NoPacketIs
  <2> QED  BY <2>2 DEF OrderInv, SentInTurn, InTurn
<1> QED  BY <1>1, TypeInductive, OrderInductive, StepIsMove, PTL DEF Spec
---------------------------------------------------------------------------
(***************************************************************************)
(* Conservation.  A packet is counted in the seven places it may be in; a  *)
(* move takes one off a count and adds one to another.                     *)
(***************************************************************************)

One(x, i)     == IF x.id = i THEN 1 ELSE 0
Hits(s, i)    == {j \in 1 .. Len(s) : s[j].id = i}
Holders(f, i) == {p \in Producers : f[p].id = i}
OfId(S, i)    == {x \in S : x.id = i}

Places(i) ==
    Cardinality(Hits(queue, i)) + Cardinality(Holders(cur, i)) + One(inflight, i)
  + Cardinality(Hits(sent, i)) + Cardinality(OfId(dropped, i))
  + Cardinality(OfId(refused, i)) + Cardinality(OfId(failed, i))

CountInv ==
    /\ IsFiniteSet(dropped) /\ IsFiniteSet(refused) /\ IsFiniteSet(failed)
    /\ \A x \in dropped \cup refused \cup failed : x.id <= n
    /\ \A i \in 1 .. n : Places(i) = 1

LEMMA OneIs == \A x, i : One(x, i) \in Nat /\ (x.id = i => One(x, i) = 1) /\ (x.id # i => One(x, i) = 0)
  BY DEF One

\* Counting in a queue: how many, one more, one less.
LEMMA HitsCount ==
    ASSUME NEW s, Len(s) \in Nat, NEW i
    PROVE  /\ IsFiniteSet(Hits(s, i)) /\ Cardinality(Hits(s, i)) \in Nat
           /\ \A j \in 1 .. Len(s) : s[j].id = i => Cardinality(Hits(s, i)) >= 1
           /\ (\A j \in 1 .. Len(s) : s[j].id # i) => Cardinality(Hits(s, i)) = 0
<1>1. IsFiniteSet(1 .. Len(s))
  BY FS_Interval
<1>2. IsFiniteSet(Hits(s, i))
  BY <1>1, FS_Subset DEF Hits
<1>3. Cardinality(Hits(s, i)) \in Nat /\ (Cardinality(Hits(s, i)) = 0 <=> Hits(s, i) = {})
  BY <1>2, FS_CardinalityType, FS_EmptySet
<1>4. \A j \in 1 .. Len(s) : s[j].id = i => Hits(s, i) # {}
  BY DEF Hits
<1>5. (\A j \in 1 .. Len(s) : s[j].id # i) => Hits(s, i) = {}
  BY DEF Hits
<1> QED  BY <1>2, <1>3, <1>4, <1>5

LEMMA HitsAppend ==
    ASSUME NEW s \in Seq(Packet), NEW x \in Packet, NEW i
    PROVE  Cardinality(Hits(Append(s, x), i)) = Cardinality(Hits(s, i)) + One(x, i)
<1>1. /\ Len(s) \in Nat /\ Len(Append(s, x)) = Len(s) + 1
      /\ \A j \in 1 .. Len(s) : Append(s, x)[j] = s[j]
      /\ Append(s, x)[Len(s) + 1] = x
      /\ \A j \in 1 .. Len(s) + 1 : j \in 1 .. Len(s) \/ j = Len(s) + 1
  BY AppendAt
<1>2. \A j \in 1 .. Len(s) : j \in 1 .. Len(s) + 1 /\ j # Len(s) + 1
  BY <1>1
<1>3. IsFiniteSet(Hits(s, i)) /\ Cardinality(Hits(s, i)) \in Nat
  BY <1>1, HitsCount
<1>4. CASE x.id = i
  <2>1. Hits(Append(s, x), i) = Hits(s, i) \cup {Len(s) + 1}
    BY <1>1, <1>2, <1>4 DEF Hits
  <2>2. Len(s) + 1 \notin Hits(s, i)
    BY <1>2 DEF Hits
  <2>3. One(x, i) = 1
    BY <1>4, OneIs
  <2> QED  BY <1>3, <2>1, <2>2, <2>3, FS_AddElement
<1>5. CASE x.id # i
  <2>1. Hits(Append(s, x), i) = Hits(s, i)
    BY <1>1, <1>2, <1>5 DEF Hits
  <2>2. One(x, i) = 0
    BY <1>5, OneIs
  <2> QED  BY <1>3, <2>1, <2>2
<1> QED  BY <1>4, <1>5

LEMMA HitsTail ==
    ASSUME NEW s \in Seq(Packet), s # <<>>, NEW i
    PROVE  Cardinality(Hits(s, i)) = Cardinality(Hits(Tail(s), i)) + One(Head(s), i)
<1>1. /\ Len(s) \in Nat /\ 1 \in 1 .. Len(s) /\ Head(s) = s[1] /\ Len(Tail(s)) = Len(s) - 1
      /\ \A j \in 1 .. Len(Tail(s)) : j + 1 \in 1 .. Len(s) /\ Tail(s)[j] = s[j + 1]
  BY TailAt
<1> DEFINE T == Hits(Tail(s), i)
           R == Hits(s, i) \ {1}
           f == [j \in T |-> j + 1]
<1>2. IsFiniteSet(T) /\ IsFiniteSet(Hits(s, i)) /\ Cardinality(T) \in Nat /\ Cardinality(Hits(s, i)) \in Nat
  <2>1. Len(Tail(s)) \in Nat
    BY <1>1
  <2> QED  BY <1>1, <2>1, HitsCount
<1>3. f \in Bijection(T, R)
  <2>1. \A j \in T : f[j] \in R
    BY <1>1 DEF Hits
  <2>2. \A j, k \in T : f[j] = f[k] => j = k
    BY <1>1 DEF Hits
  <2>3. \A k \in R : k - 1 \in T /\ f[k - 1] = k
    BY <1>1 DEF Hits
  <2>4. \A k \in R : \E j \in T : f[j] = k
    BY <2>3
  <2>5. f \in [T -> R]
    BY <2>1
  <2> HIDE DEF T, R, f
  <2> QED  BY <2>2, <2>4, <2>5, Fun_IsBij
<1>4. Cardinality(T) = Cardinality(R)
  <2> HIDE DEF T, R, f
  <2> QED  BY <1>2, <1>3, FS_Bijection DEF ExistsBijection
<1>5. CASE Head(s).id = i
  <2>1. 1 \in Hits(s, i)
    BY <1>1, <1>5 DEF Hits
  <2>2. Cardinality(R) = Cardinality(Hits(s, i)) - 1
    BY <1>2, <2>1, FS_RemoveElement
  <2>3. One(Head(s), i) = 1
    BY <1>5, OneIs
  <2> QED  BY <1>2, <1>4, <2>2, <2>3
<1>6. CASE Head(s).id # i
  <2>1. R = Hits(s, i)
    BY <1>1, <1>6 DEF Hits
  <2>2. One(Head(s), i) = 0
    BY <1>6, OneIs
  <2>3. Cardinality(R) = Cardinality(Hits(s, i))
    BY <2>1
  <2> QED  BY <1>2, <1>4, <2>2, <2>3
<1> QED  BY <1>5, <1>6

\* Counting hands: how many, and a goroutine whose packet changes.
LEMMA HoldersCount ==
    ASSUME NEW f, NEW i
    PROVE  /\ IsFiniteSet(Holders(f, i)) /\ Cardinality(Holders(f, i)) \in Nat
           /\ \A p \in Producers : f[p].id = i => Cardinality(Holders(f, i)) >= 1
           /\ (\A p \in Producers : f[p].id # i) => Cardinality(Holders(f, i)) = 0
<1>1. IsFiniteSet(Holders(f, i))
  BY ThreadAssumption, FS_Subset DEF Holders
<1>2. Cardinality(Holders(f, i)) \in Nat /\ (Cardinality(Holders(f, i)) = 0 <=> Holders(f, i) = {})
  BY <1>1, FS_CardinalityType, FS_EmptySet
<1>3. \A p \in Producers : f[p].id = i => Holders(f, i) # {}
  BY DEF Holders
<1>4. (\A p \in Producers : f[p].id # i) => Holders(f, i) = {}
  BY DEF Holders
<1> QED  BY <1>1, <1>2, <1>3, <1>4

LEMMA HoldersChange ==
    ASSUME NEW f, NEW g, NEW p \in Producers, \A q \in Producers \ {p} : g[q] = f[q], NEW i
    PROVE  Cardinality(Holders(g, i)) + One(f[p], i) = Cardinality(Holders(f, i)) + One(g[p], i)
<1> DEFINE H == Holders(f, i) \ {p}
<1>1. \A S : IsFiniteSet(S) /\ p \notin S => Cardinality(S \cup {p}) = Cardinality(S) + 1
  BY FS_AddElement
<1>2. IsFiniteSet(H) /\ p \notin H
  BY HoldersCount, FS_Subset
<1>2a. Cardinality(H) \in Nat
  BY <1>2, FS_CardinalityType
<1>3. ASSUME NEW h, \A q \in Producers \ {p} : h[q] = f[q]
      PROVE  Cardinality(Holders(h, i)) = Cardinality(H) + One(h[p], i)
  <2>1. CASE h[p].id = i
    <3>1. Holders(h, i) = H \cup {p}
      BY <1>3, <2>1 DEF Holders
    <3>2. One(h[p], i) = 1
      BY <2>1, OneIs
    <3> QED  BY <1>1, <1>2, <3>1, <3>2
  <2>2. CASE h[p].id # i
    <3>1. Holders(h, i) = H
      BY <1>3, <2>2 DEF Holders
    <3>2. One(h[p], i) = 0
      BY <2>2, OneIs
    <3> QED  BY <1>2a, <3>1, <3>2
  <2> QED  BY <2>1, <2>2
<1>4. One(f[p], i) \in Nat /\ One(g[p], i) \in Nat
  BY OneIs
<1> HIDE DEF H
<1>5. Cardinality(Holders(g, i)) = Cardinality(H) + One(g[p], i)
  BY <1>3
<1>6. Cardinality(Holders(f, i)) = Cardinality(H) + One(f[p], i)
  BY <1>3
<1> QED  BY <1>2a, <1>4, <1>5, <1>6

\* Counting what is lost: how many, and one more.
LEMMA OfIdCount ==
    ASSUME NEW S, IsFiniteSet(S), NEW i
    PROVE  /\ IsFiniteSet(OfId(S, i)) /\ Cardinality(OfId(S, i)) \in Nat
           /\ \A x \in S : x.id = i => Cardinality(OfId(S, i)) >= 1
           /\ (\A x \in S : x.id # i) => Cardinality(OfId(S, i)) = 0
<1>1. IsFiniteSet(OfId(S, i))
  BY FS_Subset DEF OfId
<1>2. Cardinality(OfId(S, i)) \in Nat /\ (Cardinality(OfId(S, i)) = 0 <=> OfId(S, i) = {})
  BY <1>1, FS_CardinalityType, FS_EmptySet
<1>3. \A x \in S : x.id = i => OfId(S, i) # {}
  BY DEF OfId
<1>4. (\A x \in S : x.id # i) => OfId(S, i) = {}
  BY DEF OfId
<1> QED  BY <1>1, <1>2, <1>3, <1>4

LEMMA OfIdAdd ==
    ASSUME NEW S, IsFiniteSet(S), NEW x, x \notin S, NEW i
    PROVE  Cardinality(OfId(S \cup {x}, i)) = Cardinality(OfId(S, i)) + One(x, i)
<1>1. IsFiniteSet(OfId(S, i)) /\ Cardinality(OfId(S, i)) \in Nat
  BY OfIdCount
<1>2. CASE x.id = i
  <2>1. OfId(S \cup {x}, i) = OfId(S, i) \cup {x} /\ x \notin OfId(S, i)
    BY <1>2 DEF OfId
  <2>2. One(x, i) = 1
    BY <1>2, OneIs
  <2> QED  BY <1>1, <2>1, <2>2, FS_AddElement
<1>3. CASE x.id # i
  <2>1. OfId(S \cup {x}, i) = OfId(S, i)
    BY <1>3 DEF OfId
  <2>2. One(x, i) = 0
    BY <1>3, OneIs
  <2> QED  BY <1>1, <2>1, <2>2
<1> QED  BY <1>2, <1>3

LEMMA CountKept ==
    ASSUME TypeInv, Numbered, CountInv, Move
    PROVE  CountInv'
<1>t. /\ queue \in Seq(Packet) /\ sent \in Seq(Packet) /\ n \in Nat /\ Len(queue) \in Nat /\ Len(sent) \in Nat
      /\ inflight \in Packet \cup {NoPacket} /\ cur \in [Producers -> Packet \cup {NoPacket}]
  BY DEF TypeInv, TypeOK
<1>f. IsFiniteSet(dropped) /\ IsFiniteSet(refused) /\ IsFiniteSet(failed)
  BY DEF CountInv
<1> DEFINE Q(i) == Cardinality(Hits(queue, i))
           H(i) == Cardinality(Holders(cur, i))
           S(i) == Cardinality(Hits(sent, i))
           D(i) == Cardinality(OfId(dropped, i))
           R(i) == Cardinality(OfId(refused, i))
           F(i) == Cardinality(OfId(failed, i))
<1>n. \A i : /\ Q(i) \in Nat /\ H(i) \in Nat /\ One(inflight, i) \in Nat /\ S(i) \in Nat
             /\ D(i) \in Nat /\ R(i) \in Nat /\ F(i) \in Nat
             /\ Places(i) = Q(i) + H(i) + One(inflight, i) + S(i) + D(i) + R(i) + F(i)
  BY <1>t, <1>f, HitsCount, HoldersCount, OfIdCount, OneIs DEF Places
<1>z. \A i \in Nat \ {0} : One(NoPacket, i) = 0
  BY OneIs, NoPacketIs
<1>q. \A i \in 1 .. n : Places(i) = 1
  BY DEF CountInv
\* A packet counted elsewhere is not lost yet.
<1>l. ASSUME NEW x \in Packet, x.id <= n,
             Q(x.id) >= 1 \/ H(x.id) >= 1 \/ One(inflight, x.id) >= 1
      PROVE  x \notin dropped /\ x \notin refused /\ x \notin failed
  <2>1. x.id \in 1 .. n
    BY <1>t, <1>l, NoPacketIs
  <2>2. D(x.id) = 0 /\ R(x.id) = 0 /\ F(x.id) = 0
    <3> HIDE DEF Q, H, S, D, R, F
    <3> QED  BY <1>l, <1>n, <1>q, <2>1
  <2> QED  BY <1>f, <2>2, OfIdCount
\* It is enough that the counts add up to what they were.
<1>e. ASSUME n' = n, NEW x \in Packet, x.id <= n,
             \/ UNCHANGED lostVars
             \/ dropped' = dropped \cup {x} /\ UNCHANGED <<refused, failed>>
             \/ refused' = refused \cup {x} /\ UNCHANGED <<dropped, failed>>
             \/ failed' = failed \cup {x} /\ UNCHANGED <<dropped, refused>>,
             \A i \in 1 .. n : Places(i)' = Places(i)
      PROVE  CountInv'
  <2>1. IsFiniteSet(dropped') /\ IsFiniteSet(refused') /\ IsFiniteSet(failed')
    BY <1>e, <1>f, FS_AddElement DEF lostVars
  <2>2. \A y \in dropped' \cup refused' \cup failed' : y.id <= n'
    BY <1>e DEF CountInv, lostVars
  <2> QED  BY <1>e, <1>q, <2>1, <2>2 DEF CountInv
<1>i. queue # <<>> => Head(queue) \in Packet /\ Head(queue).id <= n /\ Q(Head(queue).id) >= 1
  <2> SUFFICES ASSUME queue # <<>>
               PROVE  Head(queue) \in Packet /\ Head(queue).id <= n /\ Q(Head(queue).id) >= 1
    OBVIOUS
  <2>1. 1 \in 1 .. Len(queue) /\ Head(queue) = queue[1]
    BY <1>t, TailAt
  <2> QED  BY <1>t, <2>1, HitsCount DEF Numbered
<1>1. ASSUME NEW p \in Producers, Enter(p) PROVE CountInv'
  <2>1. PICK k \in Kinds : cur' = [cur EXCEPT ![p] = [id |-> n + 1, kind |-> k, by |-> p]]
    BY <1>1 DEF Enter
  <2>2. /\ cur'[p].id = n + 1 /\ n' = n + 1 /\ \A q \in Producers \ {p} : cur'[q] = cur[q]
        /\ UNCHANGED <<queue, inflight, sent, dropped, refused, failed>> /\ cur[p] = NoPacket
    BY <1>1, <1>t, <2>1 DEF Enter, lostVars
  <2>3. ASSUME NEW i PROVE Cardinality(Holders(cur', i)) + One(cur[p], i) = H(i) + One(cur'[p], i)
    <3>1. \A q \in Producers \ {p} : cur'[q] = cur[q]
      BY <2>2
    <3> QED  BY <3>1, HoldersChange
  <2>3a. \A i : Cardinality(Holders(cur', i)) \in Nat
    BY HoldersCount
  <2>4. \A i : Places(i)' = Q(i) + Cardinality(Holders(cur', i)) + One(inflight, i) + S(i) + D(i) + R(i) + F(i)
    BY <2>2 DEF Places
  <2>5. \A i \in 1 .. n : One(cur'[p], i) = 0 /\ i \in Nat \ {0}
    BY <1>t, <2>2, OneIs
  <2>6. One(cur'[p], n + 1) = 1
    BY <2>2, OneIs
  <2>7. Q(n + 1) = 0 /\ H(n + 1) = 0 /\ One(inflight, n + 1) = 0 /\ S(n + 1) = 0
        /\ D(n + 1) = 0 /\ R(n + 1) = 0 /\ F(n + 1) = 0
    <3>1. \A j \in Int : j <= n => j # n + 1
      BY <1>t
    <3>2. /\ \A j \in 1 .. Len(queue) : queue[j].id # n + 1
          /\ \A j \in 1 .. Len(sent) : sent[j].id # n + 1
      BY <1>t, NoPacketIs, <3>1 DEF Numbered
    <3>3. /\ \A q \in Producers : cur[q].id # n + 1
          /\ inflight.id # n + 1
      BY <1>t, NoPacketIs, <3>1 DEF Numbered
    <3>4. \A x \in dropped \cup refused \cup failed : x.id # n + 1
      BY <1>t, NoPacketIs, <3>1 DEF CountInv, TypeInv, TypeOK
    <3>5. Q(n + 1) = 0 /\ S(n + 1) = 0
      BY <1>t, <3>2, HitsCount
    <3>6. H(n + 1) = 0 /\ One(inflight, n + 1) = 0
      BY <3>3, HoldersCount, OneIs
    <3>7. D(n + 1) = 0 /\ R(n + 1) = 0 /\ F(n + 1) = 0
      BY <1>f, <3>4, OfIdCount
    <3> QED  BY <3>5, <3>6, <3>7
  <2>8. n + 1 \in Nat \ {0} /\ \A i \in 1 .. n + 1 : i \in 1 .. n \/ i = n + 1
    BY <1>t
  <2>9. \A i \in 1 .. n : Places(i)' = 1
    <3> HIDE DEF Q, H, S, D, R, F
    <3> QED  BY <1>n, <1>q, <1>z, <2>2, <2>3, <2>3a, <2>4, <2>5
  <2>10. ASSUME NEW i, i = n + 1 PROVE Places(i)' = 1
    <3> HIDE DEF Q, H, S, D, R, F
    <3> QED  BY <1>n, <1>z, <2>2, <2>3, <2>3a, <2>4, <2>6, <2>7, <2>8, <2>10
  <2>11. \A y \in dropped \cup refused \cup failed : y.id <= n + 1
    BY <1>t, NoPacketIs DEF CountInv, TypeInv, TypeOK
  <2> QED  BY <1>f, <2>2, <2>8, <2>9, <2>10, <2>11 DEF CountInv

<1>2. ASSUME NEW p \in Producers, Push(p) PROVE CountInv'
  <2>1. /\ cur[p] \in Packet /\ cur'[p] = NoPacket /\ queue' = Append(queue, cur[p])
        /\ UNCHANGED <<n, inflight, sent, dropped, refused, failed>>
        /\ \A q \in Producers \ {p} : cur'[q] = cur[q]
    BY <1>2, <1>t DEF Push, lostVars
  <2>2. ASSUME NEW i \in 1 .. n PROVE Places(i)' = Places(i)
    <3>1. Cardinality(Holders(cur', i)) + One(cur[p], i) = H(i) + One(cur'[p], i)
      BY <2>1, HoldersChange
    <3>2. Cardinality(Hits(queue', i)) = Q(i) + One(cur[p], i)
      BY <1>t, <2>1, HitsAppend
    <3>3. /\ Cardinality(Holders(cur', i)) \in Nat /\ One(cur[p], i) \in Nat /\ One(cur'[p], i) = 0
          /\ Places(i)' = Cardinality(Hits(queue', i)) + Cardinality(Holders(cur', i))
                          + One(inflight, i) + S(i) + D(i) + R(i) + F(i)
      BY <1>t, <1>z, <2>1, HoldersCount, OneIs DEF Places
    <3> HIDE DEF Q, H, S, D, R, F
    <3> QED  BY <1>n, <3>1, <3>2, <3>3
  <2>3. cur[p].id <= n
    BY DEF Numbered
  <2> QED  BY <1>e, <2>1, <2>2, <2>3 DEF lostVars
<1>3. ASSUME NEW p \in Producers, Lose(p) PROVE CountInv'
  <2>1. /\ cur[p] \in Packet /\ cur'[p] = NoPacket /\ UNCHANGED <<n, queue, inflight, sent>>
        /\ \A q \in Producers \ {p} : cur'[q] = cur[q]
    BY <1>3, <1>t DEF Lose
  <2>2. cur[p].id <= n
    BY DEF Numbered
  <2>3. cur[p] \notin dropped /\ cur[p] \notin refused /\ cur[p] \notin failed
    <3>1. H(cur[p].id) >= 1
      BY HoldersCount
    <3> QED  BY <1>l, <2>1, <2>2, <3>1
  <2>4. \/ dropped' = dropped \cup {cur[p]} /\ UNCHANGED <<refused, failed>>
        \/ refused' = refused \cup {cur[p]} /\ UNCHANGED <<dropped, failed>>
        \/ failed' = failed \cup {cur[p]} /\ UNCHANGED <<dropped, refused>>
    BY <1>3 DEF Lose
  <2>5. ASSUME NEW i \in 1 .. n PROVE Places(i)' = Places(i)
    <3> DEFINE o == One(cur[p], i)
               DD == Cardinality(OfId(dropped', i))
               RR == Cardinality(OfId(refused', i))
               FF == Cardinality(OfId(failed', i))
    <3>1. Cardinality(Holders(cur', i)) + o = H(i) + One(cur'[p], i)
      <4>1. \A q \in Producers \ {p} : cur'[q] = cur[q]
        BY <2>1
      <4> QED  BY <4>1, HoldersChange
    <3>2. \/ DD = D(i) + o /\ RR = R(i) /\ FF = F(i)
          \/ DD = D(i) /\ RR = R(i) + o /\ FF = F(i)
          \/ DD = D(i) /\ RR = R(i) /\ FF = F(i) + o
      BY <1>f, <2>3, <2>4, OfIdAdd
    <3>3. /\ Cardinality(Holders(cur', i)) \in Nat /\ o \in Nat /\ One(cur'[p], i) = 0
          /\ Places(i)' = Q(i) + Cardinality(Holders(cur', i)) + One(inflight, i) + S(i) + DD + RR + FF
      BY <1>t, <1>z, <2>1, HoldersCount, OneIs DEF Places
    <3> HIDE DEF Q, H, S, D, R, F, o, DD, RR, FF
    <3> QED  BY <1>n, <3>1, <3>2, <3>3
  <2> QED  BY <1>e, <2>1, <2>2, <2>4, <2>5
<1>4. ASSUME NEW p \in Producers, Rotate(p) PROVE CountInv'
  <2>1. /\ queue # <<>> /\ queue' = Tail(queue) /\ cur'[p] = Head(queue) /\ cur[p] = NoPacket
        /\ UNCHANGED <<n, inflight, sent, dropped, refused, failed>>
        /\ \A q \in Producers \ {p} : cur'[q] = cur[q]
    BY <1>4, <1>t DEF Rotate, lostVars
  <2>2. ASSUME NEW i \in 1 .. n PROVE Places(i)' = Places(i)
    <3>1. Cardinality(Holders(cur', i)) + One(cur[p], i) = H(i) + One(cur'[p], i)
      <4>1. \A q \in Producers \ {p} : cur'[q] = cur[q]
        BY <2>1
      <4> QED  BY <4>1, HoldersChange
    <3>2. Q(i) = Cardinality(Hits(queue', i)) + One(cur'[p], i)
      BY <1>t, <2>1, HitsTail
    <3>3. /\ Cardinality(Holders(cur', i)) \in Nat /\ One(cur'[p], i) \in Nat /\ One(cur[p], i) = 0
          /\ Places(i)' = Cardinality(Hits(queue', i)) + Cardinality(Holders(cur', i))
                          + One(inflight, i) + S(i) + D(i) + R(i) + F(i)
      BY <1>t, <1>z, <2>1, HoldersCount, OneIs DEF Places
    <3>4. Cardinality(Hits(queue', i)) \in Nat
      BY <1>t, <2>1, HeadTail, HitsCount
    <3> HIDE DEF Q, H, S, D, R, F
    <3> QED  BY <1>n, <3>1, <3>2, <3>3, <3>4
  <2> QED  BY <1>e, <1>i, <2>1, <2>2 DEF lostVars
<1>5. CASE Throw
  <2>1. /\ queue # <<>> /\ queue' = Tail(queue) /\ dropped' = dropped \cup {Head(queue)}
        /\ UNCHANGED <<n, cur, inflight, sent, refused, failed>>
    BY <1>5 DEF Throw
  <2>2. Head(queue) \notin dropped
    BY <1>i, <1>l, <2>1
  <2>3. ASSUME NEW i \in 1 .. n PROVE Places(i)' = Places(i)
    <3>1. Cardinality(OfId(dropped', i)) = D(i) + One(Head(queue), i)
      BY <1>f, <2>1, <2>2, OfIdAdd
    <3>2. Q(i) = Cardinality(Hits(queue', i)) + One(Head(queue), i)
      BY <1>t, <2>1, HitsTail
    <3>3. /\ One(Head(queue), i) \in Nat
          /\ Places(i)' = Cardinality(Hits(queue', i)) + H(i) + One(inflight, i) + S(i)
                          + Cardinality(OfId(dropped', i)) + R(i) + F(i)
      BY <2>1, OneIs DEF Places
    <3>4. Cardinality(Hits(queue', i)) \in Nat
      BY <1>t, <2>1, HeadTail, HitsCount
    <3> HIDE DEF Q, H, S, D, R, F
    <3> QED  BY <1>n, <3>1, <3>2, <3>3, <3>4
  <2> QED  BY <1>e, <1>i, <2>1, <2>3
<1>6. CASE Take
  <2>1. /\ queue # <<>> /\ queue' = Tail(queue) /\ inflight' = Head(queue) /\ inflight = NoPacket
        /\ UNCHANGED <<n, cur, sent, dropped, refused, failed>>
    BY <1>6 DEF Take, lostVars
  <2>2. ASSUME NEW i \in 1 .. n PROVE Places(i)' = Places(i)
    <3>2. Q(i) = Cardinality(Hits(queue', i)) + One(inflight', i)
      BY <1>t, <2>1, HitsTail
    <3>3. /\ One(inflight', i) \in Nat /\ One(inflight, i) = 0
          /\ Places(i)' = Cardinality(Hits(queue', i)) + H(i) + One(inflight', i) + S(i) + D(i) + R(i) + F(i)
      BY <1>t, <1>z, <2>1, OneIs DEF Places
    <3>4. Cardinality(Hits(queue', i)) \in Nat
      BY <1>t, <2>1, HeadTail, HitsCount
    <3> HIDE DEF Q, H, S, D, R, F
    <3> QED  BY <1>n, <3>2, <3>3, <3>4
  <2> QED  BY <1>e, <1>i, <2>1, <2>2 DEF lostVars
<1>7. CASE Sent
  <2>1. /\ inflight \in Packet /\ sent' = Append(sent, inflight) /\ inflight' = NoPacket
        /\ UNCHANGED <<n, queue, cur, dropped, refused, failed>>
    BY <1>7 DEF Sent, lostVars
  <2>2. ASSUME NEW i \in 1 .. n PROVE Places(i)' = Places(i)
    <3>1. Cardinality(Hits(sent', i)) = S(i) + One(inflight, i)
      BY <1>t, <2>1, HitsAppend
    <3>2. /\ One(inflight', i) = 0
          /\ Places(i)' = Q(i) + H(i) + One(inflight', i) + Cardinality(Hits(sent', i)) + D(i) + R(i) + F(i)
      BY <1>t, <1>z, <2>1 DEF Places
    <3> HIDE DEF Q, H, S, D, R, F
    <3> QED  BY <1>n, <3>1, <3>2
  <2>3. inflight.id <= n
    BY DEF Numbered
  <2> QED  BY <1>e, <2>1, <2>2, <2>3 DEF lostVars
<1>8. CASE Fail
  <2>1. /\ inflight \in Packet /\ failed' = failed \cup {inflight} /\ inflight' = NoPacket
        /\ UNCHANGED <<n, queue, cur, sent, dropped, refused>>
    BY <1>8 DEF Fail
  <2>2. inflight.id <= n
    BY DEF Numbered
  <2>3. inflight \notin failed
    <3>1. One(inflight, inflight.id) >= 1
      BY OneIs
    <3> QED  BY <1>l, <2>1, <2>2, <3>1
  <2>4. ASSUME NEW i \in 1 .. n PROVE Places(i)' = Places(i)
    <3>1. Cardinality(OfId(failed', i)) = F(i) + One(inflight, i)
      BY <1>f, <2>1, <2>3, OfIdAdd
    <3>2. /\ One(inflight', i) = 0
          /\ Places(i)' = Q(i) + H(i) + One(inflight', i) + S(i) + D(i) + R(i) + Cardinality(OfId(failed', i))
      BY <1>t, <1>z, <2>1 DEF Places
    <3> HIDE DEF Q, H, S, D, R, F
    <3> QED  BY <1>n, <3>1, <3>2
  <2> QED  BY <1>e, <2>1, <2>2, <2>4
<1>9. CASE Still
  BY <1>9 DEF Still, CountInv, Places, lostVars
<1> QED  BY <1>1, <1>2, <1>3, <1>4, <1>5, <1>6, <1>7, <1>8, <1>9 DEF Move

\* Every packet given to Write is in one place: DropPacket, SendPacket and
\* Close, in whatever order they run, neither lose track of one nor send or
\* count one twice.
THEOREM PacketsConserved == Spec => []Conservation
<1>1. Init => CountInv
  <2>1. ASSUME Init PROVE CountInv
    <3>1. n = 0 /\ dropped = {} /\ refused = {} /\ failed = {} /\ \A i \in 1 .. 0 : FALSE
      BY <2>1 DEF Init
    <3> QED  BY <3>1, FS_EmptySet DEF CountInv
  <2> QED  BY <2>1
<1>2. TypeInv /\ Hands /\ OrderInv /\ CountInv /\ [Next]_vars => CountInv'
  BY StepIsMove, CountKept DEF OrderInv
<1>3. CountInv => Conservation
  BY DEF CountInv, Conservation, Places, Hits, Holders, OfId, One
<1> QED  BY <1>1, <1>2, <1>3, TypeInductive, OrderInductive, StepIsMove, PTL DEF Spec

---------------------------------------------------------------------------
(***************************************************************************)
(* The HTTP-FLV player.  The same argument with one producer, and with a   *)
(* DropPacket that throws away two packets for every video packet.         *)
(***************************************************************************)

Tag == [id : 1 .. FlvPackets, kind : FlvKinds]

\* A tag that DropPacket holds takes a place of the queue.
FlvTyped ==
    /\ FlvTypeOK
    /\ fq \in Seq(Tag) /\ fsent \in Seq(Tag) /\ fn \in 0 .. FlvPackets
    /\ fsend \in Tag \cup {NoTag} /\ wpkt \in Tag \cup {NoTag}
    /\ wpc \in {"pop", "requeue", "mark", "other", "audio"} => wrounds > 0
    /\ wpc \in {"requeue", "audio"} => Len(fq) < FlvHighWater /\ wpkt \in Tag /\ wpkt.kind \in Kept
    /\ fspc = "tag" => fsend \in Tag

FInTurn(first, late) == late.kind \notin Kept => first.id <= late.id

FlvOrder ==
    /\ \A i \in 1 .. Len(fq) : fq[i].id <= fn
    /\ \A i \in 1 .. Len(fsent) : fsent[i].id <= fn
    /\ fsend.id <= fn /\ wpkt.id <= fn
    /\ \A i, j \in 1 .. Len(fsent) : i < j => FInTurn(fsent[i], fsent[j])
    /\ fsend \in Tag => \A i \in 1 .. Len(fsent) : FInTurn(fsent[i], fsend)
    /\ \A j \in 1 .. Len(fq) :
        /\ \A i \in 1 .. Len(fsent) : FInTurn(fsent[i], fq[j])
        /\ FInTurn(fsend, fq[j])
        /\ \A i \in 1 .. Len(fq) : i < j => FInTurn(fq[i], fq[j])

FlvInv == FlvTyped /\ FlvOrder

LEMMA NoTagIs == NoTag \notin Tag /\ NoTag.id = 0 /\ \A x \in Tag : x.id \in Nat \ {0}
  BY FlvAssumption DEF NoTag, Tag

\* A step keeps the order if what it does to the queue is one of: nothing,
\* a packet less, a new packet or one of a kept kind more.
LEMMA FlvQueueStep ==
    ASSUME FlvInv, UNCHANGED <<fsend, fsent>>, fn' \in {fn, fn + 1}, wpkt'.id <= fn',
           \/ fq' = fq
           \/ fq # <<>> /\ fq' = Tail(fq)
           \/ \E x \in Tag : fq' = Append(fq, x) /\ x.id <= fn' /\ (x.kind \in Kept \/ x.id = fn + 1)
    PROVE  FlvOrder'
<1>t. /\ fq \in Seq(Tag) /\ fsent \in Seq(Tag) /\ Len(fq) \in Nat /\ Len(fsent) \in Nat /\ fn \in Nat
      /\ fn <= fn' /\ fn' \in Nat
      /\ \A i \in 1 .. Len(fq) : fq[i].id \in Nat /\ fq[i].id <= fn
      /\ \A i \in 1 .. Len(fsent) : fsent[i].id \in Nat /\ fsent[i].id <= fn
      /\ fsend.id \in Nat /\ fsend.id <= fn
  <2>1. fn \in Nat /\ fn <= fn' /\ fn' \in Nat
    BY FlvAssumption DEF FlvInv, FlvTyped
  <2>2. fq \in Seq(Tag) /\ fsent \in Seq(Tag) /\ fsend \in Tag \cup {NoTag}
    BY DEF FlvInv, FlvTyped
  <2>3. (\A i \in 1 .. Len(fq) : fq[i] \in Tag) /\ (\A i \in 1 .. Len(fsent) : fsent[i] \in Tag)
    BY <2>2
  <2> QED  BY <2>1, <2>2, <2>3, NoTagIs DEF FlvInv, FlvOrder
<1>1. /\ \A i \in 1 .. Len(fsent') : fsent'[i].id <= fn'
      /\ fsend'.id <= fn' /\ wpkt'.id <= fn'
  BY <1>t
<1>2. /\ \A i, j \in 1 .. Len(fsent') : i < j => FInTurn(fsent'[i], fsent'[j])
      /\ fsend' \in Tag => \A i \in 1 .. Len(fsent') : FInTurn(fsent'[i], fsend')
  BY DEF FlvInv, FlvOrder
<1> DEFINE Fits(j) == /\ fq'[j].id <= fn'
                      /\ \A i \in 1 .. Len(fsent') : FInTurn(fsent'[i], fq'[j])
                      /\ FInTurn(fsend', fq'[j])
                      /\ \A i \in 1 .. Len(fq') : i < j => FInTurn(fq'[i], fq'[j])
<1>3. CASE fq' = fq
  <2>1. \A j \in 1 .. Len(fq') : fq'[j].id <= fn'
    BY <1>t, <1>3
  <2> QED  BY <1>1, <1>2, <1>3, <2>1 DEF FlvInv, FlvOrder
<1>4. CASE fq # <<>> /\ fq' = Tail(fq)
  <2>1. /\ Len(fq') = Len(fq) - 1
        /\ \A i \in 1 .. Len(fq') : i + 1 \in 1 .. Len(fq) /\ fq'[i] = fq[i + 1]
    BY <1>t, <1>4, TailAt
  <2>2. ASSUME NEW j \in 1 .. Len(fq') PROVE Fits(j)
    <3>1. j + 1 \in 1 .. Len(fq) /\ fq'[j] = fq[j + 1] /\ j \in Int
      BY <2>1
    <3>2. fq'[j].id <= fn'
      <4>1. fq[j + 1].id \in Nat /\ fq[j + 1].id <= fn
        BY <1>t, <3>1
      <4> QED  BY <1>t, <3>1, <4>1
    <3>3. /\ \A i \in 1 .. Len(fsent) : FInTurn(fsent[i], fq[j + 1])
          /\ FInTurn(fsend, fq[j + 1])
          /\ \A i \in 1 .. Len(fq) : i < j + 1 => FInTurn(fq[i], fq[j + 1])
      BY <3>1 DEF FlvInv, FlvOrder
    <3>4. ASSUME NEW i \in 1 .. Len(fq'), i < j PROVE FInTurn(fq'[i], fq'[j])
      <4>1. i + 1 \in 1 .. Len(fq) /\ fq'[i] = fq[i + 1] /\ i + 1 < j + 1
        BY <2>1, <3>1, <3>4
      <4> QED  BY <3>1, <3>3, <4>1
    <3> QED  BY <3>1, <3>2, <3>3, <3>4
  <2> QED  BY <1>1, <1>2, <2>2 DEF FlvOrder
<1>5. ASSUME NEW x \in Tag, fq' = Append(fq, x), x.id <= fn', x.kind \in Kept \/ x.id = fn + 1
      PROVE  FlvOrder'
  <2>1. /\ Len(fq') = Len(fq) + 1 /\ fq'[Len(fq) + 1] = x
        /\ \A i \in 1 .. Len(fq) : fq'[i] = fq[i]
        /\ \A i \in 1 .. Len(fq') : i \in 1 .. Len(fq) \/ i = Len(fq) + 1
    BY <1>t, <1>5, AppendAt
  <2>2. ASSUME NEW y, y.id \in Nat, y.id <= fn PROVE FInTurn(y, x)
    BY <1>t, <1>5, <2>2 DEF FInTurn
  <2>3. ASSUME NEW j \in 1 .. Len(fq) PROVE Fits(j)
    <3>1. fq'[j].id <= fn'
      BY <1>t, <2>1
    <3>2. \A i \in 1 .. Len(fq') : i < j => i \in 1 .. Len(fq)
      BY <1>t, <2>1
    <3> QED  BY <2>1, <3>1, <3>2 DEF FlvInv, FlvOrder
  <2>4. ASSUME NEW j, j = Len(fq) + 1 PROVE Fits(j)
    <3>1. \A i \in 1 .. Len(fq') : i < j => i \in 1 .. Len(fq)
      BY <1>t, <2>1, <2>4
    <3> QED  BY <1>t, <1>5, <2>1, <2>2, <2>4, <3>1
  <2>5. \A j \in 1 .. Len(fq') : Fits(j)
    BY <2>1, <2>3, <2>4
  <2> QED  BY <1>1, <1>2, <2>5 DEF FlvOrder
<1> QED  BY <1>3, <1>4, <1>5

\* SendPacket keeps the order.
LEMMA FlvSendStep ==
    ASSUME FlvInv, FlvRecv \/ FlvTag
    PROVE  FlvOrder'
<1>t. /\ fq \in Seq(Tag) /\ fsent \in Seq(Tag) /\ Len(fq) \in Nat /\ Len(fsent) \in Nat /\ fn \in Nat
      /\ UNCHANGED <<fn, wpkt>>
  BY FlvAssumption DEF FlvInv, FlvTyped, FlvRecv, FlvTag
<1>b. \A x \in Tag : FInTurn(NoTag, x)
  BY NoTagIs DEF FInTurn
<1>x. \A j \in 1 .. Len(fq) : fq[j] \in Tag
  BY <1>t
<1>1. CASE FlvRecv /\ fq # <<>>
  <2>1. fq' = Tail(fq) /\ fsend' = fq[1] /\ UNCHANGED fsent
    BY <1>1, <1>t, TailAt DEF FlvRecv
  <2>2. /\ 1 \in 1 .. Len(fq) /\ Len(fq') = Len(fq) - 1
        /\ \A i \in 1 .. Len(fq') : i + 1 \in 1 .. Len(fq) /\ fq'[i] = fq[i + 1]
    BY <1>1, <1>t, <2>1, TailAt
  <2>3. /\ \A i \in 1 .. Len(fq') : fq'[i].id <= fn'
        /\ \A i \in 1 .. Len(fsent') : fsent'[i].id <= fn'
        /\ fsend'.id <= fn' /\ wpkt'.id <= fn'
    BY <1>t, <2>1, <2>2 DEF FlvInv, FlvOrder
  <2>4. /\ \A i, j \in 1 .. Len(fsent') : i < j => FInTurn(fsent'[i], fsent'[j])
        /\ \A i \in 1 .. Len(fsent') : FInTurn(fsent'[i], fsend')
    BY <2>1, <2>2 DEF FlvInv, FlvOrder
  <2>5. ASSUME NEW j \in 1 .. Len(fq')
        PROVE  /\ \A i \in 1 .. Len(fsent') : FInTurn(fsent'[i], fq'[j])
               /\ FInTurn(fsend', fq'[j])
               /\ \A i \in 1 .. Len(fq') : i < j => FInTurn(fq'[i], fq'[j])
    <3>1. j + 1 \in 1 .. Len(fq) /\ fq'[j] = fq[j + 1] /\ j \in Int /\ 1 < j + 1
      BY <2>2
    <3>2. /\ \A i \in 1 .. Len(fsent) : FInTurn(fsent[i], fq[j + 1])
          /\ \A i \in 1 .. Len(fq) : i < j + 1 => FInTurn(fq[i], fq[j + 1])
      BY <3>1 DEF FlvInv, FlvOrder
    <3>3. ASSUME NEW i \in 1 .. Len(fq'), i < j PROVE FInTurn(fq'[i], fq'[j])
      <4>1. i + 1 \in 1 .. Len(fq) /\ fq'[i] = fq[i + 1] /\ i + 1 < j + 1
        BY <2>2, <3>1, <3>3
      <4> QED  BY <3>1, <3>2, <4>1
    <3> QED  BY <2>1, <2>2, <3>1, <3>2, <3>3
  <2> QED  BY <2>3, <2>4, <2>5 DEF FlvOrder
<1>2. CASE FlvTag /\ fsent' = fsent
  <2>1. fsend' = NoTag /\ UNCHANGED <<fq, fn, wpkt, fsent>>
    BY <1>2 DEF FlvTag
  <2> QED  BY <1>t, <1>b, <1>x, <2>1, NoTagIs DEF FlvInv, FlvOrder
<1>3. CASE FlvTag /\ fsent' = Append(fsent, fsend)
  <2>1. fsend \in Tag /\ fsend' = NoTag /\ UNCHANGED <<fq, fn, wpkt>>
    BY <1>3 DEF FlvTag, FlvInv, FlvTyped
  <2>2. /\ Len(fsent') = Len(fsent) + 1 /\ fsent'[Len(fsent) + 1] = fsend
        /\ \A i \in 1 .. Len(fsent) : fsent'[i] = fsent[i]
        /\ \A i \in 1 .. Len(fsent') : i \in 1 .. Len(fsent) \/ i = Len(fsent) + 1
    BY <1>3, <1>t, <2>1, AppendAt
  <2>3. /\ \A i \in 1 .. Len(fq') : fq'[i].id <= fn'
        /\ \A i \in 1 .. Len(fsent') : fsent'[i].id <= fn'
        /\ fsend'.id <= fn' /\ wpkt'.id <= fn'
    BY <1>t, <2>1, <2>2, NoTagIs DEF FlvInv, FlvOrder
  <2>4. \A i, j \in 1 .. Len(fsent') : i < j => FInTurn(fsent'[i], fsent'[j])
    BY <1>t, <2>1, <2>2 DEF FlvInv, FlvOrder
  <2>5. fsend' \notin Tag
    BY <2>1, NoTagIs
  <2>6. \A j \in 1 .. Len(fq') :
            /\ \A i \in 1 .. Len(fsent') : FInTurn(fsent'[i], fq'[j])
            /\ FInTurn(fsend', fq'[j])
            /\ \A i \in 1 .. Len(fq') : i < j => FInTurn(fq'[i], fq'[j])
    BY <1>b, <1>x, <2>1, <2>2 DEF FlvInv, FlvOrder
  <2> QED  BY <2>3, <2>4, <2>5, <2>6 DEF FlvOrder
<1>4. CASE FlvRecv /\ fq = <<>>
  <2>1. UNCHANGED <<fq, fn, wpkt, fsent, fsend>>
    BY <1>4 DEF FlvRecv
  <2> QED  BY <2>1 DEF FlvInv, FlvOrder
<1> QED  BY <1>1, <1>2, <1>3, <1>4 DEF FlvTag

\* Every step keeps the types, and no step overfills the queue.
LEMMA FlvTypedKept ==
    ASSUME FlvTyped, [FlvNext]_flvVars
    PROVE  FlvTyped'
<1>t. /\ fq \in Seq(Tag) /\ Len(fq) \in Nat /\ Len(fq) <= FlvHighWater /\ fsent \in Seq(Tag)
      /\ fn \in 0 .. FlvPackets /\ wrounds \in 0 .. FlvRounds
      /\ FlvHighWater \in Nat /\ FlvRounds \in Nat /\ FlvRounds > 0 /\ FlvPackets \in Nat /\ FlvMark \in Nat
  BY FlvAssumption DEF FlvTyped, FlvTypeOK
<1>q. fq # <<>> => Head(fq) \in Tag /\ Tail(fq) \in Seq(Tag) /\ Len(Tail(fq)) = Len(fq) - 1
                   /\ Len(Tail(fq)) < FlvHighWater
  BY <1>t
<1>a. \A x \in Tag : Append(fq, x) \in Seq(Tag) /\ Len(Append(fq, x)) = Len(fq) + 1
  BY <1>t
<1>s. fq' = fq \/ (fq # <<>> /\ fq' = Tail(fq)) =>
        /\ fq' \in Seq(Tag) /\ Len(fq') <= FlvHighWater
        /\ Len(fq) < FlvHighWater => Len(fq') < FlvHighWater
  <2>1. CASE fq' = fq
    BY <1>t, <2>1
  <2>2. CASE fq # <<>> /\ fq' = Tail(fq)
    <3>1. Tail(fq) \in Seq(Tag) /\ Len(Tail(fq)) <= FlvHighWater /\ Len(Tail(fq)) < FlvHighWater
      BY <1>t, <1>q, <2>2
    <3> QED  BY <2>2, <3>1, Zenon
  <2> QED  BY <2>1, <2>2
<1>r. wrounds > 0 /\ RoundEnd => wrounds' \in 0 .. FlvRounds /\ wpc' \in {"pop", "idle"} /\ (wpc' = "pop" => wrounds' > 0)
  BY <1>t DEF RoundEnd
<1>1. CASE FlvWrite
  <2>1. UNCHANGED <<fsent, fsend, fspc, handler, wpkt>> /\ fn' \in 0 .. FlvPackets
    BY <1>1, <1>t DEF FlvWrite
  <2>2. fq' \in Seq(Tag) /\ Len(fq') <= FlvHighWater
    <3>1. \/ fq' = fq
          \/ /\ fn < FlvPackets /\ ~QueueFull
             /\ \E k \in FlvKinds : fq' = Append(fq, [id |-> fn + 1, kind |-> k])
      BY <1>1 DEF FlvWrite
    <3>2. CASE fq' = fq
      BY <1>t, <3>2
    <3>3. ASSUME NEW k \in FlvKinds, fn < FlvPackets, ~QueueFull, fq' = Append(fq, [id |-> fn + 1, kind |-> k])
          PROVE  fq' \in Seq(Tag) /\ Len(fq') <= FlvHighWater
      <4>1. [id |-> fn + 1, kind |-> k] \in Tag
        BY <1>t, <3>3 DEF Tag
      <4> QED  BY <1>t, <1>a, <3>3, <4>1 DEF QueueFull
    <3> QED  BY <3>1, <3>2, <3>3
  <2>3. /\ wrounds' \in 0 .. FlvRounds /\ wpc' \in {"gone", "pop", "idle"}
        /\ wpc' = "pop" => wrounds' > 0
    BY <1>1, <1>t DEF FlvWrite
  <2> QED  BY <2>1, <2>2, <2>3 DEF FlvTyped, FlvTypeOK
<1>2. CASE DropTake
  <2>0. wrounds > 0 /\ UNCHANGED <<fsent, fsend, fspc, handler, fn>>
    BY <1>2 DEF DropTake, FlvTyped, QueueOnly
  <2>1. CASE fq # <<>> /\ fq' = Tail(fq) /\ wrounds' = wrounds
             /\ ((wpc' \in {"requeue", "audio"} /\ wpkt' = Head(fq) /\ Head(fq).kind \in Kept)
                  \/ (wpc' = "mark" /\ wpkt' = NoTag))
    BY <1>t, <1>q, <2>0, <2>1 DEF FlvTyped, FlvTypeOK
  <2>2. CASE ((fq # <<>> /\ fq' = Tail(fq)) \/ fq' = fq) /\ RoundEnd /\ wpkt' = wpkt
    <3>1. fq' \in Seq(Tag) /\ Len(fq') <= FlvHighWater
      BY <1>s, <2>2
    <3>2. wrounds' \in 0 .. FlvRounds /\ wpc' \in {"pop", "idle"} /\ (wpc' = "pop" => wrounds' > 0)
      BY <1>r, <2>0, <2>2
    <3> QED  BY <2>0, <2>2, <3>1, <3>2 DEF FlvTyped, FlvTypeOK
  <2> QED  BY <1>2, <2>1, <2>2 DEF DropTake, IsKept, Kept
<1>3. CASE DropRequeue \/ DropAudioBack
  <2>0. /\ wrounds > 0 /\ UNCHANGED <<fsent, fsend, fspc, handler, fn>> /\ wpkt' = NoTag
        /\ wpkt \in Tag /\ Len(fq) < FlvHighWater
    BY <1>3 DEF DropRequeue, DropAudioBack, PutBack, FlvTyped, QueueOnly
  <2>1. fq' = Append(fq, wpkt) \/ fq' = fq
    BY <1>3 DEF DropRequeue, DropAudioBack, PutBack
  <2>2. fq' \in Seq(Tag) /\ Len(fq') <= FlvHighWater
    BY <1>t, <1>a, <2>0, <2>1
  <2>3. wpc' \in {"mark", "gone", "pop", "idle"} /\ wrounds' \in 0 .. FlvRounds /\ (wpc' \in {"mark", "pop"} => wrounds' > 0)
    BY <1>3, <1>t, <1>r, <2>0 DEF DropRequeue, DropAudioBack, PutBack
  <2> QED  BY <2>0, <2>2, <2>3 DEF FlvTyped, FlvTypeOK
<1>4. CASE DropAtMark \/ DropOther
  <2>0. /\ wrounds > 0 /\ UNCHANGED <<fsent, fsend, fspc, handler, fn, wpkt>>
    BY <1>4 DEF DropAtMark, DropOther, FlvTyped, QueueOnly
  <2>1. fq' = fq \/ (fq # <<>> /\ fq' = Tail(fq))
    BY <1>4, <1>t DEF DropAtMark, DropOther
  <2>2. wpc' \in {"other", "pop", "idle"} /\ wrounds' \in 0 .. FlvRounds /\ (wpc' \in {"other", "pop"} => wrounds' > 0)
    BY <1>4, <1>t, <1>r, <2>0 DEF DropAtMark, DropOther
  <2>3. fq' \in Seq(Tag) /\ Len(fq') <= FlvHighWater
    BY <1>s, <2>1
  <2> QED  BY <2>0, <2>2, <2>3 DEF FlvTyped, FlvTypeOK
<1>5. CASE FlvRecv
  <2>0. UNCHANGED <<fsent, handler, fn, wpkt, wpc, wrounds>> /\ fspc' \in {"tag", "ended"}
    BY <1>5 DEF FlvRecv
  <2>1. \/ fq' = fq /\ fspc' = "ended" /\ fsend' = fsend
        \/ fq # <<>> /\ fq' = Tail(fq) /\ fsend' = Head(fq)
    BY <1>5 DEF FlvRecv
  <2>2. /\ fq' \in Seq(Tag) /\ Len(fq') <= FlvHighWater
        /\ Len(fq) < FlvHighWater => Len(fq') < FlvHighWater
    BY <1>s, <2>1
  <2>3. fsend' \in Tag \cup {NoTag} /\ (fspc' = "tag" => fsend' \in Tag)
    BY <1>q, <2>1 DEF FlvTyped
  <2> QED  BY <2>0, <2>2, <2>3 DEF FlvTyped, FlvTypeOK
<1>6. CASE FlvTag
  <2>0. UNCHANGED <<fq, handler, fn, wpkt, wpc, wrounds>> /\ fspc' \in {"recv", "failed"} /\ fsend' = NoTag /\ fsend \in Tag
    BY <1>6 DEF FlvTag, FlvTyped
  <2>1. fsent' = fsent \/ fsent' = Append(fsent, fsend)
    BY <1>6 DEF FlvTag
  <2>2. fsent' \in Seq(Tag)
    BY <1>t, <2>0, <2>1
  <2> QED  BY <2>0, <2>2 DEF FlvTyped, FlvTypeOK
<1>7. CASE (\E c \in FCallers : FlvClose(c)) \/ Wait \/ UNCHANGED flvVars
  <2>1. UNCHANGED <<fq, fsent, fsend, fspc, fn, wpkt, wpc, wrounds>> /\ handler' \in {handler, "returned"}
    BY <1>7 DEF FlvClose, FlvCloseTest, FlvCloseChans, FlvCloseSet, Wait, flvVars
  <2> QED  BY <2>1 DEF FlvTyped, FlvTypeOK
<1> QED  BY <1>1, <1>2, <1>3, <1>4, <1>5, <1>6, <1>7 DEF FlvNext, DropPacket

LEMMA FlvOrderKept ==
    ASSUME FlvInv, [FlvNext]_flvVars
    PROVE  FlvOrder'
<1>t. /\ fq \in Seq(Tag) /\ Len(fq) \in Nat /\ fn \in 0 .. FlvPackets /\ FlvPackets \in Nat /\ FlvMark \in Nat
      /\ wpkt.id \in Nat /\ wpkt.id <= fn
  BY FlvAssumption, NoTagIs DEF FlvInv, FlvTyped, FlvOrder
<1>h. fq # <<>> => Head(fq) = fq[1] /\ 1 \in 1 .. Len(fq) /\ Head(fq).id <= fn
  BY <1>t DEF FlvInv, FlvOrder
<1>1. CASE FlvWrite
  <2>1. UNCHANGED <<fsend, fsent, wpkt>> /\ fn' \in {fn, fn + 1} /\ wpkt'.id <= fn'
    BY <1>1, <1>t DEF FlvWrite
  <2>2. \/ fq' = fq
        \/ fn < FlvPackets /\ fn' = fn + 1 /\ \E k \in FlvKinds : fq' = Append(fq, [id |-> fn + 1, kind |-> k])
    BY <1>1 DEF FlvWrite
  <2>3. ASSUME NEW k \in FlvKinds, fn < FlvPackets
        PROVE  [id |-> fn + 1, kind |-> k] \in Tag /\ [id |-> fn + 1, kind |-> k].id = fn + 1
    BY <1>t, <2>3 DEF Tag
  <2>4. \/ fq' = fq
        \/ \E x \in Tag : fq' = Append(fq, x) /\ x.id <= fn' /\ (x.kind \in Kept \/ x.id = fn + 1)
    <3>1. CASE fn < FlvPackets /\ fn' = fn + 1 /\ \E k \in FlvKinds : fq' = Append(fq, [id |-> fn + 1, kind |-> k])
      <4>1. PICK k \in FlvKinds : fq' = Append(fq, [id |-> fn + 1, kind |-> k])
        BY <3>1
      <4> DEFINE x == [id |-> fn + 1, kind |-> k]
      <4>2. x \in Tag /\ x.id = fn + 1
        BY <3>1, <2>3
      <4>3. x.id <= fn' /\ fq' = Append(fq, x)
        BY <1>t, <3>1, <4>1, <4>2
      <4> HIDE DEF x
      <4> QED  BY <4>2, <4>3
    <3> QED  BY <2>2, <3>1
  <2> QED  BY <2>1, <2>4, FlvQueueStep
<1>2. CASE DropPacket
  <2>1. UNCHANGED <<fsend, fsent, fn>>
    BY <1>2 DEF DropPacket, DropTake, DropRequeue, DropAudioBack, DropAtMark, DropOther, QueueOnly
  <2>2. wpkt' \in {wpkt, NoTag} \/ (fq # <<>> /\ wpkt' = Head(fq))
    BY <1>2 DEF DropPacket, DropTake, DropRequeue, DropAudioBack, DropAtMark, DropOther, PutBack
  <2>3. wpkt'.id <= fn'
    BY <1>t, <1>h, <2>1, <2>2, NoTagIs
  <2>4. CASE DropTake \/ DropAtMark \/ DropOther
    <3>1. fq' = fq \/ (fq # <<>> /\ fq' = Tail(fq))
      BY <2>4, <1>t DEF DropTake, DropAtMark, DropOther
    <3> QED  BY <2>1, <2>3, <3>1, FlvQueueStep
  <2>5. CASE DropRequeue \/ DropAudioBack
    <3>1. fq' = Append(fq, wpkt) \/ fq' = fq
      BY <2>5 DEF DropRequeue, DropAudioBack, PutBack
    <3>2. wpkt \in Tag /\ wpkt.kind \in Kept
      BY <2>5 DEF DropRequeue, DropAudioBack, FlvInv, FlvTyped
    <3> QED  BY <1>t, <2>1, <2>3, <3>1, <3>2, FlvQueueStep
  <2> QED  BY <1>2, <2>4, <2>5 DEF DropPacket
<1>3. CASE FlvRecv \/ FlvTag
  BY <1>3, FlvSendStep
<1>4. CASE (\E c \in FCallers : FlvClose(c)) \/ Wait \/ UNCHANGED flvVars
  <2>1. UNCHANGED <<fq, fsent, fsend, fn, wpkt>>
    BY <1>4 DEF FlvClose, FlvCloseTest, FlvCloseChans, FlvCloseSet, Wait, flvVars
  <2> QED  BY <1>t, <2>1, FlvQueueStep
<1> QED  BY <1>1, <1>2, <1>3, <1>4 DEF FlvNext

\* For every queue size and every number of rounds of DropPacket: the loop of
\* the stream never fills the queue of an FLV player past its mark, and tags
\* that are not put back are sent in order.
THEOREM FlvPlayerSafe == FlvSpec => []FlvSafe
<1>1. FlvInit => FlvInv
  <2> SUFFICES ASSUME FlvInit PROVE FlvInv
    OBVIOUS
  <2>1. fq \in Seq(Tag) /\ fsent \in Seq(Tag) /\ Len(fq) = 0 /\ Len(fsent) = 0 /\ fn = 0 /\ wpkt = NoTag /\ fsend = NoTag
    BY DEF FlvInit
  <2>2. FlvTyped
    BY <2>1, FlvAssumption DEF FlvInit, FlvTyped, FlvTypeOK
  <2>3. FlvOrder
    BY <2>1, NoTagIs DEF FlvOrder
  <2> QED  BY <2>2, <2>3 DEF FlvInv
<1>2. FlvInv /\ [FlvNext]_flvVars => FlvInv'
  BY FlvTypedKept, FlvOrderKept DEF FlvInv
<1>3. FlvInv => FlvSafe
  <2> SUFFICES ASSUME FlvInv PROVE FlvOnlyKeptOvertaken
    BY DEF FlvSafe, FlvInv, FlvTyped
  <2>1. fsent \in Seq(Tag) /\ DOMAIN fsent = 1 .. Len(fsent)
    BY DEF FlvInv, FlvTyped
  <2>2. \A i \in 1 .. Len(fsent) : fsent[i].id \in Nat
    BY <2>1, NoTagIs
  <2> QED  BY <2>1, <2>2 DEF FlvOnlyKeptOvertaken, FlvInv, FlvOrder, FInTurn, Kept
<1> QED  BY <1>1, <1>2, <1>3, PTL DEF FlvSpec

===========================================================================
