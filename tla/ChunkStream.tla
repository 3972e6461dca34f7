---------------------------- MODULE ChunkStream ----------------------------
(***************************************************************************)
(* The RTMP chunk stream: Conn.Read, Conn.Write and ack of                 *)
(* src/protocol/rtmp/core/conn.go, readChunk and writeChunk of             *)
(* chunk_stream.go.  The receiving connection reads what a peer sends that *)
(* interleaves the chunks of several messages, or what another connection  *)
(* of this program writes, from two goroutines: one that calls Write, and  *)
(* one that reads and acknowledges (ack) without a lock.                   *)
(* The wire carries tokens: chunk headers, extended timestamps and units   *)
(* of payload.                                                             *)
(***************************************************************************)
EXTENDS Integers, Sequences, FiniteSets

CONSTANTS
    PeerCsids,  \* chunk stream ids the peer uses
    OwnSends,   \* messages the goroutine that calls Write sends, a set
    Times,      \* timestamps
    Lengths,    \* lengths of messages, in units
    ChunkSizes, \* chunk sizes, the first one in use being 128 in the code
    Size0,      \* ... and that one
    Max24,      \* 0xffffff
    Wrap,       \* 2^32
    Windows,    \* window sizes for acknowledgements
    Window0,    \* ... and the first one in use, 2500000 in the code
    MaxMsgs     \* bound: messages sent

ASSUME ChunkAssumption ==
    /\ PeerCsids \subseteq Nat /\ IsFiniteSet(PeerCsids) /\ Lengths \subseteq Nat
    /\ ChunkSizes \cup {Size0} \subseteq Nat \ {0} /\ Windows \cup {Window0} \subseteq Nat \ {0}
    /\ Wrap \in Nat \ {0} /\ Times \subseteq 0 .. Wrap - 1 /\ Max24 \in Nat /\ MaxMsgs \in Nat
    /\ OwnSends \subseteq [ts : 0 .. Wrap - 1, len : Nat, type : {"media", "size", "window"}]
    /\ \A m \in OwnSends : m.type # "media" => m.len = 1

VARIABLES
    mode,    \* who sends: "peer" or "own"
    wire,    \* tokens on their way
    msgs,    \* history: the messages sent, in the order of their starts, with
             \* the chunk size from then on (the payload of a "size" message)
    sending, \* peer: per chunk stream, its last message and what is left of it
    outSize, \* the sender's chunk size
    out,     \* own: per goroutine, the tokens it has still to write
    chunks,  \* the receiver's conn.chunks
    inSize,  \* remoteChunkSize
    window,  \* remoteWindowAckSize
    ackReceived, acked,   \* bytes to be acknowledged; history: acknowledged
    read,    \* history: the messages Read has returned
    broken,  \* the receiver has lost its place on the wire or given up
    mixed,   \* history: two chunk streams had the same entry of conn.chunks
    longDelta, \* history: a message in chunks had an extended timestamp delta
    torn       \* history: one goroutine wrote into a chunk of the other

chunkVars == <<mode, wire, msgs, sending, outSize, out, chunks, inSize, window, ackReceived,
               acked, read, broken, mixed, longDelta, torn>>

Min2(a, b) == IF a < b THEN a ELSE b
Types == {"media", "size", "window"}
Goroutines == {"send", "ack"}

\* The index into conn.chunks is the 6 bits of the first byte: 0 and 1 stand
\* for all ids of two and three bytes.
KeyOf(csid) == IF csid < 64 THEN csid ELSE IF csid - 64 < 256 THEN 0 ELSE 1

NoStream == [fmt |-> 0, ts |-> 0, delta |-> 0, ext |-> FALSE, len |-> 0, type |-> "media",
             remain |-> 0, got |-> FALSE, data |-> <<>>]
NoSend   == [ts |-> 0, delta |-> 0, field |-> 0, len |-> 0, type |-> "none", id |-> 0, left |-> 0]

ChunkInit ==
    /\ mode \in {"peer", "own"}
    /\ wire = <<>> /\ msgs = <<>> /\ read = <<>>
    /\ sending = [c \in PeerCsids |-> NoSend] /\ outSize = Size0
    /\ out = [g \in Goroutines |-> <<>>]
    /\ chunks = [k \in {KeyOf(c) : c \in PeerCsids} \cup {2, 6} |-> NoStream] /\ inSize = Size0
    /\ window = Window0 /\ ackReceived = 0 /\ acked = 0
    /\ broken = FALSE /\ mixed = FALSE /\ longDelta = FALSE /\ torn = FALSE

Header(fmt, csid, ts, len, type) == [t |-> "h", fmt |-> fmt, csid |-> csid, ts |-> ts, len |-> len, type |-> type]
Ext(ts)    == [t |-> "x", fmt |-> 0, csid |-> 0, ts |-> ts, len |-> 0, type |-> "none"]
Unit(m, i) == [t |-> "d", fmt |-> 0, csid |-> m, ts |-> i, len |-> 0, type |-> "none"]
Units(m, from, n) == [i \in 1 .. n |-> Unit(m, from + i)]
\* The field of 24 bits, and what follows if it is too small.
Field(t)    == Min2(t, Max24)
ExtField(t) == IF t >= Max24 THEN <<Ext(t)>> ELSE <<>>

readerVars == <<chunks, inSize, window, ackReceived, acked, read, broken>>

---------------------------------------------------------------------------
(* The peer: any sender that follows the protocol.  What Read makes of the *)
(* chunks depends on their order alone, not on when they arrive: the peer  *)
(* sends a chunk when the one before it has been read.                     *)

\* A message starts: in full (0), with a delta (1), with the length and type
\* of the one before (2), or with its delta too (3); after a message in full
\* that is no delta, and an extended timestamp is repeated.
PeerStart(c, fmt, t, n, type) ==
    LET last == sending[c]
        delta == (t - last.ts) % Wrap
        field == IF fmt = 0 THEN t ELSE IF fmt = 3 THEN last.field ELSE delta
        take == Min2(n, outSize)
        id == Len(msgs) + 1
    IN
    /\ mode = "peer" /\ wire = <<>> /\ ~broken /\ last.left = 0 /\ Len(msgs) < MaxMsgs
    /\ type # "media" => n = 1
    /\ fmt > 0 => last.type # "none" /\ t >= last.ts
    /\ fmt > 1 => n = last.len /\ type = last.type
    /\ fmt = 3 => delta = last.delta
    /\ wire' = wire \o <<Header(fmt, c, Field(field), n, type)>> \o ExtField(field) \o Units(id, 0, take)
    /\ outSize' \in IF type = "size" THEN ChunkSizes ELSE {outSize}
    /\ \E val \in IF type = "window" THEN Windows ELSE {outSize'} :
         msgs' = Append(msgs, [by |-> "peer", csid |-> c, ts |-> t, len |-> n, type |-> type, val |-> val])
    /\ sending' = [sending EXCEPT ![c] = [ts |-> t, delta |-> IF fmt = 0 THEN 0 ELSE delta,
                     field |-> field, len |-> n, type |-> type, id |-> id, left |-> n - take]]
    /\ mixed' = (mixed \/ \E d \in PeerCsids : d # c /\ KeyOf(d) = KeyOf(c) /\ sending[d].type # "none")
    /\ longDelta' = (longDelta \/ (fmt # 0 /\ delta >= Max24 /\ take < n))
    /\ UNCHANGED <<mode, out, readerVars, torn>>

\* Its next chunk repeats an extended timestamp as it was.
PeerContinue(c) ==
    LET last == sending[c]
        take == Min2(last.left, outSize)
    IN
    /\ mode = "peer" /\ wire = <<>> /\ ~broken /\ last.left > 0
    /\ wire' = wire \o <<Header(3, c, 0, 0, "none")>> \o ExtField(last.field)
                    \o Units(last.id, last.len - last.left, take)
    /\ sending' = [sending EXCEPT ![c].left = @ - take]
    /\ UNCHANGED <<mode, msgs, outSize, out, readerVars, mixed, longDelta, torn>>

---------------------------------------------------------------------------
(* Conn.Write                                                              *)

\* writeHeader, with the extended timestamp in every chunk.
WriteHeader(fmt, csid, m) ==
    <<Header(fmt, csid, IF fmt = 3 THEN 0 ELSE Field(m.ts), m.len, m.type)>> \o ExtField(m.ts)

\* writeChunk of a message: len / size + 1 rounds, or fewer when all is sent.
\* A message without data has no chunks.
Rounds(csid, m, id, size) ==
    LET round[i \in Nat] ==
          IF i > m.len \div size \/ i * size = m.len THEN <<>>
          ELSE WriteHeader(IF i = 0 THEN 0 ELSE 3, csid, m)
               \o Units(id, i * size, Min2(size, m.len - i * size)) \o round[i + 1]
    IN round
WriteChunk(csid, m, id, size) == Rounds(csid, m, id, size)[0]

\* A message is handed to Write: media on chunk stream 6, a new chunk size on 2
\* (the size is used from then on).  Acknowledgements, of 4 bytes, go to 2.
WriteMsg(g, m) ==
    LET csid == IF m.type = "media" /\ g = "send" THEN 6 ELSE 2 IN
    /\ mode = "own" /\ out[g] = <<>> /\ Len(msgs) < MaxMsgs
    /\ g = "ack" => m.type = "media" /\ m.len = 1
    /\ outSize' \in IF m.type = "size" THEN ChunkSizes ELSE {outSize}
    /\ out' = [out EXCEPT ![g] = WriteChunk(csid, m, Len(msgs) + 1, outSize')]
    /\ \E val \in IF m.type = "window" THEN Windows ELSE {outSize'} :
         msgs' = Append(msgs, [by |-> g, csid |-> csid, ts |-> m.ts, len |-> m.len, type |-> m.type,
                               val |-> val])
    /\ UNCHANGED <<mode, wire, sending, readerVars, mixed, longDelta, torn>>

\* The buffered writer takes one write after the other from both goroutines.
\* Inside a chunk - the next token of the other is not a header - they tear it,
\* and a new chunk size is overtaken by a chunk that is of this size already.
Emit(g) ==
    /\ out[g] # <<>>
    /\ wire' = Append(wire, Head(out[g]))
    /\ out' = [out EXCEPT ![g] = Tail(@)]
    /\ torn' = (torn \/ \E h \in Goroutines \ {g} : out[h] # <<>> /\ (Head(out[h]).t # "h" \/ Head(out[h]).type = "size"))
    /\ UNCHANGED <<mode, msgs, sending, outSize, readerVars, mixed, longDelta>>

---------------------------------------------------------------------------
(* Conn.Read                                                               *)

\* readChunk on a chunk with header h and the tokens after it: the entry with
\* the header applied, and the number of tokens used for a timestamp.
Started(cs) == [cs EXCEPT !.got = FALSE, !.remain = cs.len, !.data = <<>>]

\* Mutant: a delta is taken for a timestamp.
NewTimeAbs(cs, t, fmt) == t

\* Timestamps of format 0 are absolute, the others deltas.
NewTime(cs, t, fmt) == IF fmt = 0 THEN t ELSE (cs.ts + t) % Wrap

ReadHeader(cs, h, rest) ==
    LET ext == IF h.fmt # 3 THEN h.ts = Max24
               ELSE IF cs.remain = 0 THEN cs.ext
               ELSE cs.ext /\ rest # <<>> /\ rest[1].t = "x" /\ rest[1].ts = cs.ts
        t   == IF ext /\ rest # <<>> THEN rest[1].ts ELSE h.ts
        lt  == IF h.fmt < 2 THEN [cs EXCEPT !.len = h.len, !.type = h.type] ELSE cs
    IN [used |-> IF ext THEN 1 ELSE 0,
        cs |-> IF h.fmt # 3
               THEN Started([lt EXCEPT !.fmt = h.fmt, !.ext = ext, !.ts = NewTime(cs, t, h.fmt),
                                       !.delta = IF h.fmt = 0 THEN @ ELSE t])
               ELSE IF cs.remain # 0 THEN cs
               ELSE IF cs.fmt = 0 THEN Started([cs EXCEPT !.ts = IF ext THEN t ELSE @])
               ELSE Started([cs EXCEPT !.ts = NewTime(cs, IF ext THEN t ELSE cs.delta, cs.fmt)])]

\* Mutant: a new chunk size is not taken over.
HandleControlMsgNot(c) == UNCHANGED <<inSize, window>>

\* handleControlMsg: the sizes in force from now on.
HandleControlMsg(c) ==
    /\ inSize' = IF c.type = "size" THEN msgs[c.data[1].csid].val ELSE inSize
    /\ window' = IF c.type = "window" THEN msgs[c.data[1].csid].val ELSE window

Ack(n) ==
    IF ackReceived + n >= window'
    THEN acked' = acked + ackReceived + n /\ ackReceived' = 0
    ELSE ackReceived' = ackReceived + n /\ UNCHANGED acked

\* One chunk, once it is there; a complete message is returned.
ReadChunk ==
    LET h    == Head(wire)
        key  == KeyOf(h.csid)
        r    == ReadHeader(chunks[key], h, Tail(wire))
        size == Min2(r.cs.remain, inSize)
        body == SubSeq(wire, 2 + r.used, Min2(1 + r.used + size, Len(wire)))
        cs   == [r.cs EXCEPT !.remain = @ - size, !.got = (r.cs.remain = size), !.data = @ \o body]
        bad  == \/ h.t # "h" \/ (chunks[key].remain # 0 /\ h.fmt # 3)
                \/ r.used = 1 /\ Len(wire) > 1 /\ wire[2].t # "x"
                \/ \E i \in 1 .. Len(body) : body[i].t # "d"
    IN
    /\ wire # <<>> /\ ~broken
    /\ \/ bad /\ broken' = TRUE /\ wire' = <<>>
          /\ UNCHANGED <<chunks, inSize, window, ackReceived, acked, read>>
       \/ /\ ~bad /\ Len(wire) >= 1 + r.used + size
          /\ wire' = SubSeq(wire, 2 + r.used + size, Len(wire))
          /\ chunks' = [chunks EXCEPT ![key] = cs]
          /\ \/ /\ cs.got /\ HandleControlMsg(cs) /\ Ack(cs.len)
                /\ read' = Append(read, [csid |-> h.csid, ts |-> cs.ts, len |-> cs.len, type |-> cs.type,
                                         data |-> cs.data])
             \/ ~cs.got /\ UNCHANGED <<inSize, window, ackReceived, acked, read>>
          /\ UNCHANGED broken
    /\ UNCHANGED <<mode, msgs, sending, outSize, out, mixed, longDelta, torn>>

ChunkNext ==
    \/ \E c \in PeerCsids, fmt \in 0 .. 3, t \in Times, n \in Lengths, type \in Types :
         PeerStart(c, fmt, t, n, type)
    \/ \E c \in PeerCsids : PeerContinue(c)
    \/ \E g \in Goroutines : Emit(g) \/ \E m \in OwnSends : WriteMsg(g, m)
    \/ ReadChunk

ChunkSpec == ChunkInit /\ [][ChunkNext]_chunkVars

---------------------------------------------------------------------------
(* Properties                                                              *)

\* What Read returns is what was sent: every message once, those of one sender
\* on a chunk stream in order, with its timestamp, type, length and data,
\* however chunks of different messages and changes of the chunk size are
\* interleaved - but for chunk streams with ids above 63, which share an entry
\* of conn.chunks (line 57), deltas that need an extended timestamp, which
\* readChunk compares with the timestamp itself (line 201), and two goroutines
\* writing at once.
ReadAsSent ==
    ~mixed /\ ~longDelta /\ ~torn =>
        /\ ~broken
        /\ \A i \in DOMAIN read :
             \E id \in DOMAIN msgs :
                /\ \A f \in {"csid", "ts", "len", "type"} : read[i][f] = msgs[id][f]
                /\ read[i].data = Units(id, 0, msgs[id].len)
                /\ \A j \in 1 .. i - 1 : \A d \in DOMAIN read[j].data :
                     LET other == read[j].data[d].csid IN
                     read[j].csid = read[i].csid /\ msgs[other].by = msgs[id].by => other < id

\* When the wire is empty and nothing is half sent, everything has been read;
\* a message without data is the exception: writeChunk writes nothing for it.
AllRead ==
    ~mixed /\ ~longDelta /\ ~torn /\ wire = <<>>
      /\ (\A g \in Goroutines : out[g] = <<>>) /\ (\A c \in PeerCsids : sending[c].left = 0) =>
        Len(read) = Cardinality({id \in DOMAIN msgs : mode = "peer" \/ msgs[id].len > 0})

Total(messages) ==
    LET total[i \in 0 .. Len(messages)] == IF i = 0 THEN 0 ELSE total[i - 1] + messages[i].len
    IN total[Len(messages)]

\* Acknowledgements: every byte of the messages read is acknowledged once, and
\* never more than a window is outstanding.
AckedOnce ==
    /\ acked + ackReceived = Total(read)
    /\ ackReceived < window

\* What Write sends Read returns: all of it, unaltered, and acknowledged once.
ChunksArrive == ReadAsSent /\ AllRead /\ AckedOnce
=============================================================================
