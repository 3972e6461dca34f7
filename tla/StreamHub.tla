----------------------------- MODULE StreamHub -----------------------------
(***************************************************************************)
(* The streams of the server (src/protocol/rtmp/stream.go) under one key:  *)
(* RtmpStream.HandleReader and HandleWriter, called by the goroutine of    *)
(* each connection, the TransStart loop of each publisher, and the janitor *)
(* RtmpStream.CheckAlive.  Nothing is locked: streams and ws are sync.Maps *)
(* whose single operations are atomic, r and isStart are plain fields.     *)
(* Each step below contains at most one access that another goroutine can  *)
(* interfere with.  Packets and the cache are in Fanout, the queue of a    *)
(* writer in PacketWriter.                                                 *)
(***************************************************************************)
EXTENDS Integers, FiniteSets

CONSTANTS
    Readers,   \* publishers (VirReader), one per connection
    Writers,   \* players (VirWriter, FLVWriter), HLS sources, FLV archives
    Flv,       \* the writers that are HTTP-FLV players
    Inter,     \* the writers whose Info().Inter is true: all but FLV archives
    None       \* no reader, no writer

ASSUME HubAssumption ==
    /\ IsFiniteSet(Readers) /\ IsFiniteSet(Writers)
    /\ Flv \subseteq Writers /\ Inter \subseteq Writers
    /\ None \notin Readers \cup Writers

NoStream == 0
\* Every call of HandleReader and HandleWriter makes at most one stream.
Streams == 1 .. Cardinality(Readers) + Cardinality(Writers)

VARIABLES
    cur,       \* rs.streams[key]
    nstreams,  \* number of streams made so far
    isStart, r, ws,     \* the fields of each stream
    rclosed,   \* readers whose connection is closed
    wclosed,   \* writers that have been closed
    stale,     \* readers and writers whose timeout has passed (not Alive)
    hpc, hst, hdst, htodo, hheld,   \* HandleReader, per reader
    tpc, tst, ttodo, theld,         \* TransStart, per reader it was started for
    wpc, wst,                       \* HandleWriter, per writer
    jpc, jst, jtodo, jheld, jsome,  \* the janitor; jsome: its count is not 0
    raced,     \* history: two operations on the hub have overlapped
    added      \* history: writers that AddWriter was called for

fieldVars == <<isStart, r, ws>>
mapVars   == <<cur, nstreams>>
connVars  == <<rclosed, wclosed, stale>>
hVars     == <<hpc, hst, hdst, htodo, hheld>>
tVars     == <<tpc, tst, ttodo, theld>>
wVars     == <<wpc, wst>>
jVars     == <<jpc, jst, jtodo, jheld, jsome>>
vars == <<mapVars, fieldVars, connVars, hVars, tVars, wVars, jVars, raced, added>>

Init ==
    /\ cur = NoStream /\ nstreams = 0
    /\ isStart = [s \in Streams |-> FALSE]
    /\ r = [s \in Streams |-> None]
    /\ ws = [s \in Streams |-> {}]
    /\ rclosed = {} /\ wclosed = {} /\ stale = {}
    /\ hpc = [x \in Readers |-> "idle"] /\ hst = [x \in Readers |-> NoStream]
    /\ hdst = [x \in Readers |-> NoStream]
    /\ htodo = [x \in Readers |-> {}] /\ hheld = [x \in Readers |-> None]
    /\ tpc = [x \in Readers |-> "none"] /\ tst = [x \in Readers |-> NoStream]
    /\ ttodo = [x \in Readers |-> {}] /\ theld = [x \in Readers |-> None]
    /\ wpc = [w \in Writers |-> "idle"] /\ wst = [w \in Writers |-> NoStream]
    /\ jpc = "idle" /\ jst = NoStream /\ jtodo = {} /\ jheld = None /\ jsome = FALSE
    /\ raced = FALSE /\ added = {}

---------------------------------------------------------------------------
\* An operation on the hub is in progress, or a loop has not set isStart yet.
Busy ==
    \/ \E x \in Readers : hpc[x] \notin {"idle", "done"} \/ tpc[x] = "start"
    \/ \E w \in Writers : wpc[w] = "add" \/ wpc[w] = "store"
    \/ jpc # "idle"

Begin == raced' = (raced \/ Busy)

HGoto(x, l) == hpc' = [hpc EXCEPT ![x] = l]
NewStream   == nstreams + 1

---------------------------------------------------------------------------
(* HandleReader(x)                                                         *)

\* rs.streams.Load(info.Key)
HLoad(x) ==
    /\ hpc[x] = "idle"
    /\ Begin
    /\ \/ /\ cur # NoStream
          /\ hst' = [hst EXCEPT ![x] = cur] /\ HGoto(x, "stop")
          /\ UNCHANGED nstreams
       \/ /\ cur = NoStream
          /\ nstreams' = NewStream
          /\ hst' = [hst EXCEPT ![x] = NewStream] /\ HGoto(x, "store")
    /\ UNCHANGED <<cur, fieldVars, connVars, hdst, htodo, hheld, tVars, wVars, jVars, added>>

\* Mutant: the old publisher is not closed.
CloseOldNot(s) == UNCHANGED rclosed

\* TransStop closes the reader of a stream that has been started.
CloseOld(s) ==
    rclosed' = IF isStart[s] /\ r[s] # None THEN rclosed \cup {r[s]} ELSE rclosed

HStop(x) ==
    /\ hpc[x] = "stop"
    /\ CloseOld(hst[x])
    /\ HGoto(x, "stopped")
    /\ UNCHANGED <<mapVars, fieldVars, wclosed, stale, hst, hdst, htodo, hheld, tVars, wVars, jVars, raced, added>>

\* ... and clears isStart.
HStopped(x) ==
    /\ hpc[x] = "stopped"
    /\ isStart' = [isStart EXCEPT ![hst[x]] = FALSE]
    /\ HGoto(x, "id")
    /\ UNCHANGED <<mapVars, r, ws, connVars, hst, hdst, htodo, hheld, tVars, wVars, jVars, raced, added>>

\* A stream with a publisher is replaced by a new one, one without is used.
HId(x) ==
    /\ hpc[x] = "id"
    /\ \/ /\ r[hst[x]] # None
          /\ nstreams' = NewStream
          /\ hdst' = [hdst EXCEPT ![x] = NewStream]
          /\ htodo' = [htodo EXCEPT ![x] = ws[hst[x]]]
          /\ HGoto(x, "copy")
       \/ r[hst[x]] = None /\ HGoto(x, "reader") /\ UNCHANGED <<nstreams, hdst, htodo>>
    /\ UNCHANGED <<cur, fieldVars, connVars, hst, hheld, tVars, wVars, jVars, raced, added>>

\* Copy: Range takes a writer that is still there ...
HCopy(x) ==
    /\ hpc[x] = "copy"
    /\ \/ \E w \in htodo[x] \cap ws[hst[x]] :
             /\ hheld' = [hheld EXCEPT ![x] = w]
             /\ htodo' = [htodo EXCEPT ![x] = @ \ {w}]
             /\ HGoto(x, "delete") /\ UNCHANGED hst
       \/ /\ htodo[x] \cap ws[hst[x]] = {}
          /\ hst' = [hst EXCEPT ![x] = hdst[x]]
          /\ htodo' = [htodo EXCEPT ![x] = {}]
          /\ HGoto(x, "store") /\ UNCHANGED hheld
    /\ UNCHANGED <<mapVars, fieldVars, connVars, hdst, tVars, wVars, jVars, raced, added>>

\* ... s.ws.Delete(key) ...
HCopyDelete(x) ==
    /\ hpc[x] = "delete"
    /\ ws' = [ws EXCEPT ![hst[x]] = @ \ {hheld[x]}]
    /\ HGoto(x, "addw")
    /\ UNCHANGED <<mapVars, isStart, r, connVars, hst, hdst, htodo, hheld, tVars, wVars, jVars, raced, added>>

\* Mutant: the writer is put back into the stream it came from.
CopyTargetOld(x) == hst[x]

CopyTarget(x) == hdst[x]

\* ... dst.AddWriter(v.w).
HCopyAdd(x) ==
    /\ hpc[x] = "addw"
    /\ ws' = [ws EXCEPT ![CopyTarget(x)] = @ \cup {hheld[x]}]
    /\ hheld' = [hheld EXCEPT ![x] = None]
    /\ HGoto(x, "copy")
    /\ UNCHANGED <<mapVars, isStart, r, connVars, hst, hdst, htodo, tVars, wVars, jVars, raced, added>>

\* rs.streams.Store(info.Key, stream)
HStore(x) ==
    /\ hpc[x] = "store"
    /\ cur' = hst[x]
    /\ HGoto(x, "reader")
    /\ UNCHANGED <<nstreams, fieldVars, connVars, hst, hdst, htodo, hheld, tVars, wVars, jVars, raced, added>>

\* AddReader: s.r = r and a goroutine runs TransStart.
HAddReader(x) ==
    /\ hpc[x] = "reader"
    /\ r' = [r EXCEPT ![hst[x]] = x]
    /\ tpc' = [tpc EXCEPT ![x] = "start"]
    /\ tst' = [tst EXCEPT ![x] = hst[x]]
    /\ hst' = [hst EXCEPT ![x] = NoStream] /\ hdst' = [hdst EXCEPT ![x] = NoStream]
    /\ HGoto(x, "done")
    /\ UNCHANGED <<mapVars, isStart, ws, connVars, htodo, hheld, ttodo, theld, wVars, jVars, raced, added>>

HandleReader(x) ==
    \/ HLoad(x) \/ HStop(x) \/ HStopped(x) \/ HId(x) \/ HCopy(x)
    \/ HCopyDelete(x) \/ HCopyAdd(x) \/ HStore(x) \/ HAddReader(x)

---------------------------------------------------------------------------
(* HandleWriter(w)                                                         *)

\* httpflv handleConn answers 404 unless the stream has a reader.
FlvPublished == cur # NoStream /\ r[cur] # None

FlvRefuse(w) ==
    /\ w \in Flv /\ wpc[w] = "idle" /\ ~FlvPublished
    /\ wpc' = [wpc EXCEPT ![w] = "done"]
    /\ wclosed' = wclosed \cup {w}
    /\ UNCHANGED <<mapVars, fieldVars, rclosed, stale, hVars, tVars, wst, jVars, raced, added>>

FlvAdmit(w) ==
    /\ w \in Flv /\ wpc[w] = "idle" /\ FlvPublished
    /\ wpc' = [wpc EXCEPT ![w] = "load"]
    /\ UNCHANGED <<mapVars, fieldVars, connVars, hVars, tVars, wst, jVars, raced, added>>

\* Load; without a stream one is made, but the writer is not added to it.
WLoad(w) ==
    /\ wpc[w] = (IF w \in Flv THEN "load" ELSE "idle")
    /\ Begin
    /\ \/ /\ cur # NoStream
          /\ wst' = [wst EXCEPT ![w] = cur] /\ wpc' = [wpc EXCEPT ![w] = "add"]
          /\ UNCHANGED nstreams
       \/ /\ cur = NoStream
          /\ nstreams' = NewStream
          /\ wst' = [wst EXCEPT ![w] = NewStream] /\ wpc' = [wpc EXCEPT ![w] = "store"]
    /\ UNCHANGED <<cur, fieldVars, connVars, hVars, tVars, jVars, added>>

WAdd(w) ==
    /\ wpc[w] = "add"
    /\ ws' = [ws EXCEPT ![wst[w]] = @ \cup {w}]
    /\ added' = added \cup {w}
    /\ wpc' = [wpc EXCEPT ![w] = "done"] /\ wst' = [wst EXCEPT ![w] = NoStream]
    /\ UNCHANGED <<mapVars, isStart, r, connVars, hVars, tVars, jVars, raced>>

WStore(w) ==
    /\ wpc[w] = "store"
    /\ cur' = wst[w]
    /\ wpc' = [wpc EXCEPT ![w] = "done"] /\ wst' = [wst EXCEPT ![w] = NoStream]
    /\ UNCHANGED <<nstreams, fieldVars, connVars, hVars, tVars, jVars, raced, added>>

HandleWriter(w) == FlvRefuse(w) \/ FlvAdmit(w) \/ WLoad(w) \/ WAdd(w) \/ WStore(w)

---------------------------------------------------------------------------
(* TransStart, run for the stream that AddReader(x) was called on          *)

TGoto(x, l) == tpc' = [tpc EXCEPT ![x] = l]
Looping(x)  == tpc[x] \in {"check", "read"}

TransStart(x) ==
    /\ tpc[x] = "start"
    /\ isStart' = [isStart EXCEPT ![tst[x]] = TRUE]
    /\ TGoto(x, "check")
    /\ UNCHANGED <<mapVars, r, ws, connVars, hVars, tst, ttodo, theld, wVars, jVars, raced, added>>

\* if !s.isStart { closeInter(); return }; s.r.Read starts with SetPreTime.
TransCheck(x) ==
    LET s == tst[x] IN
    /\ tpc[x] = "check"
    /\ \/ /\ ~isStart[s]
          /\ ttodo' = [ttodo EXCEPT ![x] = ws[s]]
          /\ TGoto(x, "stopClose") /\ UNCHANGED stale
       \/ /\ isStart[s]
          /\ stale' = stale \ {r[s]}
          /\ TGoto(x, "read") /\ UNCHANGED ttodo
    /\ UNCHANGED <<mapVars, fieldVars, rclosed, wclosed, hVars, tst, theld, wVars, jVars, raced, added>>

\* Mutant: a read error is swallowed and the loop goes on.
ReadErrorIgnored(x) ==
    /\ tpc[x] = "read" /\ r[tst[x]] \in rclosed
    /\ TGoto(x, "check")
    /\ UNCHANGED <<mapVars, fieldVars, connVars, hVars, tst, ttodo, theld, wVars, jVars, raced, added>>

\* s.r.Read fails: closeInter.
ReadError(x) ==
    /\ tpc[x] = "read" /\ r[tst[x]] \in rclosed
    /\ ttodo' = [ttodo EXCEPT ![x] = ws[tst[x]]]
    /\ TGoto(x, "errClose")
    /\ UNCHANGED <<mapVars, fieldVars, connVars, hVars, tst, theld, wVars, jVars, raced, added>>

\* A packet: it is written to every writer, and the ones that fail are removed.
ReadPacket(x) ==
    LET s == tst[x] IN
    /\ tpc[x] = "read" /\ r[s] \notin rclosed
    /\ ws' = [ws EXCEPT ![s] = @ \ wclosed]
    /\ stale' = stale \ ws'[s]
    /\ TGoto(x, "check")
    /\ UNCHANGED <<mapVars, isStart, r, rclosed, wclosed, hVars, tst, ttodo, theld, wVars, jVars, raced, added>>

Closing(x) == tpc[x] \in {"stopClose", "errClose"}

\* closeInter: Range takes a writer that is still there and closes it ...
CloseWriter(x) ==
    /\ Closing(x) /\ theld[x] = None
    /\ \E w \in ttodo[x] \cap ws[tst[x]] :
          /\ wclosed' = wclosed \cup {w}
          /\ theld' = [theld EXCEPT ![x] = IF w \in Inter THEN w ELSE None]
          /\ ttodo' = [ttodo EXCEPT ![x] = @ \ {w}]
    /\ UNCHANGED <<mapVars, fieldVars, rclosed, stale, hVars, tpc, tst, wVars, jVars, raced, added>>

\* ... and removes it when it is Inter.
CloseRemove(x) ==
    /\ Closing(x) /\ theld[x] # None
    /\ ws' = [ws EXCEPT ![tst[x]] = @ \ {theld[x]}]
    /\ theld' = [theld EXCEPT ![x] = None]
    /\ UNCHANGED <<mapVars, isStart, r, connVars, hVars, tpc, tst, ttodo, wVars, jVars, raced, added>>

\* The loop returns; after a read error it clears isStart first.
TransEnd(x) ==
    /\ Closing(x) /\ theld[x] = None /\ ttodo[x] \cap ws[tst[x]] = {}
    /\ isStart' = [isStart EXCEPT ![tst[x]] = @ /\ tpc[x] = "stopClose"]
    /\ ttodo' = [ttodo EXCEPT ![x] = {}] /\ tst' = [tst EXCEPT ![x] = NoStream]
    /\ TGoto(x, "ended")
    /\ UNCHANGED <<mapVars, r, ws, connVars, hVars, theld, wVars, jVars, raced, added>>

\* The steps that wait for nothing; ReadPacket waits for the peer.
TransMove(x) ==
    \/ TransStart(x) \/ TransCheck(x) \/ ReadError(x)
    \/ CloseWriter(x) \/ CloseRemove(x) \/ TransEnd(x)

Trans(x) == TransMove(x) \/ ReadPacket(x)

---------------------------------------------------------------------------
(* The janitor, every 5 seconds                                            *)

JanitorLoad ==
    /\ jpc = "idle" /\ cur # NoStream
    /\ Begin
    /\ jst' = cur /\ jpc' = "reader"
    /\ UNCHANGED <<mapVars, fieldVars, connVars, hVars, tVars, wVars, jtodo, jheld, jsome, added>>

\* The reader of a started stream counts when it is alive and is closed when not.
JanitorReader ==
    LET started == r[jst] # None /\ isStart[jst]
    IN  /\ jpc = "reader"
        /\ jsome' = (started /\ r[jst] \notin stale)
        /\ rclosed' = IF started /\ r[jst] \in stale THEN rclosed \cup {r[jst]} ELSE rclosed
        /\ jtodo' = ws[jst]
        /\ jpc' = "writers"
        /\ UNCHANGED <<mapVars, fieldVars, wclosed, stale, hVars, tVars, wVars, jst, jheld, raced, added>>

JanitorAlive(w) ==
    /\ jpc = "writers" /\ w \in jtodo \cap ws[jst] /\ w \notin stale
    /\ jsome' = TRUE
    /\ jtodo' = jtodo \ {w}
    /\ UNCHANGED <<mapVars, fieldVars, connVars, hVars, tVars, wVars, jpc, jst, jheld, raced, added>>

\* Mutant: a writer that timed out is kept.
JanitorRemoveNot(w) ==
    /\ jpc = "writers" /\ w \in jtodo \cap ws[jst] /\ w \in stale
    /\ jsome' = TRUE
    /\ jtodo' = jtodo \ {w}
    /\ UNCHANGED <<mapVars, fieldVars, connVars, hVars, tVars, wVars, jpc, jst, jheld, raced, added>>

\* Write timeout: s.ws.Delete(key) ...
JanitorRemove(w) ==
    /\ jpc = "writers" /\ w \in jtodo \cap ws[jst] /\ w \in stale
    /\ ws' = [ws EXCEPT ![jst] = @ \ {w}]
    /\ jheld' = w
    /\ jtodo' = jtodo \ {w}
    /\ jpc' = "close"
    /\ UNCHANGED <<mapVars, isStart, r, connVars, hVars, tVars, wVars, jst, jsome, raced, added>>

\* Mutant: the writer that was removed is not closed.
JanitorCloseNot ==
    /\ jpc = "close"
    /\ jheld' = None /\ jpc' = "writers"
    /\ UNCHANGED <<mapVars, fieldVars, connVars, hVars, tVars, wVars, jst, jtodo, jsome, raced, added>>

\* ... then v.w.Close.
JanitorClose ==
    /\ jpc = "close"
    /\ wclosed' = wclosed \cup {jheld}
    /\ jheld' = None /\ jpc' = "writers"
    /\ UNCHANGED <<mapVars, fieldVars, rclosed, stale, hVars, tVars, wVars, jst, jtodo, jsome, raced, added>>

\* Mutant: the key is deleted although something of the stream is alive.
JanitorEndAlways ==
    /\ jpc = "writers" /\ jtodo \cap ws[jst] = {}
    /\ cur' = NoStream
    /\ jpc' = "idle" /\ jst' = NoStream /\ jtodo' = {} /\ jsome' = FALSE
    /\ UNCHANGED <<nstreams, fieldVars, connVars, hVars, tVars, wVars, jheld, raced, added>>

\* rs.streams.Delete(key) when the count is 0, whatever is stored there by now.
JanitorEnd ==
    /\ jpc = "writers" /\ jtodo \cap ws[jst] = {}
    /\ cur' = IF jsome THEN cur ELSE NoStream
    /\ jpc' = "idle" /\ jst' = NoStream /\ jtodo' = {} /\ jsome' = FALSE
    /\ UNCHANGED <<nstreams, fieldVars, connVars, hVars, tVars, wVars, jheld, raced, added>>

Janitor ==
    \/ JanitorLoad \/ JanitorReader
    \/ \E w \in Writers : JanitorAlive(w) \/ JanitorRemove(w)
    \/ JanitorClose \/ JanitorEnd

---------------------------------------------------------------------------
(* Connections                                                             *)

\* A peer goes away, which closes its connection.
ReaderGone(x) ==
    /\ hpc[x] # "idle" /\ x \notin rclosed
    /\ rclosed' = rclosed \cup {x}
    /\ UNCHANGED <<mapVars, fieldVars, wclosed, stale, hVars, tVars, wVars, jVars, raced, added>>

WriterGone(w) ==
    /\ wpc[w] # "idle" /\ w \notin wclosed
    /\ wclosed' = wclosed \cup {w}
    /\ UNCHANGED <<mapVars, fieldVars, rclosed, stale, hVars, tVars, wVars, jVars, raced, added>>

\* No packet was read from c, or written to it, for its timeout.  (Nobody asks
\* this of a writer that is not in a stream or about to be.)
Timeout(c) ==
    /\ c \notin stale
    /\ c \in Readers => hpc[c] # "idle"
    /\ c \in Writers => c \in added \/ wpc[c] = "add"
    /\ stale' = stale \cup {c}
    /\ UNCHANGED <<mapVars, fieldVars, rclosed, wclosed, hVars, tVars, wVars, jVars, raced, added>>

Next ==
    \/ \E x \in Readers : HandleReader(x) \/ Trans(x) \/ ReaderGone(x)
    \/ \E w \in Writers : HandleWriter(w) \/ WriterGone(w)
    \/ \E c \in Readers \cup Writers : Timeout(c)
    \/ Janitor

Spec == Init /\ [][Next]_vars

\* Goroutines that can step do, the janitor comes round, and a writer that is
\* not served times out.  Nobody has to connect, to publish or to go away.
Fairness ==
    /\ \A x \in Readers :
          /\ WF_vars(HandleReader(x) /\ hpc[x] # "idle")
          /\ WF_vars(TransMove(x))
    /\ \A w \in Writers :
          /\ WF_vars(HandleWriter(w) /\ wpc[w] # "idle")
          /\ WF_vars(Timeout(w))
    /\ WF_vars(Janitor)

LiveSpec == Spec /\ Fairness

---------------------------------------------------------------------------
(* Properties                                                              *)

HPc == {"idle", "stop", "stopped", "id", "copy", "delete", "addw", "store", "reader", "done"}
TPc == {"none", "start", "check", "read", "stopClose", "errClose", "ended"}
WPc == {"idle", "load", "add", "store", "done"}
JPc == {"idle", "reader", "writers", "close"}

\* The type invariant.
TypeOK ==
    /\ cur \in Streams \cup {NoStream} /\ nstreams \in Nat
    /\ isStart \in [Streams -> BOOLEAN]
    /\ r \in [Streams -> Readers \cup {None}]
    /\ ws \in [Streams -> SUBSET Writers]
    /\ rclosed \subseteq Readers /\ wclosed \subseteq Writers
    /\ stale \subseteq Readers \cup Writers
    /\ hpc \in [Readers -> HPc]
    /\ hst \in [Readers -> Streams \cup {NoStream}] /\ hdst \in [Readers -> Streams \cup {NoStream}]
    /\ htodo \in [Readers -> SUBSET Writers] /\ hheld \in [Readers -> Writers \cup {None}]
    /\ tpc \in [Readers -> TPc] /\ tst \in [Readers -> Streams \cup {NoStream}]
    /\ ttodo \in [Readers -> SUBSET Writers] /\ theld \in [Readers -> Writers \cup {None}]
    /\ wpc \in [Writers -> WPc] /\ wst \in [Writers -> Streams \cup {NoStream}]
    /\ jpc \in JPc /\ jst \in Streams \cup {NoStream} /\ jtodo \subseteq Writers
    /\ jheld \in Writers \cup {None} /\ jsome \in BOOLEAN
    /\ raced \in BOOLEAN /\ added \subseteq Writers

\* Whatever the operations on the hub interleave like, an open writer that was
\* added to a stream is never dropped: it is in the ws of some stream, or the
\* Copy that took it out is about to add it again, or the janitor that took it
\* out is about to close it.
NoWriterLost ==
    \A w \in added \ wclosed :
        \/ \E s \in Streams : w \in ws[s]
        \/ \E x \in Readers : hpc[x] = "addw" /\ hheld[x] = w
        \/ jpc = "close" /\ jheld = w

\* As long as operations on the hub have not overlapped, and none is under
\* way, every open writer that was added is in the stream of the key, where the
\* next publisher or the janitor finds it, and the key is there.
NoWriterStranded ==
    ~raced /\ ~Busy => \A w \in added \ wclosed : cur # NoStream /\ w \in ws[cur]

\* As long as operations on the hub have not overlapped, and none is under
\* way, at most one publisher of the key has an open connection in a loop.
OnePublisher ==
    ~raced /\ ~Busy =>
        \A x, y \in Readers : Looping(x) /\ Looping(y) /\ {x, y} \cap rclosed = {} => x = y

\* Taking over a key ends the old loop, even if its peer sends nothing more:
\* TransStop closes the connection that Read is blocked on.
TakeoverCompletes ==
    []<>(raced \/ \A x, y \in Readers : Looping(x) /\ Looping(y) => x = y)

\* A loop whose reader's connection is closed ends, unless another publisher
\* has become the reader of its stream.
LoopEnds ==
    \A x \in Readers :
        (Looping(x) /\ r[tst[x]] \in rclosed)
            ~> (tpc[x] = "ended" \/ (Looping(x) /\ r[tst[x]] \notin rclosed))

\* A stream that no loop feeds is not kept for ever: again and again, the key
\* has no stream or the stream has a loop.
DeadStreamForgotten ==
    []<>(cur = NoStream \/ \E x \in Readers : tst[x] = cur /\ tpc[x] # "ended")

\* The loops of publishers that have gone or were taken over end (TransStart,
\* TransStop).
LoopsEnd == LoopEnds /\ TakeoverCompletes
=============================================================================
