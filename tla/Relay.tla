------------------------------- MODULE Relay -------------------------------
(***************************************************************************)
(* Relays that the control API starts and stops: RtmpRelay of              *)
(* src/protocol/rtmp/rtmprelay/rtmprelay.go and the push and pull requests *)
(* of src/endpoint/api.go, for one session key.  A relay copies a stream   *)
(* from a server it plays from to a server it publishes to with two        *)
(* goroutines.  Requests run concurrently; the session map and startflag   *)
(* are not locked.  Operations on the map are taken as atomic.             *)
(***************************************************************************)
EXTENDS Integers, Sequences, FiniteSets

CONSTANTS
    Requests,   \* HTTP requests, in the order of their numbers: 1 .. n
    Oper,       \* what each of them asks for: "start" or "stop"
    CsCap,      \* capacity of cs_chan
    MaxChunks   \* bound: media messages the played server sends

ASSUME RelayAssumption ==
    /\ Requests \subseteq Nat \ {0} /\ Oper \in [Requests -> {"start", "stop"}]
    /\ CsCap \in Nat /\ MaxChunks \in Nat

NoRelay == 0
\* The relay that a start request makes has its number.
Relays  == {q \in Requests : Oper[q] = "start"}

VARIABLES
    session,  \* s.session[keyString]
    rflag,    \* startflag of each relay
    csChan,   \* cs_chan of each relay
    play, publish,  \* the connections of each relay: "none", "open", "closed"
    qpc, qrelay,    \* per request: its place, the relay it works on
    rcv,      \* per relay: where rcvPlayChunkStream is
    snd,      \* per relay: where sendPublishChunkStream is
    nchunks,  \* per relay: messages read so far
    twice     \* history: a request came while another one was running

reqVars   == <<session, qpc, qrelay, twice>>
relayVars == <<session, rflag, csChan, play, publish, qpc, qrelay, rcv, snd, nchunks, twice>>

RelayInit ==
    /\ session = NoRelay
    /\ rflag = [x \in Relays |-> FALSE] /\ csChan = [x \in Relays |-> <<>>]
    /\ play = [x \in Relays |-> "none"] /\ publish = [x \in Relays |-> "none"]
    /\ qpc = [q \in Requests |-> "idle"] /\ qrelay = [q \in Requests |-> NoRelay]
    /\ rcv = [x \in Relays |-> "none"] /\ snd = [x \in Relays |-> "none"]
    /\ nchunks = [x \in Relays |-> 0]
    /\ twice = FALSE

To(f, x, v) == [f EXCEPT ![x] = v]
Running(q)  == qpc[q] \notin {"idle", "done"}

---------------------------------------------------------------------------
(* A start request: NewRtmpRelay and Start                                 *)

BeginRequest(q) ==
    /\ qpc[q] = "idle"
    /\ \A p \in Requests : p < q => qpc[p] # "idle"
    /\ twice' = (twice \/ \E p \in Requests : Running(p))

StartRequest(q) ==
    /\ Oper[q] = "start" /\ BeginRequest(q)
    /\ qpc' = To(qpc, q, "dialPlay") /\ qrelay' = To(qrelay, q, q)
    /\ UNCHANGED <<session, rflag, csChan, play, publish, rcv, snd, nchunks>>

\* connectPlayClient.Start
DialPlay(q) ==
    /\ qpc[q] = "dialPlay"
    /\ \/ play' = To(play, q, "open") /\ qpc' = To(qpc, q, "dialPublish")
       \/ qpc' = To(qpc, q, "done") /\ UNCHANGED play
    /\ UNCHANGED <<session, qrelay, twice, rflag, csChan, publish, rcv, snd, nchunks>>

\* connectPublishClient.Start.  On an error the other connection is closed,
\* else the flag is set before the goroutines start.
DialPublish(q) ==
    /\ qpc[q] = "dialPublish"
    /\ \/ /\ publish' = To(publish, q, "open")
          /\ qpc' = To(qpc, q, "store")
          /\ rflag' = To(rflag, q, TRUE)
          /\ rcv' = To(rcv, q, "check") /\ snd' = To(snd, q, "select") /\ UNCHANGED play
       \/ /\ play' = To(play, q, "closed")
          /\ qpc' = To(qpc, q, "done") /\ UNCHANGED <<publish, rflag, rcv, snd>>
    /\ UNCHANGED <<session, qrelay, twice, csChan, nchunks>>

\* Mutant: a relay that is in the map stays there.
StoreSessionOnce(q) ==
    /\ qpc[q] = "store"
    /\ session' = IF session = NoRelay THEN q ELSE session
    /\ qpc' = To(qpc, q, "done")
    /\ UNCHANGED <<qrelay, twice, rflag, csChan, play, publish, rcv, snd, nchunks>>

\* s.session[keyString] = relay, whatever was there.
StoreSession(q) ==
    /\ qpc[q] = "store"
    /\ session' = q
    /\ qpc' = To(qpc, q, "done")
    /\ UNCHANGED <<qrelay, twice, rflag, csChan, play, publish, rcv, snd, nchunks>>

---------------------------------------------------------------------------
(* A stop request                                                          *)

StopRequest(q) ==
    /\ Oper[q] = "stop" /\ BeginRequest(q)
    /\ qrelay' = To(qrelay, q, session)
    /\ qpc' = To(qpc, q, IF session = NoRelay THEN "done" ELSE "test")
    /\ UNCHANGED <<session, rflag, csChan, play, publish, rcv, snd, nchunks>>

\* Stop: if !self.startflag
StopTest(q) ==
    /\ qpc[q] = "test"
    /\ qpc' = To(qpc, q, IF rflag[qrelay[q]] THEN "unset" ELSE "delete")
    /\ UNCHANGED <<session, qrelay, twice, rflag, csChan, play, publish, rcv, snd, nchunks>>

\* Mutant: the flag stays set.
StopFlagNot(q) ==
    /\ qpc[q] = "unset"
    /\ qpc' = To(qpc, q, "ctrl")
    /\ UNCHANGED <<session, qrelay, twice, rflag, csChan, play, publish, rcv, snd, nchunks>>

StopFlag(q) ==
    /\ qpc[q] = "unset"
    /\ rflag' = To(rflag, qrelay[q], FALSE)
    /\ qpc' = To(qpc, q, "ctrl")
    /\ UNCHANGED <<session, qrelay, twice, csChan, play, publish, rcv, snd, nchunks>>

\* sndctrl_chan <- STOP_CTRL meets the select of sendPublishChunkStream, which
\* closes its connection and returns.
StopCtrlRelay(q) ==
    /\ qpc[q] = "ctrl" /\ snd[qrelay[q]] = "select"
    /\ publish' = To(publish, qrelay[q], "closed")
    /\ snd' = To(snd, qrelay[q], "done")
    /\ qpc' = To(qpc, q, "delete")
    /\ UNCHANGED <<session, qrelay, twice, rflag, csChan, play, rcv, nchunks>>

\* delete(s.session, keyString), whatever is there by now.
DeleteSession(q) ==
    /\ qpc[q] = "delete"
    /\ session' = NoRelay
    /\ qpc' = To(qpc, q, "done")
    /\ UNCHANGED <<qrelay, twice, rflag, csChan, play, publish, rcv, snd, nchunks>>

---------------------------------------------------------------------------
(* rcvPlayChunkStream                                                      *)

\* if self.startflag == false: the connection is closed.
RcvCheck(x) ==
    /\ rcv[x] = "check"
    /\ \/ rflag[x] /\ rcv' = To(rcv, x, "read") /\ UNCHANGED play
       \/ ~rflag[x] /\ rcv' = To(rcv, x, "done") /\ play' = To(play, x, "closed")
    /\ UNCHANGED <<reqVars, rflag, csChan, publish, snd, nchunks>>

\* A media message; a command, or an error other than EOF, is passed over.
RcvRead(x) ==
    /\ rcv[x] = "read"
    /\ \/ /\ nchunks[x] < MaxChunks
          /\ nchunks' = To(nchunks, x, nchunks[x] + 1) /\ rcv' = To(rcv, x, "put")
       \/ rcv' = To(rcv, x, "check") /\ UNCHANGED nchunks
    /\ UNCHANGED <<reqVars, rflag, csChan, play, publish, snd>>

\* io.EOF: the loop ends and leaves the connection and the flag as they are.
RcvEof(x) ==
    /\ rcv[x] = "read"
    /\ rcv' = To(rcv, x, "eof")
    /\ UNCHANGED <<reqVars, rflag, csChan, play, publish, snd, nchunks>>

\* cs_chan <- rc waits while the channel is full.
RcvPut(x) ==
    /\ rcv[x] = "put" /\ Len(csChan[x]) < CsCap
    /\ csChan' = To(csChan, x, Append(csChan[x], nchunks[x]))
    /\ rcv' = To(rcv, x, "check")
    /\ UNCHANGED <<reqVars, rflag, play, publish, snd, nchunks>>

---------------------------------------------------------------------------
(* sendPublishChunkStream                                                  *)

SndTake(x) ==
    /\ snd[x] = "select" /\ csChan[x] # <<>>
    /\ csChan' = To(csChan, x, Tail(csChan[x]))
    /\ snd' = To(snd, x, "write")
    /\ UNCHANGED <<reqVars, rflag, play, publish, rcv, nchunks>>

\* Mutant: the goroutine ends on an error.
SndWriteReturn(x) ==
    /\ snd[x] = "write"
    /\ snd' \in {To(snd, x, "select"), To(snd, x, "done")}
    /\ UNCHANGED <<reqVars, rflag, csChan, play, publish, rcv, nchunks>>

\* connectPublishClient.Write returns; its error is ignored.
SndWrite(x) ==
    /\ snd[x] = "write"
    /\ snd' = To(snd, x, "select")
    /\ UNCHANGED <<reqVars, rflag, csChan, play, publish, rcv, nchunks>>

Serve(q) ==
    \/ DialPlay(q) \/ DialPublish(q) \/ StoreSession(q)
    \/ StopTest(q) \/ StopFlag(q) \/ StopCtrlRelay(q) \/ DeleteSession(q)
Rcv(x) == RcvCheck(x) \/ RcvRead(x) \/ RcvEof(x) \/ RcvPut(x)
Snd(x) == SndTake(x) \/ SndWrite(x)

RelayNext ==
    \/ \E q \in Requests : StartRequest(q) \/ StopRequest(q) \/ Serve(q)
    \/ \E x \in Relays : Rcv(x) \/ Snd(x)

RelaySpec == RelayInit /\ [][RelayNext]_relayVars

\* Requests are served and goroutines step: connections are made or refused,
\* the published server reads or goes away, and the played one sends something
\* or goes away.
RelayFairness ==
    /\ \A q \in Requests : WF_relayVars(Serve(q))
    /\ \A x \in Relays : WF_relayVars(Rcv(x)) /\ WF_relayVars(Snd(x))

---------------------------------------------------------------------------
(* Properties                                                              *)

\* The type invariant.
RelayTypeOK ==
    /\ session \in Relays \cup {NoRelay} /\ qrelay \in [Requests -> Relays \cup {NoRelay}]
    /\ rflag \in [Relays -> BOOLEAN]
    /\ {play[x] : x \in Relays} \cup {publish[x] : x \in Relays} \subseteq {"none", "open", "closed"}
    /\ \A x \in Relays : Len(csChan[x]) <= CsCap
    /\ qpc \in [Requests -> {"idle", "dialPlay", "dialPublish", "store", "test", "unset",
                             "ctrl", "delete", "done"}]
    /\ rcv \in [Relays -> {"none", "check", "read", "put", "eof", "done"}]
    /\ snd \in [Relays -> {"none", "select", "write", "done"}]

\* As long as requests have come one after the other, and none is running, a
\* relay that is started can be stopped: it is the one in the session map, but
\* for relays that a later start has pushed out of it.
StartedIsInSession ==
    ~twice /\ (\A q \in Requests : ~Running(q)) =>
        \A x \in Relays : rflag[x] =>
            session = x \/ \E y \in Relays : y > x /\ snd[y] # "none"

\* Once a request to stop a relay is answered the relay publishes nothing more:
\* its sender is gone and the connection is closed - or another request that
\* stops it, and was there first, is still at work.
StoppedIsSilent ==
    \A q \in Requests : Oper[q] = "stop" /\ qpc[q] = "done" /\ qrelay[q] # NoRelay =>
        \/ snd[qrelay[q]] = "done" /\ publish[qrelay[q]] = "closed" /\ ~rflag[qrelay[q]]
        \/ \E p \in Requests : Running(p) /\ Oper[p] = "stop" /\ qrelay[p] = qrelay[q]

\* A failed start leaves no connection behind.
FailedStartLeavesNothing ==
    \A q \in Relays : qpc[q] = "done" /\ snd[q] = "none" => play[q] # "open" /\ publish[q] # "open"

\* The request to stop a relay is answered - unless another request came in
\* between: of two Stops that have both seen startflag set, only one finds
\* somebody to receive what it sends on sndctrl_chan (line 125).
StopAnswered ==
    \A q \in Requests : Oper[q] = "stop" /\ Running(q) ~> (~Running(q) \/ twice)

\* A relay that is stopped lets go of the server it plays from, unless its
\* reader has met the end of the stream (line 54) or waits for room in cs_chan,
\* which nobody empties any more (line 67).
PlayEnds ==
    \A x \in Relays : play[x] = "open" /\ snd[x] = "done" ~>
        (play[x] = "closed" \/ rcv[x] = "eof" \/ (rcv[x] = "put" /\ Len(csChan[x]) = CsCap))

\* A relay that is stopped, or whose Start has failed, holds no connection to
\* publish to and sends nothing.
StoppedHoldsNothing == RelayTypeOK /\ StoppedIsSilent /\ FailedStartLeavesNothing

\* Stop is answered, and the relay then lets go of the server it plays from.
StopCompletes == StopAnswered /\ PlayEnds
=============================================================================
