------------------------------ MODULE Session ------------------------------
(***************************************************************************)
(* How an RTMP connection comes up: the handshake (core/handshake.go), the *)
(* commands of the client (ConnClient.Start, core/conn_client.go), those   *)
(* of the server (ConnServer.ReadMsg, core/conn_server.go), and the        *)
(* admission in Server.handleConn (src/protocol/rtmp/rtmp.go).             *)
(* Both ends are this program ("pair"), or one of them is any peer.        *)
(***************************************************************************)
EXTENDS Integers, Sequences

CONSTANTS
    Apps,           \* application names in connect
    ConfiguredApps, \* those of the configuration file
    PeerCommands,   \* commands a foreign client may send
    PeerAnswers,    \* answers a foreign server may send
    MaxPeer         \* bound: messages from a foreign peer

VARIABLES
    smode,    \* "pair", "server" (a foreign client) or "client" (a foreign server)
    noauth,   \* rtmp_noauth
    c2s, s2c, \* what is on its way
    cbuf,     \* what the client has written and not flushed
    cl,       \* ConnClient: place in Start, transID, streamid, result
    sv,       \* ConnServer: place in handleConn, App, Name, transactionID
    open,     \* the sockets that their end has not closed
    seen,     \* history: commands handled by the server
    told,     \* history: answers sent by a foreign server
    sent,     \* messages sent by a foreign peer
    timedOut  \* history: a deadline of the handshake has passed

sessionVars == <<smode, noauth, c2s, s2c, cbuf, cl, sv, open, seen, told, sent, timedOut>>

NoSid == -1
Answer(name, id, code, sid) == [k |-> "cmd", name |-> name, id |-> id, code |-> code, sid |-> sid]
Control  == [k |-> "control", name |-> "none", id |-> 0, code |-> "none", sid |-> NoSid]
S0S1S2   == [k |-> "S0S1S2", name |-> "none", id |-> 0, code |-> "none", sid |-> NoSid]
Cmd(name, id, app, arg) == [k |-> "cmd", name |-> name, id |-> id, app |-> app, arg |-> arg]
C0C1(ver, digest) == [k |-> "C0C1", name |-> digest, id |-> ver, app |-> "none", arg |-> "none"]
C2       == [k |-> "C2", name |-> "none", id |-> 0, app |-> "none", arg |-> "none"]

\* The one room of the instance: its name, and its key.
Room == "room"
RoomKey == "key"

\* The words of the protocol, of the configuration and of foreign peers; what
\* a client sends and what a server sends are records of them.
Words ==
    {"none", "cmd", "control", "S0S1S2", "C0C1", "C2", "plain", "connect", "createStream", "publish",
     "play", "_result", "onStatus", "connectSuccess", "publishStart", "playStart", Room, RoomKey}
    \cup Apps \cup UNION {{m.k, m.name, m.app, m.arg} : m \in PeerCommands}
    \cup UNION {{m.k, m.name, m.code} : m \in PeerAnswers}
Commands == [k : Words, name : Words, id : Int, app : Words, arg : Words]
Answers  == [k : Words, name : Words, id : Int, code : Words, sid : Int]

\* "none" stands for a name that is not given: no application is called so.
ASSUME SessionAssumption ==
    /\ PeerCommands \subseteq Commands /\ PeerAnswers \subseteq Answers
    /\ "none" \notin ConfiguredApps /\ MaxPeer \in Nat

SessionInit ==
    /\ smode \in {"pair", "server", "client"} /\ noauth \in BOOLEAN
    /\ c2s = <<>> /\ s2c = <<>> /\ cbuf = <<>>
    /\ \E method \in {"publish", "play"} :
         cl = [pc |-> IF smode = "server" THEN "foreign" ELSE "dial", method |-> method, transID |-> 1,
               streamid |-> 0, ret |-> "none"]
    /\ sv = [pc |-> [pair |-> "none", server |-> "accept", client |-> "foreign"][smode], app |-> "none", name |-> "none",
             arg |-> "none", id |-> 0]
    /\ open = [c |-> TRUE, s |-> TRUE]
    /\ seen = <<>> /\ told = <<>> /\ sent = 0 /\ timedOut = FALSE

---------------------------------------------------------------------------
(* ConnClient.Start                                                        *)

\* Start returns.  No error closes the connection.
Returned(c, r) == [c EXCEPT !.pc = "returned", !.ret = r]

\* A flush succeeds while the other end is there, and may succeed after.
Flushes(other) == IF open[other] THEN {TRUE} ELSE BOOLEAN

\* Parsing the url, the lookup and the dial may fail; then HandshakeClient
\* sends C0 and C1, of version 3 and without a digest.
StartDial ==
    /\ cl.pc = "dial"
    /\ \/ cl' = Returned(cl, "err") /\ UNCHANGED <<c2s, sv>>
       \/ /\ cl' = [cl EXCEPT !.pc = "hsRead"] /\ c2s' = Append(c2s, C0C1(3, "plain"))
          /\ sv' = [sv EXCEPT !.pc = IF smode = "pair" THEN "accept" ELSE @]
    /\ UNCHANGED <<smode, noauth, s2c, cbuf, open, seen, told, sent, timedOut>>

\* S0, S1 and S2 arrive; C2 is written, and stays in the buffer until the next
\* message is flushed.
HandshakeRead ==
    /\ cl.pc = "hsRead" /\ s2c # <<>>
    /\ s2c' = Tail(s2c) /\ cbuf' = <<C2>>
    /\ cl' = [cl EXCEPT !.pc = "connect"]
    /\ UNCHANGED <<smode, noauth, c2s, sv, open, seen, told, sent, timedOut>>

\* The connection has ended, or the deadline passes with nothing to read.
HandshakeReadFails ==
    /\ cl.pc = "hsRead" /\ s2c = <<>>
    /\ cl' = Returned(cl, "err")
    /\ timedOut' = (timedOut \/ open.s)
    /\ UNCHANGED <<smode, noauth, c2s, s2c, cbuf, sv, open, seen, told, sent>>

\* writeMsg: what is buffered goes out with the command.
ClientWriteMsg(m, next) ==
    /\ cbuf' = <<>>
    /\ \E ok \in Flushes("s") :
        IF ok THEN c2s' = c2s \o Append(cbuf, m) /\ cl' = [next EXCEPT !.pc = "resp"]
        ELSE cl' = Returned(cl, "err") /\ UNCHANGED c2s

\* writeConnectMsg, writeCreateStreamMsg, then writePublishMsg or writePlayMsg:
\* transID 1, 2 and 3 (play says 0).
WriteCommand ==
    /\ cl.pc \in {"connect", "createStream", "publish", "play"}
    /\ LET id == IF cl.pc = "connect" THEN cl.transID ELSE cl.transID + 1
       IN \E app \in IF cl.pc = "connect" THEN Apps ELSE {"none"},
             arg \in IF cl.pc \in {"publish", "play"} THEN {Room, RoomKey} ELSE {"none"} :
            ClientWriteMsg(Cmd(cl.pc, IF cl.pc = "play" THEN 0 ELSE id, app, arg),
                           [cl EXCEPT !.transID = id])
    /\ UNCHANGED <<smode, noauth, s2c, sv, open, seen, told, sent, timedOut>>

\* The command that waits for its answer (curcmdName).
CurCmd == IF cl.transID = 1 THEN "connect" ELSE IF cl.transID = 2 THEN "createStream" ELSE cl.method

\* readRespMsg on a command: an error named by the answer ("other"), ErrFail
\* ("fail"), or the answer that was awaited.  Nothing is asked of one to play.
Verdict(m) ==
    CASE CurCmd \in {"connect", "createStream"} ->
           IF m.name # "_result" THEN "other"
           ELSE IF m.id # cl.transID \/ (CurCmd = "connect" /\ m.code \notin {"none", "connectSuccess"})
           THEN "fail" ELSE "ok"
      [] CurCmd = "publish" ->
           IF m.name # "onStatus" \/ m.id # 0 \/ m.sid \notin {NoSid, 0}
              \/ m.code \notin {"none", "publishStart"}
           THEN "fail" ELSE "ok"
      [] CurCmd = "play" -> "ok"

\* The error decides: createStream tries again, whatever it is, but for ErrFail.
AfterVerdict(v, c) ==
    IF v = "ok"
    THEN IF CurCmd = "connect" THEN [c EXCEPT !.pc = "createStream"]
         ELSE IF CurCmd = "createStream" THEN [c EXCEPT !.pc = cl.method]
         ELSE Returned(c, "ok")
    ELSE IF v = "other" /\ CurCmd = "createStream" THEN c ELSE Returned(c, "err")

\* readRespMsg passes over everything that is no command.
ReadRespMsg ==
    LET m == Head(s2c)
        v == Verdict(m)
        sid == IF v = "ok" /\ CurCmd \in {"connect", "createStream"} /\ m.sid # NoSid THEN m.sid ELSE cl.streamid
    IN
    /\ cl.pc = "resp" /\ s2c # <<>>
    /\ s2c' = Tail(s2c)
    /\ cl' = IF m.k # "cmd" THEN cl ELSE AfterVerdict(v, [cl EXCEPT !.streamid = sid])
    /\ UNCHANGED <<smode, noauth, c2s, cbuf, sv, open, seen, told, sent, timedOut>>

\* The error of a connection that has ended.
RespError == cl' = AfterVerdict("other", cl)

ReadRespEnds ==
    /\ cl.pc = "resp" /\ s2c = <<>> /\ ~open.s
    /\ RespError
    /\ UNCHANGED <<smode, noauth, c2s, s2c, cbuf, sv, open, seen, told, sent, timedOut>>

---------------------------------------------------------------------------
(* Server.handleConn                                                       *)

\* handleConn returns an error: Serve closes the connection.
ServerFails == sv' = [sv EXCEPT !.pc = "closed"] /\ open' = [open EXCEPT !.s = FALSE]

\* HandshakeServer takes version 3, and a C1 without a version of the client
\* or with its digest at one of two places.
FindDigest(m) == m.name \in {"plain", "at772", "at8"}

HandshakeC0C1 ==
    /\ sv.pc = "accept" /\ c2s # <<>>
    /\ c2s' = Tail(c2s)
    /\ \/ /\ Head(c2s).k = "C0C1" /\ Head(c2s).id = 3 /\ FindDigest(Head(c2s))
          /\ \E ok \in Flushes("c") :
               IF ok THEN s2c' = Append(s2c, S0S1S2) /\ sv' = [sv EXCEPT !.pc = "C2"] /\ UNCHANGED open
               ELSE ServerFails /\ UNCHANGED s2c
       \/ /\ ~(Head(c2s).k = "C0C1" /\ Head(c2s).id = 3 /\ FindDigest(Head(c2s)))
          /\ ServerFails /\ UNCHANGED s2c
    /\ UNCHANGED <<smode, noauth, cbuf, cl, seen, told, sent, timedOut>>

\* C2 is read and not looked at.
HandshakeC2 ==
    /\ sv.pc = "C2" /\ c2s # <<>>
    /\ c2s' = Tail(c2s) /\ sv' = [sv EXCEPT !.pc = "readMsg"]
    /\ UNCHANGED <<smode, noauth, s2c, cbuf, cl, open, seen, told, sent, timedOut>>

\* In the handshake the connection ends or a deadline passes.
HandshakeFails ==
    /\ sv.pc \in {"accept", "C2"} /\ c2s = <<>>
    /\ ServerFails
    /\ timedOut' = (timedOut \/ open.c)
    /\ UNCHANGED <<smode, noauth, c2s, s2c, cbuf, cl, seen, told, sent>>

\* Mutant: the answer has the transaction id of an earlier command.
CreateStreamRespStale(m) == <<Answer("_result", sv.id, "none", 1)>>

\* createStream keeps the transaction id for createStreamResp.
CreateStreamResp(m) == <<Answer("_result", m.id, "none", 1)>>

\* handleCmdMsg: the answers, and what the command leaves in ConnServer; an
\* error is "fails".  publish and play end ReadMsg.
Handled(m) ==
    CASE m.name = "connect" ->
           [fails |-> m.id # 1, pc |-> "readMsg", app |-> IF m.app = "none" THEN sv.app ELSE m.app,
            arg |-> sv.arg, id |-> 1,
            answers |-> <<Control, Control, Control, Answer("_result", 1, "connectSuccess", NoSid)>>]
      [] m.name = "createStream" ->
           [fails |-> FALSE, pc |-> "readMsg", app |-> sv.app, arg |-> sv.arg, id |-> m.id,
            answers |-> CreateStreamResp(m)]
      [] m.name = "publish" ->
           [fails |-> FALSE, pc |-> "publish", app |-> sv.app, arg |-> m.arg, id |-> m.id,
            answers |-> <<Answer("onStatus", 0, "publishStart", NoSid)>>]
      [] m.name = "play" ->
           [fails |-> FALSE, pc |-> "play", app |-> sv.app, arg |-> m.arg, id |-> m.id,
            answers |-> <<Control, Control>> \o [i \in 1 .. 4 |-> Answer("onStatus", 0, "playStart", NoSid)]]
      [] OTHER ->
           [fails |-> FALSE, pc |-> "readMsg", app |-> sv.app, arg |-> sv.arg, id |-> sv.id, answers |-> <<>>]

\* ReadMsg; messages of other types are passed over.
ReadMsg ==
    LET m == Head(c2s)
        h == Handled(m)
    IN
    /\ sv.pc = "readMsg" /\ c2s # <<>> /\ c2s' = Tail(c2s)
    /\ \/ m.k # "cmd" /\ UNCHANGED <<s2c, sv, open, seen>>
       \/ m.k = "cmd" /\ h.fails /\ ServerFails /\ UNCHANGED <<s2c, seen>>
       \/ /\ m.k = "cmd" /\ ~h.fails /\ seen' = Append(seen, m)
          /\ \E ok \in IF h.answers = <<>> THEN {TRUE} ELSE Flushes("c") :
               IF ok THEN /\ s2c' = s2c \o h.answers /\ UNCHANGED open
                          /\ sv' = [sv EXCEPT !.pc = h.pc, !.app = h.app, !.arg = h.arg, !.id = h.id]
               ELSE ServerFails /\ UNCHANGED s2c
    /\ UNCHANGED <<smode, noauth, cbuf, cl, told, sent, timedOut>>

ReadMsgError == ServerFails

\* The connection has ended.  There is no deadline any more.
ReadMsgEnds ==
    /\ sv.pc = "readMsg" /\ c2s = <<>> /\ ~open.c
    /\ ReadMsgError
    /\ UNCHANGED <<smode, noauth, c2s, s2c, cbuf, cl, seen, told, sent, timedOut>>

\* Mutant: every application is served.
CheckAppNameAny(app) == TRUE

CheckAppName(app) == app \in ConfiguredApps

\* The channel of the name that was published: the name is a key, or with
\* rtmp_noauth a channel, for which GetKey finds or makes the key.
GetChannel(name) == IF noauth THEN name ELSE IF name = RoomKey THEN Room ELSE "none"

\* handleConn after ReadMsg.  The command has been answered already.
Admit ==
    /\ sv.pc \in {"publish", "play"}
    /\ \/ /\ CheckAppName(sv.app) /\ sv.pc = "play"
          /\ sv' = [sv EXCEPT !.pc = "player", !.name = sv.arg] /\ UNCHANGED open
       \/ /\ CheckAppName(sv.app) /\ sv.pc = "publish" /\ GetChannel(sv.arg) # "none"
          /\ sv' = [sv EXCEPT !.pc = "publisher", !.name = GetChannel(sv.arg)] /\ UNCHANGED open
       \/ /\ ~CheckAppName(sv.app) \/ (sv.pc = "publish" /\ GetChannel(sv.arg) = "none")
          /\ ServerFails
    /\ UNCHANGED <<smode, noauth, c2s, s2c, cbuf, cl, seen, told, sent, timedOut>>

---------------------------------------------------------------------------
(* Foreign peers: any order of messages, and the end of the connection     *)

ForeignClient ==
    /\ smode = "server" /\ open.c
    /\ \/ /\ sent < MaxPeer /\ c2s = <<>> /\ sent' = sent + 1 /\ UNCHANGED open
          /\ \E m \in PeerCommands : c2s' = <<m>>
       \/ open' = [open EXCEPT !.c = FALSE] /\ UNCHANGED <<c2s, sent>>
    /\ UNCHANGED <<smode, noauth, s2c, cbuf, cl, sv, seen, told, timedOut>>

ForeignServer ==
    /\ smode = "client" /\ open.s /\ cl.pc # "dial"
    /\ \/ /\ sent < MaxPeer /\ s2c = <<>> /\ sent' = sent + 1 /\ UNCHANGED open
          /\ \E m \in IF cl.pc = "hsRead" THEN {S0S1S2} ELSE PeerAnswers :
               s2c' = <<m>> /\ told' = Append(told, m)
       \/ open' = [open EXCEPT !.s = FALSE] /\ UNCHANGED <<s2c, sent, told>>
    /\ UNCHANGED <<smode, noauth, c2s, cbuf, cl, sv, seen, timedOut>>

ClientSteps == StartDial \/ HandshakeRead \/ HandshakeReadFails \/ WriteCommand \/ ReadRespMsg \/ ReadRespEnds
ServerSteps == HandshakeC0C1 \/ HandshakeC2 \/ HandshakeFails \/ ReadMsg \/ ReadMsgEnds \/ Admit

SessionNext == ClientSteps \/ ServerSteps \/ ForeignClient \/ ForeignServer

SessionSpec == SessionInit /\ [][SessionNext]_sessionVars

---------------------------------------------------------------------------
(* Properties                                                              *)

\* A connection is served only to a client that has said connect with a
\* configured application, whatever the order and number of its commands
\* (handleCmdMsg takes them in any), in the role of its last command, and a
\* publisher under the channel of its key.
AdmittedProperly ==
    sv.pc \in {"publisher", "player"} =>
        /\ sv.app \in ConfiguredApps
        /\ \E i \in DOMAIN seen : seen[i].name = "connect" /\ seen[i].app = sv.app
        /\ seen[Len(seen)].name = (IF sv.pc = "publisher" THEN "publish" ELSE "play")
        /\ sv.pc = "publisher" /\ ~noauth => sv.name = Room /\ seen[Len(seen)].arg = RoomKey

\* The client publishes or plays on the stream a server has named in the answer
\* to createStream, whatever else the server has said.
StreamOfAnswer ==
    smode = "client" /\ (cl.transID = 3 \/ cl.ret = "ok") =>
        \E i \in DOMAIN told : told[i].name = "_result" /\ told[i].id = 2 /\
                               (told[i].sid # NoSid => told[i].sid = cl.streamid)

\* When both ends are this program, Start succeeds unless the dial fails or a
\* deadline of the handshake passes, and the server settles: C2 reaches it
\* though HandshakeClient does not flush, and no answer is awaited that is not
\* sent.  (Start succeeds also if the server then refuses: it answers first.)
PairComesUp ==
    <>[](smode = "pair" => /\ cl.pc = "returned"
                           /\ sv.pc \in {"publisher", "player", "closed", "none"}
                           /\ cl.ret = "ok" \/ timedOut \/ sv.pc = "none")

\* A connection whose client has gone does not stay in handleConn.
GoneIsNoticed == ~open.c ~> sv.pc \in {"publisher", "player", "closed"}

\* Start returns when the server has gone - but for the loop in
\* writeCreateStreamMsg (line 179), which tries again after any error.
StartReturns == smode = "client" /\ ~open.s ~> cl.pc = "returned" \/ CurCmd = "createStream"

\* Neither end takes the other for what it is not: the server admits properly
\* (handleConn), the client uses the stream it was given (readRespMsg).
SessionSafe == AdmittedProperly /\ StreamOfAnswer

\* Start and ReadMsg settle: both ends come up, and neither waits for a peer
\* that has gone.
SessionSettles == PairComesUp /\ GoneIsNoticed /\ StartReturns
=============================================================================
