--------------------------- MODULE SessionProofs ---------------------------
(***************************************************************************)
(* For any applications, and whatever commands and answers a foreign peer  *)
(* sends in whatever order: the server admits only what it should, and the *)
(* client uses the stream that it was given.  For the chunk stream under   *)
(* the session: whatever chunks a peer sends, and whatever Conn.Write's    *)
(* two goroutines write that tears no chunk, Conn.Read returns the         *)
(* messages as they were sent.                                             *)
(***************************************************************************)
EXTENDS Session, ChunkStream, TLAPS, FiniteSetTheorems, SequenceTheorems, WellFoundedInduction

ClientPlaces ==
    {"foreign", "dial", "hsRead", "connect", "createStream", "publish", "play", "resp", "returned"}
ServerPlaces ==
    {"none", "foreign", "accept", "C2", "readMsg", "publish", "play", "publisher", "player", "closed"}

Clients == [pc : ClientPlaces, method : {"publish", "play"}, transID : 1 .. 3, streamid : Int,
            ret : {"none", "ok", "err"}]
Servers == [pc : ServerPlaces, app : Words, name : Words, arg : Words, id : Int]

Typed ==
    /\ smode \in {"pair", "server", "client"} /\ noauth \in BOOLEAN
    /\ c2s \in Seq(Commands) /\ cbuf \in Seq(Commands) /\ s2c \in Seq(Answers)
    /\ cl \in Clients /\ sv \in Servers
    /\ seen \in Seq(Commands) /\ told \in Seq(Answers)

\* The application of the connection came with a connect that was handled.
AppConnected ==
    sv.app # "none" => \E i \in DOMAIN seen : seen[i].name = "connect" /\ seen[i].app = sv.app

\* After ReadMsg the last command that was handled is the one that ended it.
LastCommand ==
    /\ sv.pc \in {"publish", "play"} => seen # <<>> /\ seen[Len(seen)].name = sv.pc
                                        /\ seen[Len(seen)].arg = sv.arg
    /\ sv.pc = "publisher" => seen # <<>> /\ seen[Len(seen)].name = "publish"
    /\ sv.pc = "player" => seen # <<>> /\ seen[Len(seen)].name = "play"

\* A connection that is served has passed the admission.
Admitted ==
    sv.pc \in {"publisher", "player"} =>
        /\ sv.app \in ConfiguredApps
        /\ sv.pc = "publisher" /\ ~noauth => sv.name = Room /\ seen[Len(seen)].arg = RoomKey

\* The transaction ids are those of connect, createStream and the method.
Counted ==
    /\ cl.pc \in {"foreign", "dial", "hsRead", "connect", "createStream"} => cl.transID = 1
    /\ cl.pc \in {"publish", "play"} => cl.transID = 2
    /\ cl.ret = "ok" => cl.transID = 3

\* A foreign server has said all that the client has to read.
AllTold ==
    smode = "client" =>
        /\ sv.pc = "foreign"
        /\ \A j \in DOMAIN s2c : \E i \in DOMAIN told : told[i] = s2c[j]

\* A foreign server has named the stream the client uses.
Named ==
    \E i \in DOMAIN told : told[i].name = "_result" /\ told[i].id = 2 /\
                           (told[i].sid # NoSid => told[i].sid = cl.streamid)

\* The client goes on to publish or play with the stream it was given.
StreamGiven == smode = "client" /\ (cl.pc \in {"publish", "play"} \/ cl.transID = 3) => Named

SessionInv == Typed /\ AppConnected /\ LastCommand /\ Admitted /\ Counted /\ AllTold /\ StreamGiven

---------------------------------------------------------------------------
(* The types                                                               *)

LEMMA OwnWords ==
    /\ {"none", "cmd", "control", "S0S1S2", "C0C1", "C2", "plain", "connect", "createStream", "publish",
        "play", "_result", "onStatus", "connectSuccess", "publishStart", "playStart"} \subseteq Words
    /\ Room \in Words /\ RoomKey \in Words /\ Apps \subseteq Words
  BY DEF Words

LEMMA MessageTypes ==
    /\ NoSid \in Int
    /\ Control \in Answers /\ S0S1S2 \in Answers /\ C2 \in Commands /\ C0C1(3, "plain") \in Commands
    /\ \A n \in Words, i \in Int, c \in Words, d \in Int : Answer(n, i, c, d) \in Answers
    /\ \A n \in Words, i \in Int, a \in Words, b \in Words : Cmd(n, i, a, b) \in Commands
<1>0. NoSid \in Int
  BY DEF NoSid
<1>1. Control \in Answers /\ S0S1S2 \in Answers
  BY <1>0, OwnWords DEF Control, S0S1S2, Answers
<1>2. C2 \in Commands /\ C0C1(3, "plain") \in Commands
  BY OwnWords DEF C2, C0C1, Commands
<1>3. \A n \in Words, i \in Int, c \in Words, d \in Int : Answer(n, i, c, d) \in Answers
  BY OwnWords DEF Answer, Answers
<1>4. \A n \in Words, i \in Int, a \in Words, b \in Words : Cmd(n, i, a, b) \in Commands
  BY OwnWords DEF Cmd, Commands
<1> QED  BY <1>0, <1>1, <1>2, <1>3, <1>4

LEMMA InitTyped == SessionInit => Typed
<1> SUFFICES ASSUME SessionInit PROVE Typed
  OBVIOUS
<1>1. cl \in Clients
  BY DEF SessionInit, Clients, ClientPlaces
<1>2. sv \in Servers
  <2>1. [pair |-> "none", server |-> "accept", client |-> "foreign"][smode] \in ServerPlaces
    BY DEF SessionInit, ServerPlaces
  <2> QED  BY <2>1, OwnWords DEF SessionInit, Servers
<1> QED  BY <1>1, <1>2 DEF SessionInit, Typed

LEMMA ReturnedType ==
    ASSUME NEW c \in Clients, NEW r \in {"none", "ok", "err"}
    PROVE  Returned(c, r) \in Clients
  BY DEF Returned, Clients, ClientPlaces

\* ServerFails closes, and changes nothing else of the server.
LEMMA ServerFailsType ==
    ASSUME sv \in Servers, ServerFails
    PROVE  /\ sv' \in Servers /\ sv'.pc = "closed"
           /\ sv'.app = sv.app /\ sv'.name = sv.name /\ sv'.arg = sv.arg
  BY DEF ServerFails, Servers, ServerPlaces

\* What handleCmdMsg leaves and answers.
LEMMA HandledType ==
    ASSUME sv \in Servers, NEW m \in Commands
    PROVE  /\ Handled(m).pc \in {"readMsg", "publish", "play"}
           /\ Handled(m).app \in Words /\ Handled(m).arg \in Words /\ Handled(m).id \in Int
           /\ Handled(m).answers \in Seq(Answers)
           /\ Handled(m).app # sv.app => m.name = "connect" /\ Handled(m).app = m.app
           /\ Handled(m).pc \in {"publish", "play"} =>
                  m.name = Handled(m).pc /\ m.arg = Handled(m).arg
<1>0. /\ sv.app \in Words /\ sv.arg \in Words /\ sv.id \in Int
      /\ m.app \in Words /\ m.arg \in Words /\ m.id \in Int /\ m.name \in Words
  BY DEF Servers, Commands
<1>1. CASE m.name = "connect"
  <2>1. Answer("_result", 1, "connectSuccess", NoSid) \in Answers
    BY MessageTypes, OwnWords
  <2>2. <<Control, Control, Control, Answer("_result", 1, "connectSuccess", NoSid)>> \in Seq(Answers)
    BY <2>1, MessageTypes
  <2>3. Handled(m) = [fails |-> m.id # 1, pc |-> "readMsg", app |-> IF m.app = "none" THEN sv.app ELSE m.app,
                      arg |-> sv.arg, id |-> 1,
                      answers |-> <<Control, Control, Control, Answer("_result", 1, "connectSuccess", NoSid)>>]
    BY <1>1 DEF Handled
  <2> QED  BY <1>0, <1>1, <2>2, <2>3
<1>2. CASE m.name = "createStream"
  <2>1. Answer("_result", m.id, "none", 1) \in Answers
    BY <1>0, MessageTypes, OwnWords
  <2>2. CreateStreamResp(m) \in Seq(Answers)
    BY <2>1 DEF CreateStreamResp
  <2>3. Handled(m) = [fails |-> FALSE, pc |-> "readMsg", app |-> sv.app, arg |-> sv.arg, id |-> m.id,
                      answers |-> CreateStreamResp(m)]
    BY <1>2 DEF Handled
  <2> QED  BY <1>0, <1>2, <2>2, <2>3
<1>3. CASE m.name = "publish"
  <2>1. <<Answer("onStatus", 0, "publishStart", NoSid)>> \in Seq(Answers)
    BY MessageTypes, OwnWords
  <2> QED  BY <1>0, <1>3, <2>1 DEF Handled
<1>4. CASE m.name = "play"
  <2>1. Answer("onStatus", 0, "playStart", NoSid) \in Answers
    BY MessageTypes, OwnWords
  <2>2. [i \in 1 .. 4 |-> Answer("onStatus", 0, "playStart", NoSid)] \in Seq(Answers)
    BY <2>1
  <2>3. <<Control, Control>> \in Seq(Answers)
    BY MessageTypes, OwnWords
  <2>4. <<Control, Control>> \o [i \in 1 .. 4 |-> Answer("onStatus", 0, "playStart", NoSid)] \in Seq(Answers)
    BY <2>2, <2>3
  <2> QED  BY <1>0, <1>4, <2>4 DEF Handled
<1>5. CASE m.name \notin {"connect", "createStream", "publish", "play"}
  BY <1>0, <1>5 DEF Handled
<1> QED  BY <1>1, <1>2, <1>3, <1>4, <1>5

---------------------------------------------------------------------------
\* What is left of a queue was in it.
LEMMA TailIsRead ==
    ASSUME NEW S, NEW s \in Seq(S), NEW t, t = s \/ (s # <<>> /\ t = Tail(s))
    PROVE  t \in Seq(S) /\ \A j \in DOMAIN t : \E i \in DOMAIN s : t[j] = s[i]
<1>1. CASE t = s
  BY <1>1
<1>2. CASE s # <<>> /\ t = Tail(s)
  <2>1. t \in Seq(S) /\ Len(t) = Len(s) - 1 /\ Len(s) \in Nat /\ \A j \in 1 .. Len(t) : t[j] = s[j + 1]
    BY <1>2
  <2>2. DOMAIN t = 1 .. Len(t) /\ DOMAIN s = 1 .. Len(s)
    BY <2>1
  <2>3. \A j \in DOMAIN t : j + 1 \in DOMAIN s /\ t[j] = s[j + 1]
    BY <2>1, <2>2
  <2> QED  BY <2>1, <2>3
<1> QED  BY <1>1, <1>2

---------------------------------------------------------------------------
(* The client                                                              *)

\* What readRespMsg does with an answer to the command that waits.
LEMMA AfterVerdictIs ==
    ASSUME cl \in Clients, NEW c \in Clients, c.transID = cl.transID, c.ret = cl.ret, cl.pc = "resp",
           NEW v \in {"ok", "fail", "other"}, c.pc = "resp"
    PROVE  /\ AfterVerdict(v, c) \in Clients
           /\ AfterVerdict(v, c).transID = cl.transID /\ AfterVerdict(v, c).streamid = c.streamid
           /\ AfterVerdict(v, c).pc \in {"createStream", "publish", "play", "resp", "returned"}
           /\ AfterVerdict(v, c).pc = "createStream" => cl.transID = 1
           /\ AfterVerdict(v, c).pc \in {"publish", "play"} => cl.transID = 2 /\ v = "ok"
           /\ AfterVerdict(v, c).ret = "ok" => cl.ret = "ok" \/ cl.transID = 3
<1>0. cl.transID \in 1 .. 3 /\ cl.method \in {"publish", "play"}
  BY DEF Clients
<1>1. CASE cl.transID = 1
  <2>1. CurCmd = "connect"
    BY <1>1 DEF CurCmd
  <2> QED  BY <1>0, <1>1, <2>1 DEF AfterVerdict, Returned, Clients, ClientPlaces
<1>2. CASE cl.transID = 2
  <2>1. CurCmd = "createStream"
    BY <1>2 DEF CurCmd
  <2> QED  BY <1>0, <1>2, <2>1 DEF AfterVerdict, Returned, Clients, ClientPlaces
<1>3. CASE cl.transID = 3
  <2>1. CurCmd \in {"publish", "play"}
    BY <1>0, <1>3 DEF CurCmd
  <2>2. CurCmd # "connect" /\ CurCmd # "createStream"
    BY <2>1
  <2> QED  BY <1>0, <1>3, <2>2 DEF AfterVerdict, Returned, Clients, ClientPlaces
<1> QED  BY <1>0, <1>1, <1>2, <1>3

LEMMA VerdictIs ==
    ASSUME cl \in Clients, NEW m
    PROVE  /\ Verdict(m) \in {"ok", "fail", "other"}
           /\ cl.transID = 2 /\ Verdict(m) = "ok" => m.name = "_result" /\ m.id = 2
<1>0. cl.transID \in 1 .. 3 /\ cl.method \in {"publish", "play"}
  BY DEF Clients
<1>1. CurCmd \in {"connect", "createStream", "publish", "play"} /\ (cl.transID = 2 => CurCmd = "createStream")
  BY <1>0 DEF CurCmd
<1>2. CASE CurCmd \in {"connect", "createStream"}
  BY <1>1, <1>2 DEF Verdict
<1>3. CASE CurCmd = "publish"
  BY <1>1, <1>3 DEF Verdict
<1>4. CASE CurCmd = "play"
  BY <1>1, <1>4 DEF Verdict
<1> QED  BY <1>1, <1>2, <1>3, <1>4

LEMMA StartDialKeeps ==
    ASSUME SessionInv, StartDial
    PROVE  Typed' /\ Counted' /\ AllTold' /\ StreamGiven'
<1>0. /\ cl \in Clients /\ sv \in Servers /\ cl.pc = "dial" /\ cl.transID = 1
      /\ UNCHANGED <<smode, noauth, s2c, cbuf, seen, told>>
  BY DEF SessionInv, Typed, Counted, StartDial
<1>1. /\ cl' \in Clients /\ cl'.pc \in {"hsRead", "returned"} /\ cl'.transID = 1
      /\ cl'.ret = "ok" => cl.ret = "ok"
  BY <1>0 DEF StartDial, Returned, Clients, ClientPlaces
<1>2. sv' \in Servers /\ (smode # "pair" => sv'.pc = sv.pc)
  BY <1>0 DEF StartDial, Servers, ServerPlaces
<1>3. c2s' \in Seq(Commands)
  <2>1. C0C1(3, "plain") \in Commands /\ c2s \in Seq(Commands)
    BY MessageTypes DEF SessionInv, Typed
  <2>2. c2s' = c2s \/ c2s' = Append(c2s, C0C1(3, "plain"))
    BY DEF StartDial
  <2> QED  BY <2>1, <2>2
<1>4. Typed'
  BY <1>0, <1>1, <1>2, <1>3 DEF SessionInv, Typed
<1>5. Counted'
  BY <1>0, <1>1 DEF SessionInv, Counted
<1>6. AllTold'
  BY <1>0, <1>2 DEF SessionInv, AllTold
<1>7. StreamGiven'
  BY <1>0, <1>1 DEF StreamGiven
<1> QED  BY <1>4, <1>5, <1>6, <1>7

LEMMA HandshakeReadKeeps ==
    ASSUME SessionInv, HandshakeRead \/ HandshakeReadFails
    PROVE  Typed' /\ Counted' /\ AllTold' /\ StreamGiven'
<1>0. /\ cl \in Clients /\ cl.pc = "hsRead" /\ cl.transID = 1
      /\ UNCHANGED <<smode, noauth, c2s, sv, seen, told>>
  BY DEF SessionInv, Typed, Counted, HandshakeRead, HandshakeReadFails
<1>1. /\ cl' \in Clients /\ cl'.pc \in {"connect", "returned"} /\ cl'.transID = 1
      /\ cl'.ret = "ok" => cl.ret = "ok"
  BY <1>0 DEF HandshakeRead, HandshakeReadFails, Returned, Clients, ClientPlaces
<1>2. cbuf' \in Seq(Commands)
  <2>1. C2 \in Commands /\ cbuf \in Seq(Commands)
    BY MessageTypes DEF SessionInv, Typed
  <2>2. cbuf' = cbuf \/ cbuf' = <<C2>>
    BY DEF HandshakeRead, HandshakeReadFails
  <2>3. <<C2>> \in Seq(Commands)
    BY <2>1
  <2> QED  BY <2>1, <2>2, <2>3
<1>3. s2c' = s2c \/ (s2c # <<>> /\ s2c' = Tail(s2c))
  BY DEF HandshakeRead, HandshakeReadFails
<1>4. s2c' \in Seq(Answers) /\ \A j \in DOMAIN s2c' : \E i \in DOMAIN s2c : s2c'[j] = s2c[i]
  BY <1>3, TailIsRead DEF SessionInv, Typed
<1>5. Typed'
  BY <1>0, <1>1, <1>2, <1>4 DEF SessionInv, Typed
<1>6. Counted'
  BY <1>0, <1>1 DEF SessionInv, Counted
<1>7. AllTold'
  BY <1>0, <1>4 DEF SessionInv, AllTold
<1>8. StreamGiven'
  BY <1>0, <1>1 DEF StreamGiven
<1> QED  BY <1>5, <1>6, <1>7, <1>8

LEMMA WriteCommandKeeps ==
    ASSUME SessionInv, WriteCommand
    PROVE  Typed' /\ Counted' /\ AllTold' /\ StreamGiven'
<1>0. /\ cl \in Clients /\ cl.transID \in 1 .. 3
      /\ cl.pc \in {"connect", "createStream", "publish", "play"}
      /\ cl.pc \in {"connect", "createStream"} => cl.transID = 1
      /\ cl.pc \in {"publish", "play"} => cl.transID = 2
      /\ c2s \in Seq(Commands) /\ cbuf \in Seq(Commands)
      /\ UNCHANGED <<smode, noauth, s2c, sv, seen, told>>
  BY DEF SessionInv, Typed, Counted, WriteCommand, Clients
<1> DEFINE id == IF cl.pc = "connect" THEN cl.transID ELSE cl.transID + 1
<1>1. PICK app \in (IF cl.pc = "connect" THEN Apps ELSE {"none"}),
           arg \in (IF cl.pc \in {"publish", "play"} THEN {Room, RoomKey} ELSE {"none"}) :
         ClientWriteMsg(Cmd(cl.pc, IF cl.pc = "play" THEN 0 ELSE id, app, arg), [cl EXCEPT !.transID = id])
  BY DEF WriteCommand
<1>2. id \in 1 .. 3 /\ (id = 3 => cl.pc \in {"publish", "play"})
  BY <1>0
<1> HIDE DEF id
<1> DEFINE m == Cmd(cl.pc, IF cl.pc = "play" THEN 0 ELSE id, app, arg)
<1>3. m \in Commands
  <2>1. cl.pc \in Words /\ app \in Words /\ arg \in Words
    BY <1>0, <1>1, OwnWords
  <2>2. (IF cl.pc = "play" THEN 0 ELSE id) \in Int
    BY <1>2
  <2> QED  BY <2>1, <2>2, MessageTypes
<1>4. cbuf' = <<>> /\ c2s' \in Seq(Commands)
  <2>1. cbuf' = <<>> /\ (c2s' = c2s \/ c2s' = c2s \o Append(cbuf, m))
    BY <1>1 DEF ClientWriteMsg
  <2> HIDE DEF m
  <2>2. Append(cbuf, m) \in Seq(Commands)
    BY <1>0, <1>3
  <2>3. c2s \o Append(cbuf, m) \in Seq(Commands)
    BY <1>0, <2>2
  <2> QED  BY <1>0, <2>1, <2>3
<1>5. \/ cl' = [[cl EXCEPT !.transID = id] EXCEPT !.pc = "resp"]
      \/ cl' = Returned(cl, "err")
  BY <1>1 DEF ClientWriteMsg
<1>6. /\ cl' \in Clients /\ cl'.pc \in {"resp", "returned"} /\ cl'.streamid = cl.streamid
      /\ cl'.transID = 3 => cl.pc \in {"publish", "play"}
      /\ cl'.ret # "ok"
  <2>1. cl.ret # "ok"
    BY <1>0 DEF SessionInv, Counted
  <2>2. CASE cl' = [[cl EXCEPT !.transID = id] EXCEPT !.pc = "resp"]
    <3>1. [cl EXCEPT !.transID = id] \in Clients /\ [cl EXCEPT !.transID = id].transID = id
      BY <1>0, <1>2 DEF Clients
    <3>2. cl' \in Clients /\ cl'.pc = "resp" /\ cl'.transID = id
      BY <2>2, <3>1 DEF Clients, ClientPlaces
    <3>3. cl'.streamid = cl.streamid /\ cl'.ret = cl.ret
      BY <1>0, <2>2 DEF Clients
    <3> QED  BY <1>2, <2>1, <3>2, <3>3
  <2>3. CASE cl' = Returned(cl, "err")
    <3>1. cl' \in Clients /\ cl'.pc = "returned" /\ cl'.ret = "err"
      BY <1>0, <2>3 DEF Returned, Clients, ClientPlaces
    <3>2. cl'.streamid = cl.streamid /\ cl'.transID = cl.transID
      BY <1>0, <2>3 DEF Returned, Clients
    <3> QED  BY <1>0, <3>1, <3>2
  <2> QED  BY <1>5, <2>2, <2>3
<1>7. Typed'
  BY <1>0, <1>4, <1>6 DEF SessionInv, Typed
<1>8. Counted'
  BY <1>6 DEF Counted
<1>9. AllTold'
  BY <1>0 DEF SessionInv, AllTold
<1>10. StreamGiven'
  BY <1>0, <1>6 DEF SessionInv, StreamGiven, Named
<1> QED  BY <1>7, <1>8, <1>9, <1>10

LEMMA ReadRespMsgKeeps ==
    ASSUME SessionInv, ReadRespMsg
    PROVE  Typed' /\ Counted' /\ AllTold' /\ StreamGiven'
<1> DEFINE m == Head(s2c)
           v == Verdict(m)
           sid == IF v = "ok" /\ CurCmd \in {"connect", "createStream"} /\ m.sid # NoSid
                  THEN m.sid ELSE cl.streamid
           c == [cl EXCEPT !.streamid = sid]
<1>0. /\ cl \in Clients /\ cl.pc = "resp" /\ s2c # <<>> /\ s2c \in Seq(Answers) /\ s2c' = Tail(s2c)
      /\ UNCHANGED <<smode, noauth, c2s, cbuf, sv, seen, told>>
  BY DEF SessionInv, Typed, ReadRespMsg
<1>1. cl' = IF m.k # "cmd" THEN cl ELSE AfterVerdict(v, c)
  BY DEF ReadRespMsg
<1>2. m \in Answers /\ m = s2c[1] /\ 1 \in DOMAIN s2c
  BY <1>0
<1>3. m.sid \in Int /\ cl.streamid \in Int
  BY <1>0, <1>2 DEF Answers, Clients
<1>4. v \in {"ok", "fail", "other"} /\ (cl.transID = 2 /\ v = "ok" => m.name = "_result" /\ m.id = 2)
  BY <1>0, VerdictIs
<1>5. cl.transID = 3 => sid = cl.streamid
  BY <1>0 DEF CurCmd, Clients
<1>6. cl.transID = 2 /\ v = "ok" => (m.sid # NoSid => sid = m.sid)
  BY DEF CurCmd
<1>7. sid \in Int
  BY <1>3
<1> HIDE DEF m, v, sid
<1>8. /\ c \in Clients /\ c.pc = "resp" /\ c.transID = cl.transID /\ c.ret = cl.ret
      /\ c.streamid = sid
  BY <1>0, <1>7 DEF Clients
<1> HIDE DEF c
<1>9. /\ AfterVerdict(v, c) \in Clients
      /\ AfterVerdict(v, c).transID = cl.transID /\ AfterVerdict(v, c).streamid = c.streamid
      /\ AfterVerdict(v, c).pc \in {"createStream", "publish", "play", "resp", "returned"}
      /\ AfterVerdict(v, c).pc = "createStream" => cl.transID = 1
      /\ AfterVerdict(v, c).pc \in {"publish", "play"} => cl.transID = 2 /\ v = "ok"
      /\ AfterVerdict(v, c).ret = "ok" => cl.ret = "ok" \/ cl.transID = 3
  BY <1>0, <1>4, <1>8, AfterVerdictIs
<1>10. s2c' \in Seq(Answers) /\ \A j \in DOMAIN s2c' : \E i \in DOMAIN s2c : s2c'[j] = s2c[i]
  BY <1>0, TailIsRead
<1>11. Typed'
  BY <1>0, <1>1, <1>9, <1>10 DEF SessionInv, Typed
<1>12. Counted'
  BY <1>0, <1>1, <1>9 DEF SessionInv, Counted
<1>13. AllTold'
  BY <1>0, <1>10 DEF SessionInv, AllTold
<1>14. StreamGiven'
  <2> SUFFICES ASSUME smode = "client", cl'.pc \in {"publish", "play"} \/ cl'.transID = 3
               PROVE  Named'
    BY <1>0 DEF StreamGiven
  <2>1. CASE m.k # "cmd" \/ cl.transID = 3
    <3>1. cl'.streamid = cl.streamid /\ (cl.transID = 3 \/ cl.pc \in {"publish", "play"})
      BY <1>1, <1>5, <1>8, <1>9, <2>1
    <3> QED  BY <1>0, <3>1 DEF SessionInv, StreamGiven, Named
  <2>2. CASE m.k = "cmd" /\ cl.transID # 3
    <3>1. cl.transID = 2 /\ v = "ok" /\ cl'.streamid = sid
      BY <1>1, <1>8, <1>9, <2>2
    <3>2. m.name = "_result" /\ m.id = 2 /\ (m.sid # NoSid => m.sid = cl'.streamid)
      BY <1>4, <1>6, <3>1
    <3>3. PICK i \in DOMAIN told : told[i] = m
      BY <1>2 DEF SessionInv, AllTold
    <3> QED  BY <1>0, <3>2, <3>3 DEF Named
  <2> QED  BY <2>1, <2>2
<1> QED  BY <1>11, <1>12, <1>13, <1>14

LEMMA ReadRespEndsKeeps ==
    ASSUME SessionInv, ReadRespEnds
    PROVE  Typed' /\ Counted' /\ AllTold' /\ StreamGiven'
<1>0. /\ cl \in Clients /\ cl.pc = "resp" /\ cl' = AfterVerdict("other", cl)
      /\ UNCHANGED <<smode, noauth, c2s, s2c, cbuf, sv, seen, told>>
  BY DEF SessionInv, Typed, ReadRespEnds, RespError
<1>1. /\ cl' \in Clients /\ cl'.transID = cl.transID /\ cl'.streamid = cl.streamid
      /\ cl'.pc \in {"createStream", "publish", "play", "resp", "returned"}
      /\ cl'.pc = "createStream" => cl.transID = 1
      /\ cl'.pc \notin {"publish", "play"}
      /\ cl'.ret = "ok" => cl.ret = "ok" \/ cl.transID = 3
  BY <1>0, AfterVerdictIs
<1>2. Typed' /\ Counted' /\ AllTold'
  BY <1>0, <1>1 DEF SessionInv, Typed, Counted, AllTold
<1>3. StreamGiven'
  BY <1>0, <1>1 DEF SessionInv, StreamGiven, Named
<1> QED  BY <1>2, <1>3

---------------------------------------------------------------------------
(* The server, and its clients                                             *)

\* The server's part of the invariant.
Served == AppConnected /\ LastCommand /\ Admitted

\* A step that leaves the server, or closes the connection.
LEMMA ServedStays ==
    ASSUME SessionInv, UNCHANGED <<seen, noauth>>, sv' = sv \/ ServerFails
    PROVE  sv' \in Servers /\ Served' /\ (sv.pc = "foreign" /\ sv' = sv => sv'.pc = "foreign")
<1>0. sv \in Servers
  BY DEF SessionInv, Typed
<1>1. CASE sv' = sv
  BY <1>0, <1>1 DEF SessionInv, Served, AppConnected, LastCommand, Admitted
<1>2. CASE ServerFails
  <2>1. sv' \in Servers /\ sv'.pc = "closed" /\ sv'.app = sv.app
    BY <1>0, <1>2, ServerFailsType
  <2> QED  BY <2>1, <1>0 DEF SessionInv, Served, AppConnected, LastCommand, Admitted, ServerFails
<1> QED  BY <1>1, <1>2

\* The client's part is not touched by steps of the server, which a foreign
\* server does not take.
LEMMA ClientStays ==
    ASSUME SessionInv, UNCHANGED <<smode, cl, told>>, sv.pc # "foreign"
    PROVE  Counted' /\ AllTold' /\ StreamGiven'
<1>1. smode # "client"
  BY DEF SessionInv, AllTold
<1> QED  BY <1>1 DEF SessionInv, Counted, AllTold, StreamGiven

LEMMA ClientServed ==
    ASSUME SessionInv, ClientSteps
    PROVE  Served'
<1>1. CASE StartDial
  <2>1. sv \in Servers /\ UNCHANGED <<seen, noauth>>
    BY <1>1 DEF SessionInv, Typed, StartDial
  <2>2. sv' = sv \/ sv' = [sv EXCEPT !.pc = IF smode = "pair" THEN "accept" ELSE @]
    BY <1>1 DEF StartDial
  <2>3. sv'.app = sv.app /\ sv'.arg = sv.arg /\ sv'.name = sv.name /\ sv'.pc \in {sv.pc, "accept"}
    BY <2>1, <2>2 DEF Servers
  <2> QED  BY <2>1, <2>3 DEF SessionInv, Served, AppConnected, LastCommand, Admitted
<1>2. CASE HandshakeRead \/ HandshakeReadFails \/ WriteCommand \/ ReadRespMsg \/ ReadRespEnds
  <2>1. UNCHANGED <<seen, noauth, sv>>
    BY <1>2 DEF HandshakeRead, HandshakeReadFails, WriteCommand, ReadRespMsg, ReadRespEnds
  <2> QED  BY <2>1, ServedStays
<1> QED  BY <1>1, <1>2 DEF ClientSteps

LEMMA HandshakeKeeps ==
    ASSUME SessionInv, HandshakeC0C1 \/ HandshakeC2 \/ HandshakeFails \/ ReadMsgEnds
    PROVE  SessionInv'
<1>0. /\ sv \in Servers /\ sv.pc # "foreign" /\ UNCHANGED <<smode, noauth, cbuf, cl, seen, told>>
      /\ c2s \in Seq(Commands) /\ s2c \in Seq(Answers)
  BY DEF SessionInv, Typed, HandshakeC0C1, HandshakeC2, HandshakeFails, ReadMsgEnds
<1>1. c2s' = c2s \/ (c2s # <<>> /\ c2s' = Tail(c2s))
  BY DEF HandshakeC0C1, HandshakeC2, HandshakeFails, ReadMsgEnds
<1>2. c2s' \in Seq(Commands)
  BY <1>0, <1>1
<1>3. s2c' = s2c \/ s2c' = Append(s2c, S0S1S2)
  BY DEF HandshakeC0C1, HandshakeC2, HandshakeFails, ReadMsgEnds
<1>4. s2c' \in Seq(Answers)
  BY <1>0, <1>3, MessageTypes
<1>5. ServerFails \/ sv' = [sv EXCEPT !.pc = "C2"] \/ sv' = [sv EXCEPT !.pc = "readMsg"]
  BY DEF HandshakeC0C1, HandshakeC2, HandshakeFails, ReadMsgEnds, ReadMsgError
<1>6. sv' \in Servers /\ Served'
  <2>1. CASE ServerFails
    BY <1>0, <2>1, ServedStays
  <2>2. CASE sv' = [sv EXCEPT !.pc = "C2"] \/ sv' = [sv EXCEPT !.pc = "readMsg"]
    <3>1. sv' \in Servers /\ sv'.pc \in {"C2", "readMsg"} /\ sv'.app = sv.app
      BY <1>0, <2>2 DEF Servers, ServerPlaces
    <3> QED  BY <1>0, <3>1 DEF SessionInv, Served, AppConnected, LastCommand, Admitted
  <2> QED  BY <1>5, <2>1, <2>2
<1>7. Counted' /\ AllTold' /\ StreamGiven'
  BY <1>0, ClientStays
<1> QED  BY <1>0, <1>2, <1>4, <1>6, <1>7 DEF SessionInv, Typed, Served

\* handleCmdMsg: the command is the last one seen, and what it leaves is its.
LEMMA ReadMsgKeeps ==
    ASSUME SessionInv, ReadMsg
    PROVE  SessionInv'
<1> DEFINE m == Head(c2s)
           h == Handled(m)
<1>0. /\ sv \in Servers /\ sv.pc = "readMsg" /\ UNCHANGED <<smode, noauth, cbuf, cl, told>>
      /\ c2s \in Seq(Commands) /\ c2s # <<>> /\ c2s' = Tail(c2s) /\ s2c \in Seq(Answers)
      /\ seen \in Seq(Commands)
  BY DEF SessionInv, Typed, ReadMsg
<1>1. c2s' \in Seq(Commands) /\ m \in Commands
  BY <1>0
<1>2. /\ h.pc \in {"readMsg", "publish", "play"}
      /\ h.app \in Words /\ h.arg \in Words /\ h.id \in Int /\ h.answers \in Seq(Answers)
      /\ h.app # sv.app => m.name = "connect" /\ h.app = m.app
      /\ h.pc \in {"publish", "play"} => m.name = h.pc /\ m.arg = h.arg
  BY <1>0, <1>1, HandledType
<1>3. \/ UNCHANGED <<s2c, sv, seen>>
      \/ ServerFails /\ UNCHANGED <<s2c, seen>>
      \/ ServerFails /\ seen' = Append(seen, m) /\ UNCHANGED s2c
      \/ /\ seen' = Append(seen, m) /\ s2c' = s2c \o h.answers
         /\ sv' = [sv EXCEPT !.pc = h.pc, !.app = h.app, !.arg = h.arg, !.id = h.id]
  BY DEF ReadMsg
<1>4. Counted' /\ AllTold' /\ StreamGiven'
  BY <1>0, ClientStays
<1> HIDE DEF m, h
<1>5. CASE (sv' = sv \/ ServerFails) /\ UNCHANGED <<s2c, seen>>
  <2>1. sv' \in Servers /\ Served'
    BY <1>0, <1>5, ServedStays
  <2> QED  BY <1>0, <1>1, <1>4, <1>5, <2>1 DEF SessionInv, Typed, Served
<1>6. ASSUME seen' = Append(seen, m)
      PROVE  /\ seen' \in Seq(Commands) /\ Len(seen') = Len(seen) + 1 /\ seen' # <<>>
             /\ seen'[Len(seen')] = m /\ Len(seen') \in DOMAIN seen'
             /\ \A i \in DOMAIN seen : i \in DOMAIN seen' /\ seen'[i] = seen[i]
  BY <1>0, <1>1, <1>6
<1>7. CASE ServerFails /\ seen' = Append(seen, m) /\ UNCHANGED s2c
  <2>1. sv' \in Servers /\ sv'.pc = "closed" /\ sv'.app = sv.app
    BY <1>0, <1>7, ServerFailsType
  <2>2. AppConnected'
    BY <1>6, <1>7, <2>1 DEF SessionInv, AppConnected
  <2>3. LastCommand' /\ Admitted'
    BY <2>1 DEF LastCommand, Admitted
  <2> QED  BY <1>0, <1>1, <1>4, <1>6, <1>7, <2>1, <2>2, <2>3 DEF SessionInv, Typed
<1>8. CASE /\ seen' = Append(seen, m) /\ s2c' = s2c \o h.answers
           /\ sv' = [sv EXCEPT !.pc = h.pc, !.app = h.app, !.arg = h.arg, !.id = h.id]
  <2>1. sv' \in Servers /\ sv'.pc = h.pc /\ sv'.app = h.app /\ sv'.arg = h.arg
    BY <1>0, <1>2, <1>8 DEF Servers, ServerPlaces
  <2>2. s2c' \in Seq(Answers)
    BY <1>0, <1>2, <1>8
  <2>3. AppConnected'
    BY <1>2, <1>6, <1>8, <2>1 DEF SessionInv, AppConnected
  <2>4. LastCommand' /\ Admitted'
    BY <1>2, <1>6, <1>8, <2>1 DEF LastCommand, Admitted
  <2> QED  BY <1>0, <1>1, <1>4, <1>6, <1>8, <2>1, <2>2, <2>3, <2>4 DEF SessionInv, Typed
<1> QED  BY <1>3, <1>5, <1>7, <1>8

\* handleConn: what is admitted is configured, and has the channel of its key.
LEMMA AdmitKeeps ==
    ASSUME SessionInv, Admit
    PROVE  SessionInv'
<1>0. /\ sv \in Servers /\ sv.pc \in {"publish", "play"}
      /\ UNCHANGED <<smode, noauth, c2s, s2c, cbuf, cl, seen, told>>
  BY DEF SessionInv, Typed, Admit
<1>1. Counted' /\ AllTold' /\ StreamGiven'
  BY <1>0, ClientStays
<1>2. sv.arg \in Words
  BY <1>0 DEF Servers
<1>3. CASE ServerFails
  <2>1. sv' \in Servers /\ Served'
    BY <1>0, <1>3, ServedStays
  <2> QED  BY <1>0, <1>1, <2>1 DEF SessionInv, Typed, Served
<1>4. CASE sv.app \in ConfiguredApps /\ sv.pc = "play" /\ sv' = [sv EXCEPT !.pc = "player", !.name = sv.arg]
  <2>1. sv' \in Servers /\ sv'.pc = "player" /\ sv'.app = sv.app
    BY <1>0, <1>2, <1>4 DEF Servers, ServerPlaces
  <2>2. AppConnected' /\ LastCommand' /\ Admitted'
    BY <1>0, <1>4, <2>1 DEF SessionInv, AppConnected, LastCommand, Admitted
  <2> QED  BY <1>0, <1>1, <2>1, <2>2 DEF SessionInv, Typed
<1>5. CASE /\ sv.app \in ConfiguredApps /\ sv.pc = "publish" /\ GetChannel(sv.arg) # "none"
           /\ sv' = [sv EXCEPT !.pc = "publisher", !.name = GetChannel(sv.arg)]
  <2>1. /\ GetChannel(sv.arg) \in Words
        /\ ~noauth => GetChannel(sv.arg) = Room /\ sv.arg = RoomKey
    BY <1>2, <1>5, OwnWords DEF GetChannel
  <2>2. sv' \in Servers /\ sv'.pc = "publisher" /\ sv'.app = sv.app /\ sv'.name = GetChannel(sv.arg)
    BY <1>0, <1>5, <2>1 DEF Servers, ServerPlaces
  <2>3. AppConnected' /\ LastCommand'
    BY <1>0, <1>5, <2>2 DEF SessionInv, AppConnected, LastCommand
  <2>4. Admitted'
    BY <1>0, <1>5, <2>1, <2>2 DEF SessionInv, LastCommand, Admitted
  <2> QED  BY <1>0, <1>1, <2>2, <2>3, <2>4 DEF SessionInv, Typed
<1> QED  BY <1>3, <1>4, <1>5 DEF Admit, CheckAppName

LEMMA ForeignKeeps ==
    ASSUME SessionInv, ForeignClient \/ ForeignServer
    PROVE  SessionInv'
<1>1. CASE ForeignClient
  <2>1. /\ smode = "server" /\ UNCHANGED <<smode, noauth, s2c, cbuf, cl, sv, seen, told>>
        /\ c2s' = c2s \/ \E m \in PeerCommands : c2s' = <<m>>
    BY <1>1 DEF ForeignClient
  <2>2. c2s' \in Seq(Commands)
    <3>1. \A m \in PeerCommands : <<m>> \in Seq(Commands)
      BY SessionAssumption
    <3> QED  BY <2>1, <3>1 DEF SessionInv, Typed
  <2>3. Served'
    BY <2>1, ServedStays
  <2>4. Counted' /\ AllTold' /\ StreamGiven'
    BY <2>1 DEF SessionInv, Counted, AllTold, StreamGiven
  <2> QED  BY <2>1, <2>2, <2>3, <2>4 DEF SessionInv, Typed, Served
<1>2. CASE ForeignServer
  <2>1. /\ smode = "client" /\ UNCHANGED <<smode, noauth, c2s, cbuf, cl, sv, seen>>
        /\ \/ UNCHANGED <<s2c, told>>
           \/ \E m \in PeerAnswers \cup {S0S1S2} : s2c' = <<m>> /\ told' = Append(told, m)
    BY <1>2 DEF ForeignServer
  <2>2. Served'
    BY <2>1, ServedStays
  <2>3. CASE UNCHANGED <<s2c, told>>
    BY <2>1, <2>2, <2>3 DEF SessionInv, Typed, Served, Counted, AllTold, StreamGiven, Named
  <2>4. ASSUME NEW m \in PeerAnswers \cup {S0S1S2}, s2c' = <<m>>, told' = Append(told, m)
        PROVE  SessionInv'
    <3>0. m \in Answers /\ told \in Seq(Answers)
      BY MessageTypes, SessionAssumption DEF SessionInv, Typed
    <3>1. /\ s2c' \in Seq(Answers) /\ DOMAIN s2c' = {1} /\ s2c'[1] = m
      BY <2>4, <3>0
    <3>2. /\ told' \in Seq(Answers) /\ Len(told) + 1 \in DOMAIN told' /\ told'[Len(told) + 1] = m
          /\ \A i \in DOMAIN told : i \in DOMAIN told' /\ told'[i] = told[i]
      BY <2>4, <3>0
    <3>3. Typed'
      BY <2>1, <3>1, <3>2 DEF SessionInv, Typed
    <3>4. Counted' /\ AllTold'
      BY <2>1, <3>1, <3>2 DEF SessionInv, Counted, AllTold
    <3>5. StreamGiven'
      BY <2>1, <3>2 DEF SessionInv, StreamGiven, Named
    <3> QED  BY <2>2, <3>3, <3>4, <3>5 DEF SessionInv, Served
  <2> QED  BY <2>1, <2>3, <2>4
<1> QED  BY <1>1, <1>2

---------------------------------------------------------------------------
LEMMA NextSessionInv == SessionInv /\ [SessionNext]_sessionVars => SessionInv'
<1> SUFFICES ASSUME SessionInv, [SessionNext]_sessionVars PROVE SessionInv'
  OBVIOUS
<1>1. CASE ClientSteps
  <2>1. Typed' /\ Counted' /\ AllTold' /\ StreamGiven'
    BY <1>1, StartDialKeeps, HandshakeReadKeeps, WriteCommandKeeps, ReadRespMsgKeeps, ReadRespEndsKeeps
       DEF ClientSteps
  <2>2. Served'
    BY <1>1, ClientServed
  <2> QED  BY <2>1, <2>2 DEF SessionInv, Served
<1>2. CASE ServerSteps
  BY <1>2, HandshakeKeeps, ReadMsgKeeps, AdmitKeeps DEF ServerSteps
<1>3. CASE ForeignClient \/ ForeignServer
  BY <1>3, ForeignKeeps
<1>4. CASE UNCHANGED sessionVars
  BY <1>4 DEF sessionVars, SessionInv, Typed, AppConnected, LastCommand, Admitted, Counted, AllTold,
              StreamGiven, Named
<1> QED  BY <1>1, <1>2, <1>3, <1>4 DEF SessionNext

LEMMA InitSessionInv == SessionInit => SessionInv
<1> SUFFICES ASSUME SessionInit PROVE SessionInv
  OBVIOUS
<1>1. Typed
  BY InitTyped
<1>2. sv.app = "none" /\ sv.pc \in {"none", "accept", "foreign"} /\ (smode = "client" => sv.pc = "foreign")
  BY DEF SessionInit
<1>3. AppConnected /\ LastCommand /\ Admitted
  BY <1>2 DEF AppConnected, LastCommand, Admitted
<1>4. cl.transID = 1 /\ cl.ret = "none" /\ cl.pc \in {"foreign", "dial"} /\ s2c = <<>>
  BY DEF SessionInit
<1>5. Counted /\ AllTold /\ StreamGiven
  BY <1>2, <1>4 DEF Counted, AllTold, StreamGiven
<1> QED  BY <1>1, <1>3, <1>5 DEF SessionInv

LEMMA InductiveSession == SessionSpec => []SessionInv
<1> QED  BY InitSessionInv, NextSessionInv, PTL DEF SessionSpec

\* Whatever a peer says and in whatever order: a connection is served only
\* after a connect with a configured application, in the role of its last
\* command and under the channel of its key (handleConn), and the client
\* publishes or plays on the stream that the answer to createStream named
\* (readRespMsg).
THEOREM SessionIsSafe == SessionSpec => []SessionSafe
<1>1. SessionInv => AdmittedProperly
  BY SessionAssumption DEF SessionInv, Typed, Admitted, AppConnected, LastCommand, AdmittedProperly
<1>2. SessionInv => StreamOfAnswer
  BY DEF SessionInv, Counted, StreamGiven, Named, StreamOfAnswer
<1> QED  BY <1>1, <1>2, InductiveSession, PTL DEF SessionSafe

---------------------------------------------------------------------------
(* The chunk stream.  Types.                                               *)

Stamps == 0 .. Wrap - 1
Csids == PeerCsids \cup {2, 6}
Keys == {KeyOf(c) : c \in PeerCsids} \cup {2, 6}
Tokens == [t : {"h", "x", "d"}, fmt : 0 .. 3, csid : Nat, ts : Nat, len : Nat, type : Types \cup {"none"}]
Streams == [fmt : 0 .. 3, ts : Nat, delta : Nat, ext : BOOLEAN, len : Nat, type : Types, remain : Nat,
            got : BOOLEAN, data : Seq(Tokens)]
Sends == [ts : Stamps, delta : Stamps, field : Stamps, len : Nat, type : Types \cup {"none"}, id : Nat, left : Nat]
Sent == [by : {"peer"} \cup Goroutines, csid : Csids, ts : Stamps, len : Nat, type : Types, val : Nat \ {0}]
Reads == [csid : Csids, ts : Nat, len : Nat, type : Types, data : Seq(Tokens)]

\* What is on the wire: a unit belongs to a message, a control message has one.
Sound(k, n) ==
    /\ k.t = "d" => k.csid \in 1 .. n
    /\ k.t = "h" => k.csid \in Csids
    /\ k.t = "h" /\ k.fmt < 2 => k.type \in Types /\ (k.type # "media" => k.len = 1)

ChunkTypes ==
    /\ outSize \in Nat \ {0} /\ inSize \in Nat \ {0} /\ window \in Nat \ {0}
    /\ msgs \in Seq(Sent) /\ read \in Seq(Reads) /\ wire \in Seq(Tokens)
    /\ sending \in [PeerCsids -> Sends] /\ chunks \in [Keys -> Streams]
    /\ ackReceived \in Nat /\ acked \in Nat
    /\ broken \in BOOLEAN /\ mixed \in BOOLEAN /\ longDelta \in BOOLEAN

\* The entries of conn.chunks have as much data as they say.
Filled(s, n) ==
    /\ Len(s.data) + s.remain = s.len
    /\ s.type # "media" => s.len = 1
    /\ \A i \in 1 .. Len(s.data) : s.data[i].t = "d" /\ s.data[i].csid \in 1 .. n

ChunkShape ==
    /\ ChunkTypes
    /\ \A i \in 1 .. Len(wire) : Sound(wire[i], Len(msgs))
    /\ \A k \in Keys : Filled(chunks[k], Len(msgs))

LEMMA TokensJoined ==
    ASSUME NEW a \in Seq(Tokens), NEW b \in Seq(Tokens)
    PROVE  /\ a \o b \in Seq(Tokens) /\ Len(a \o b) = Len(a) + Len(b)
           /\ \A i \in 1 .. Len(a) + Len(b) : (a \o b)[i] = IF i <= Len(a) THEN a[i] ELSE b[i - Len(a)]
OBVIOUS

LEMMA KeyOfType == ASSUME NEW c \in Csids PROVE KeyOf(c) \in Keys
BY DEF Keys, Csids, KeyOf

LEMMA PeerKeyType == ASSUME NEW c \in PeerCsids PROVE c \in Csids /\ KeyOf(c) \in Keys
BY DEF Keys, Csids

---------------------------------------------------------------------------
(* readChunk.                                                              *)

ExtOf(cs, h, rest) ==
    IF h.fmt # 3 THEN h.ts = Max24
    ELSE IF cs.remain = 0 THEN cs.ext
    ELSE cs.ext /\ rest # <<>> /\ rest[1].t = "x" /\ rest[1].ts = cs.ts
TimeOf(h, rest, ext) == IF ext /\ rest # <<>> THEN rest[1].ts ELSE h.ts

\* The entry after a header: a new message in format 0 to 2, a new message in
\* format 3, or the next chunk of the same.
HeaderGives(cs, h, r, ext, t) ==
    /\ r.used = IF ext THEN 1 ELSE 0
    /\ h.fmt # 3 =>
         r.cs = [fmt |-> h.fmt, ts |-> NewTime(cs, t, h.fmt), delta |-> IF h.fmt = 0 THEN cs.delta ELSE t,
                 ext |-> ext, len |-> IF h.fmt < 2 THEN h.len ELSE cs.len,
                 type |-> IF h.fmt < 2 THEN h.type ELSE cs.type,
                 remain |-> IF h.fmt < 2 THEN h.len ELSE cs.len, got |-> FALSE, data |-> <<>>]
    /\ h.fmt = 3 /\ cs.remain # 0 => r.cs = cs
    /\ h.fmt = 3 /\ cs.remain = 0 =>
         r.cs = [cs EXCEPT !.ts = IF cs.fmt = 0 THEN (IF ext THEN t ELSE cs.ts)
                                  ELSE NewTime(cs, IF ext THEN t ELSE cs.delta, cs.fmt),
                           !.got = FALSE, !.remain = cs.len, !.data = <<>>]

LEMMA HeaderRead ==
    ASSUME NEW cs \in Streams, NEW h \in Tokens, NEW rest \in Seq(Tokens)
    PROVE  HeaderGives(cs, h, ReadHeader(cs, h, rest), ExtOf(cs, h, rest), TimeOf(h, rest, ExtOf(cs, h, rest)))
<1> DEFINE ext == ExtOf(cs, h, rest)
           t == TimeOf(h, rest, ext)
           lt == IF h.fmt < 2 THEN [cs EXCEPT !.len = h.len, !.type = h.type] ELSE cs
           new == [lt EXCEPT !.fmt = h.fmt, !.ext = ext, !.ts = NewTime(cs, t, h.fmt),
                             !.delta = IF h.fmt = 0 THEN @ ELSE t]
           r == ReadHeader(cs, h, rest)
<1>1. r = [used |-> IF ext THEN 1 ELSE 0,
           cs |-> IF h.fmt # 3 THEN Started(new)
                  ELSE IF cs.remain # 0 THEN cs
                  ELSE IF cs.fmt = 0 THEN Started([cs EXCEPT !.ts = IF ext THEN t ELSE @])
                  ELSE Started([cs EXCEPT !.ts = NewTime(cs, IF ext THEN t ELSE cs.delta, cs.fmt)])]
  BY DEF ReadHeader, ExtOf, TimeOf
<1> HIDE DEF ext, t, r
<1>2. h.fmt # 3 => r.cs = Started(new)
  BY <1>1
<1>3. h.fmt # 3 =>
        Started(new) = [fmt |-> h.fmt, ts |-> NewTime(cs, t, h.fmt), delta |-> IF h.fmt = 0 THEN cs.delta ELSE t,
                        ext |-> ext, len |-> IF h.fmt < 2 THEN h.len ELSE cs.len,
                        type |-> IF h.fmt < 2 THEN h.type ELSE cs.type,
                        remain |-> IF h.fmt < 2 THEN h.len ELSE cs.len, got |-> FALSE, data |-> <<>>]
  <2> DEFINE nt == NewTime(cs, t, h.fmt)
             dl == IF h.fmt = 0 THEN cs.delta ELSE t
             l == IF h.fmt < 2 THEN h.len ELSE cs.len
             y == IF h.fmt < 2 THEN h.type ELSE cs.type
  <2>1. cs = [fmt |-> cs.fmt, ts |-> cs.ts, delta |-> cs.delta, ext |-> cs.ext, len |-> cs.len, type |-> cs.type,
              remain |-> cs.remain, got |-> cs.got, data |-> cs.data]
    BY DEF Streams
  <2>2. lt = [fmt |-> cs.fmt, ts |-> cs.ts, delta |-> cs.delta, ext |-> cs.ext,
              len |-> l, type |-> y,
              remain |-> cs.remain, got |-> cs.got, data |-> cs.data]
    <3>1. CASE h.fmt < 2
      BY <2>1, <3>1
    <3>2. CASE ~(h.fmt < 2)
      BY <2>1, <3>2
    <3> QED BY <3>1, <3>2
  <2>3. new = [lt EXCEPT !.fmt = h.fmt, !.ext = ext, !.ts = nt, !.delta = dl]
    BY <2>2
  <2> HIDE DEF new, lt, nt, dl, l, y
  <2>4. new = [fmt |-> h.fmt, ts |-> nt, delta |-> dl, ext |-> ext,
               len |-> l, type |-> y,
               remain |-> cs.remain, got |-> cs.got, data |-> cs.data]
    BY <2>2, <2>3
  <2>5. Started(new) = [new EXCEPT !.got = FALSE, !.remain = new.len, !.data = <<>>]
    BY DEF Started
  <2>6. Started(new) = [fmt |-> h.fmt, ts |-> nt, delta |-> dl, ext |-> ext,
                        len |-> l, type |-> y,
                        remain |-> l, got |-> FALSE, data |-> <<>>]
    BY <2>4, <2>5
  <2> QED BY <2>6 DEF nt, dl, l, y
<1>4. h.fmt = 3 /\ cs.remain = 0 =>
        r.cs = [cs EXCEPT !.ts = IF cs.fmt = 0 THEN (IF ext THEN t ELSE cs.ts)
                                 ELSE NewTime(cs, IF ext THEN t ELSE cs.delta, cs.fmt),
                          !.got = FALSE, !.remain = cs.len, !.data = <<>>]
  BY <1>1 DEF Started, Streams
<1>5. HeaderGives(cs, h, r, ext, t)
  BY <1>1, <1>2, <1>3, <1>4 DEF HeaderGives
<1> QED BY <1>5 DEF r, ext, t

\* A chunk of a peer, and an entry that is as full as it says, give one.
LEMMA HeaderShape ==
    ASSUME NEW cs \in Streams, NEW h \in Tokens, NEW rest \in Seq(Tokens), NEW n \in Nat,
           Filled(cs, n), Sound(h, n), h.t = "h"
    PROVE  LET r == ReadHeader(cs, h, rest) IN r.used \in {0, 1} /\ r.cs \in Streams /\ Filled(r.cs, n)
<1> USE ChunkAssumption
<1> DEFINE r == ReadHeader(cs, h, rest)
           ext == ExtOf(cs, h, rest)
           t == TimeOf(h, rest, ext)
<1>1. /\ r.used = IF ext THEN 1 ELSE 0
      /\ h.fmt # 3 =>
           r.cs = [fmt |-> h.fmt, ts |-> NewTime(cs, t, h.fmt), delta |-> IF h.fmt = 0 THEN cs.delta ELSE t,
                   ext |-> ext, len |-> IF h.fmt < 2 THEN h.len ELSE cs.len,
                   type |-> IF h.fmt < 2 THEN h.type ELSE cs.type,
                   remain |-> IF h.fmt < 2 THEN h.len ELSE cs.len, got |-> FALSE, data |-> <<>>]
      /\ h.fmt = 3 /\ cs.remain # 0 => r.cs = cs
      /\ h.fmt = 3 /\ cs.remain = 0 =>
           r.cs = [cs EXCEPT !.ts = IF cs.fmt = 0 THEN (IF ext THEN t ELSE cs.ts)
                                    ELSE NewTime(cs, IF ext THEN t ELSE cs.delta, cs.fmt),
                             !.got = FALSE, !.remain = cs.len, !.data = <<>>]
  <2>1. HeaderGives(cs, h, r, ext, t)
    BY HeaderRead
  <2> HIDE DEF r, ext, t
  <2> QED BY <2>1 DEF HeaderGives
<1>2. ext \in BOOLEAN
  BY DEF ExtOf, Streams
<1>3. t \in Nat
  <2>1. h.ts \in Nat
    BY DEF Tokens
  <2>2. rest # <<>> => rest[1] \in Tokens
    OBVIOUS
  <2> QED BY <2>1, <2>2 DEF TimeOf, Tokens
<1> HIDE DEF r, ext, t
<1>4. \A d \in Nat, f \in 0 .. 3 : NewTime(cs, d, f) \in Nat
  <2>1. cs.ts \in Nat
    BY DEF Streams
  <2>2. \A a \in Nat : a % Wrap \in Nat
    OBVIOUS
  <2> DEFINE u == cs.ts
  <2>3. \A d \in Nat : (u + d) % Wrap \in Nat
    <3>1. u \in Nat
      BY <2>1
    <3> HIDE DEF u
    <3>2. \A d \in Nat : u + d \in Nat
      BY <3>1
    <3> QED BY <2>2, <3>2
  <2> QED BY <2>3 DEF NewTime
<1>5. Len(<<>>) = 0 /\ <<>> \in Seq(Tokens)
  OBVIOUS
<1>6. CASE h.fmt # 3
  <2> DEFINE nt == NewTime(cs, t, h.fmt)
  <2>1. nt \in Nat /\ h.fmt \in 0 .. 3 /\ h.len \in Nat
    BY <1>3, <1>4 DEF Tokens
  <2>2. h.fmt < 2 => h.type \in Types /\ (h.type # "media" => h.len = 1)
    BY DEF Sound
  <2>3. cs.len \in Nat /\ cs.type \in Types /\ cs.delta \in Nat /\ (cs.type # "media" => cs.len = 1)
    BY DEF Streams, Filled
  <2> DEFINE l == IF h.fmt < 2 THEN h.len ELSE cs.len
             y == IF h.fmt < 2 THEN h.type ELSE cs.type
             dl == IF h.fmt = 0 THEN cs.delta ELSE t
  <2>4. l \in Nat /\ y \in Types /\ (y # "media" => l = 1) /\ dl \in Nat
    BY <1>3, <2>1, <2>2, <2>3
  <2>5. r.cs = [fmt |-> h.fmt, ts |-> nt, delta |-> dl, ext |-> ext, len |-> l, type |-> y, remain |-> l,
                got |-> FALSE, data |-> <<>>]
    BY <1>1, <1>6
  <2> HIDE DEF nt, l, y, dl
  <2>6. r.cs \in Streams
    BY <1>2, <1>5, <2>1, <2>4, <2>5 DEF Streams
  <2>7. Filled(r.cs, n)
    BY <1>5, <2>4, <2>5 DEF Filled
  <2> QED BY <1>1, <2>6, <2>7 DEF r
<1>7. CASE h.fmt = 3 /\ cs.remain # 0
  BY <1>1, <1>7 DEF r
<1>8. CASE h.fmt = 3 /\ cs.remain = 0
  <2> DEFINE nt == IF cs.fmt = 0 THEN (IF ext THEN t ELSE cs.ts)
                   ELSE NewTime(cs, IF ext THEN t ELSE cs.delta, cs.fmt)
  <2>1. nt \in Nat
    <3>1. cs.ts \in Nat /\ cs.delta \in Nat /\ cs.fmt \in 0 .. 3
      BY DEF Streams
    <3>2. (IF ext THEN t ELSE cs.delta) \in Nat
      BY <1>3, <3>1
    <3> QED BY <1>3, <1>4, <3>1, <3>2
  <2>2. r.cs = [cs EXCEPT !.ts = nt, !.got = FALSE, !.remain = cs.len, !.data = <<>>]
    BY <1>1, <1>8
  <2> HIDE DEF nt
  <2>3. r.cs \in Streams
    BY <1>5, <2>1, <2>2 DEF Streams
  <2>4. r.cs.len = cs.len /\ r.cs.type = cs.type /\ r.cs.remain = cs.len /\ r.cs.data = <<>> /\ cs.len \in Nat
    BY <2>2 DEF Streams
  <2>5. Filled(r.cs, n)
    BY <1>5, <2>4 DEF Filled
  <2> QED BY <1>1, <2>3, <2>5 DEF r
<1> QED BY <1>6, <1>7, <1>8

\* The parts of ReadChunk.
RdHdr  == ReadHeader(chunks[KeyOf(Head(wire).csid)], Head(wire), Tail(wire))
RdSize == Min2(RdHdr.cs.remain, inSize)
RdBody == SubSeq(wire, 2 + RdHdr.used, Min2(1 + RdHdr.used + RdSize, Len(wire)))
RdNew  == [RdHdr.cs EXCEPT !.remain = @ - RdSize, !.got = (RdHdr.cs.remain = RdSize), !.data = @ \o RdBody]
RdBad  == \/ Head(wire).t # "h" \/ (chunks[KeyOf(Head(wire).csid)].remain # 0 /\ Head(wire).fmt # 3)
          \/ RdHdr.used = 1 /\ Len(wire) > 1 /\ wire[2].t # "x"
          \/ \E i \in 1 .. Len(RdBody) : RdBody[i].t # "d"
RdMsg  == [csid |-> Head(wire).csid, ts |-> RdNew.ts, len |-> RdNew.len, type |-> RdNew.type, data |-> RdNew.data]

LEMMA ReadChunkIs ==
    ReadChunk <=>
      /\ wire # <<>> /\ ~broken
      /\ \/ RdBad /\ broken' = TRUE /\ wire' = <<>>
            /\ UNCHANGED <<chunks, inSize, window, ackReceived, acked, read>>
         \/ /\ ~RdBad /\ Len(wire) >= 1 + RdHdr.used + RdSize
            /\ wire' = SubSeq(wire, 2 + RdHdr.used + RdSize, Len(wire))
            /\ chunks' = [chunks EXCEPT ![KeyOf(Head(wire).csid)] = RdNew]
            /\ \/ RdNew.got /\ HandleControlMsg(RdNew) /\ Ack(RdNew.len) /\ read' = Append(read, RdMsg)
               \/ ~RdNew.got /\ UNCHANGED <<inSize, window, ackReceived, acked, read>>
            /\ UNCHANGED broken
      /\ UNCHANGED <<mode, msgs, sending, outSize, out, mixed, longDelta, torn>>
BY DEF ReadChunk, RdHdr, RdSize, RdBody, RdNew, RdBad, RdMsg

\* The first token and the others.
LEMMA WireParts ==
    ASSUME ChunkShape, wire # <<>>
    PROVE  /\ Head(wire) \in Tokens /\ Tail(wire) \in Seq(Tokens) /\ Sound(Head(wire), Len(msgs))
           /\ Len(wire) \in Nat \ {0} /\ Len(Tail(wire)) = Len(wire) - 1 /\ Head(wire) = wire[1]
           /\ \A i \in 1 .. Len(wire) - 1 : Tail(wire)[i] = wire[i + 1]
<1>1. wire \in Seq(Tokens) /\ \A i \in 1 .. Len(wire) : Sound(wire[i], Len(msgs))
  BY DEF ChunkShape, ChunkTypes
<1>2. Len(wire) \in Nat \ {0} /\ Head(wire) = wire[1] /\ Len(Tail(wire)) = Len(wire) - 1 /\ Tail(wire) \in Seq(Tokens)
  BY <1>1, EmptySeq
<1>3. wire[1] \in Tokens /\ Sound(wire[1], Len(msgs))
  BY <1>1, <1>2, ElementOfSeq
<1>4. \A i \in 1 .. Len(wire) - 1 : Tail(wire)[i] = wire[i + 1]
  BY <1>1, <1>2
<1> QED BY <1>2, <1>3, <1>4

LEMMA HdrShape ==
    ASSUME ChunkShape, wire # <<>>, Head(wire).t = "h"
    PROVE  /\ Head(wire).csid \in Csids /\ KeyOf(Head(wire).csid) \in Keys
           /\ RdHdr.used \in {0, 1} /\ RdHdr.cs \in Streams /\ Filled(RdHdr.cs, Len(msgs))
           /\ RdSize \in Nat /\ RdSize <= RdHdr.cs.remain /\ RdHdr.cs.remain \in Nat
<1> DEFINE h == Head(wire)
           cs == chunks[KeyOf(h.csid)]
           n == Len(msgs)
<1>1. h \in Tokens /\ Tail(wire) \in Seq(Tokens) /\ Sound(h, n) /\ h.t = "h"
  BY WireParts
<1>2. h.csid \in Csids /\ KeyOf(h.csid) \in Keys
  BY <1>1, KeyOfType DEF Sound
<1>3. cs \in Streams /\ Filled(cs, n) /\ n \in Nat
  BY <1>2 DEF ChunkShape, ChunkTypes
<1>4. RdHdr = ReadHeader(cs, h, Tail(wire))
  BY DEF RdHdr
<1> HIDE DEF h, cs, n
<1>5. RdHdr.used \in {0, 1} /\ RdHdr.cs \in Streams /\ Filled(RdHdr.cs, n)
  BY <1>1, <1>3, <1>4, HeaderShape
<1>6. RdHdr.cs.remain \in Nat /\ inSize \in Nat
  BY <1>5 DEF Streams, ChunkShape, ChunkTypes
<1>7. RdSize \in Nat /\ RdSize <= RdHdr.cs.remain
  BY <1>6 DEF RdSize, Min2
<1> QED BY <1>2, <1>5, <1>6, <1>7 DEF h, n

\* A chunk that is there is taken off the wire.
LEMMA RdShape ==
    ASSUME ChunkShape, wire # <<>>, ~RdBad, Len(wire) >= 1 + RdHdr.used + RdSize
    PROVE  /\ RdNew \in Streams /\ Filled(RdNew, Len(msgs))
           /\ RdNew = [RdHdr.cs EXCEPT !.remain = RdHdr.cs.remain - RdSize, !.got = (RdHdr.cs.remain = RdSize),
                                       !.data = RdHdr.cs.data \o RdBody]
           /\ RdBody \in Seq(Tokens) /\ Len(RdBody) = RdSize
           /\ \A i \in 1 .. RdSize : RdBody[i] = wire[1 + RdHdr.used + i]
           /\ LET rest == SubSeq(wire, 2 + RdHdr.used + RdSize, Len(wire))
              IN rest \in Seq(Tokens) /\ \A i \in 1 .. Len(rest) : Sound(rest[i], Len(msgs))
<1> DEFINE u == RdHdr.used
           z == RdSize
           r == RdHdr.cs
           b == RdBody
           n == Len(msgs)
           w == Len(wire)
<1>1. Head(wire).t = "h"
  BY DEF RdBad
<1>2. u \in {0, 1} /\ r \in Streams /\ Filled(r, n) /\ z \in Nat /\ z <= r.remain /\ r.remain \in Nat
  BY <1>1, HdrShape
<1>3. wire \in Seq(Tokens) /\ w \in Nat /\ w >= 1 + u + z /\ \A i \in 1 .. w : wire[i] \in Tokens /\ Sound(wire[i], n)
  <2>1. wire \in Seq(Tokens) /\ \A i \in 1 .. w : Sound(wire[i], n)
    BY DEF ChunkShape, ChunkTypes
  <2>2. \A i \in 1 .. w : wire[i] \in Tokens
    BY <2>1, ElementOfSeq
  <2> QED BY <2>1, <2>2
<1>4. b = SubSeq(wire, 2 + u, 1 + u + z)
  <2>1. Min2(1 + u + z, w) = 1 + u + z
    <3> HIDE DEF u, z, w
    <3> QED BY <1>2, <1>3 DEF Min2
  <2>2. b = SubSeq(wire, 2 + u, Min2(1 + u + z, w))
    BY DEF RdBody
  <2> HIDE DEF u, z, b, w
  <2> QED BY <2>1, <2>2
<1>5. \A i \in 1 .. Len(b) : b[i].t = "d"
  BY DEF RdBad
<1>6. RdNew = [r EXCEPT !.remain = r.remain - z, !.got = (r.remain = z), !.data = r.data \o b]
  BY <1>2 DEF RdNew, Streams
<1> HIDE DEF u, z, r, b, n, w
<1>7. b \in Seq(Tokens) /\ Len(b) = z /\ \A i \in 1 .. z : b[i] = wire[1 + u + i]
  <2>1. 2 + u \in 1 .. w + 1 /\ 1 + u + z \in 0 .. w /\ w = Len(wire)
    BY <1>2, <1>3 DEF w
  <2>2. b \in Seq(Tokens) /\ Len(b) = z
    BY <1>2, <1>3, <1>4, <2>1
  <2>3. \A i \in 1 .. z : b[i] = wire[1 + u + i]
    BY <1>2, <1>3, <1>4, <2>1
  <2> QED BY <2>2, <2>3
<1>8. \A i \in 1 .. z : b[i].t = "d" /\ b[i].csid \in 1 .. n
  <2> SUFFICES ASSUME NEW i \in 1 .. z PROVE b[i].t = "d" /\ b[i].csid \in 1 .. n
    OBVIOUS
  <2>1. 1 + u + i \in 1 .. w
    BY <1>2, <1>3
  <2>2. Sound(b[i], n) /\ b[i].t = "d"
    BY <1>3, <1>5, <1>7, <2>1
  <2> QED BY <2>2 DEF Sound
<1>9. r.data \in Seq(Tokens) /\ Len(r.data) \in Nat
  BY <1>2 DEF Streams
<1> DEFINE d == r.data \o b
<1>10. /\ d \in Seq(Tokens) /\ Len(d) = Len(r.data) + z
       /\ \A i \in 1 .. Len(r.data) + z : d[i] = IF i <= Len(r.data) THEN r.data[i] ELSE b[i - Len(r.data)]
  <2> DEFINE a == r.data
  <2> HIDE DEF a
  <2>1. a \o b \in Seq(Tokens) /\ Len(a \o b) = Len(a) + Len(b)
        /\ \A i \in 1 .. Len(a) + Len(b) : (a \o b)[i] = IF i <= Len(a) THEN a[i] ELSE b[i - Len(a)]
    <3>1. a \in Seq(Tokens)
      BY <1>9 DEF a
    <3> QED BY <1>7, <3>1, TokensJoined
  <2> QED BY <1>7, <2>1 DEF a
<1>11. RdNew \in Streams
  <2>1. r.remain - z \in Nat
    BY <1>2
  <2> HIDE DEF d
  <2> QED BY <1>2, <1>6, <1>10, <2>1 DEF Streams, d
<1>12. Filled(RdNew, n)
  <2>1. RdNew.data = d /\ RdNew.remain = r.remain - z /\ RdNew.len = r.len /\ RdNew.type = r.type
    BY <1>2, <1>6 DEF Streams
  <2> HIDE DEF d
  <2>2. Len(r.data) + r.remain = r.len /\ (r.type # "media" => r.len = 1)
        /\ \A i \in 1 .. Len(r.data) : r.data[i].t = "d" /\ r.data[i].csid \in 1 .. n
    BY <1>2 DEF Filled
  <2>3. Len(d) + (r.remain - z) = r.len
    BY <1>2, <1>9, <1>10, <2>2
  <2>4. ASSUME NEW i \in 1 .. Len(d) PROVE d[i].t = "d" /\ d[i].csid \in 1 .. n
    <3>1. i \in 1 .. Len(r.data) + z
      BY <1>10
    <3>2. CASE i <= Len(r.data)
      <4>1. i \in 1 .. Len(r.data) /\ d[i] = r.data[i]
        BY <1>9, <1>10, <3>1, <3>2
      <4> QED BY <2>2, <4>1
    <3>3. CASE ~(i <= Len(r.data))
      <4>1. i - Len(r.data) \in 1 .. z /\ d[i] = b[i - Len(r.data)]
        BY <1>2, <1>9, <1>10, <3>1, <3>3
      <4> QED BY <1>8, <4>1
    <3> QED BY <3>2, <3>3
  <2> QED BY <2>1, <2>2, <2>3, <2>4 DEF Filled
<1> DEFINE rest == SubSeq(wire, 2 + u + z, w)
<1>13. rest \in Seq(Tokens) /\ \A i \in 1 .. Len(rest) : Sound(rest[i], n)
  <2>1. 2 + u + z \in 1 .. w + 1 /\ w \in 0 .. w /\ w = Len(wire)
    BY <1>2, <1>3 DEF w
  <2>2. rest \in Seq(Tokens) /\ Len(rest) = w - 1 - u - z
    BY <1>2, <1>3, <2>1
  <2>3. ASSUME NEW i \in 1 .. w - 1 - u - z PROVE rest[i] = wire[1 + u + z + i] /\ 1 + u + z + i \in 1 .. w
    BY <1>2, <1>3, <2>1
  <2> HIDE DEF rest
  <2> QED BY <1>3, <2>2, <2>3
<1> QED BY <1>6, <1>7, <1>11, <1>12, <1>13 DEF u, z, r, b, n, w, rest

---------------------------------------------------------------------------
(* The bytes of the messages read.                                         *)

\* Induction over the naturals.  What is to be proved is given as the set of
\* those for which it holds.
LEMMA NaturalsAll ==
    ASSUME NEW G \in SUBSET Nat, 0 \in G, \A n \in G : n + 1 \in G
    PROVE  G = Nat
<1> DEFINE R == OpToRel(<, Nat)
           T == Nat \ G
<1>1. IsWellFoundedOn(R, Nat)
  BY NatLessThanWellFounded
<1>2. SUFFICES ASSUME T # {} PROVE FALSE
  OBVIOUS
<1>3. PICK x \in T : \A y \in T : ~ (<<y, x>> \in R)
  <2> HIDE DEF R
  <2>1. T \in SUBSET Nat
    OBVIOUS
  <2> HIDE DEF T
  <2> QED BY <1>1, <1>2, <2>1, WFMin
<1>4. x \in Nat /\ x # 0 /\ x \notin G
  OBVIOUS
<1>5. x - 1 \in Nat /\ x - 1 < x /\ (x - 1) + 1 = x
  BY <1>4
<1>6. x - 1 \in T
  BY <1>4, <1>5
<1>7. <<x - 1, x>> \in R
  BY <1>4, <1>5 DEF OpToRel
<1> QED BY <1>3, <1>6, <1>7

\* The function in the definition of Total: f[i] counts the first i messages.
Sums(r, f, n) == f = [i \in 0 .. n |-> IF i = 0 THEN 0 ELSE f[i - 1] + r[i].len]

LEMMA SumsExists ==
    ASSUME NEW r, NEW n \in Nat
    PROVE  \E f : Sums(r, f, n)
<1> DEFINE G == {k \in Nat : \E f : Sums(r, f, k)}
<1>1. 0 \in G
  <2> DEFINE f == [i \in 0 .. 0 |-> 0]
  <2>1. Sums(r, f, 0)
    BY DEF Sums
  <2> QED BY <2>1
<1>2. ASSUME NEW k \in G PROVE k + 1 \in G
  <2>1. k \in Nat
    OBVIOUS
  <2>2. PICK f : Sums(r, f, k)
    OBVIOUS
  <2> DEFINE last == f[k] + r[k + 1].len
             g == [i \in 0 .. k + 1 |-> IF i = k + 1 THEN last ELSE f[i]]
  <2>3. \A i \in 0 .. k : g[i] = f[i]
    BY <2>1
  <2>4. g[k + 1] = last
    BY <2>1
  <2>5. ASSUME NEW i \in 0 .. k + 1
        PROVE g[i] = IF i = 0 THEN 0 ELSE g[i - 1] + r[i].len
    <3> HIDE DEF g
    <3>1. CASE i = k + 1
      <4>1. i - 1 = k /\ k \in 0 .. k /\ i # 0
        BY <2>1, <3>1
      <4> QED BY <2>3, <2>4, <3>1, <4>1
    <3>2. CASE i # k + 1
      <4>1. i \in 0 .. k /\ (i # 0 => i - 1 \in 0 .. k)
        BY <2>1, <3>2
      <4>2. f[i] = IF i = 0 THEN 0 ELSE f[i - 1] + r[i].len
        BY <2>2, <4>1 DEF Sums
      <4> QED BY <2>3, <4>1, <4>2
    <3> QED BY <3>1, <3>2
  <2>6. Sums(r, g, k + 1)
    <3>1. g = [i \in 0 .. k + 1 |-> g[i]]
      OBVIOUS
    <3> HIDE DEF g
    <3> QED BY <2>5, <3>1 DEF Sums
  <2> HIDE DEF g
  <2> QED BY <2>1, <2>6
<1>3. G = Nat
  <2>1. G \in SUBSET Nat
    OBVIOUS
  <2> HIDE DEF G
  <2> QED BY <1>1, <1>2, <2>1, NaturalsAll
<1> QED BY <1>3

LEMMA TotalIs ==
    ASSUME NEW r, Len(r) \in Nat
    PROVE  \E f : Sums(r, f, Len(r)) /\ Total(r) = f[Len(r)]
<1> DEFINE f == CHOOSE f : Sums(r, f, Len(r))
<1>1. Sums(r, f, Len(r))
  BY SumsExists
<1>2. Total(r) = f[Len(r)]
  BY DEF Total, Sums
<1> QED BY <1>1, <1>2

AgreeUpTo(r, s, m) == \A i \in 1 .. m : r[i] = s[i]

LEMMA SumsSame ==
    ASSUME NEW r, NEW s, NEW f, NEW g, NEW m \in Nat, NEW n,
           Sums(r, f, m), Sums(s, g, n), n = m + 1, AgreeUpTo(r, s, m)
    PROVE  f[m] = g[m]
<1> DEFINE G == {k \in Nat : k <= m => f[k] = g[k]}
<1>0. /\ \A i \in 0 .. m : f[i] = IF i = 0 THEN 0 ELSE f[i - 1] + r[i].len
      /\ \A i \in 0 .. m + 1 : g[i] = IF i = 0 THEN 0 ELSE g[i - 1] + s[i].len
  BY DEF Sums
<1>1. 0 \in G
  BY <1>0
<1>2. ASSUME NEW k \in G PROVE k + 1 \in G
  <2> SUFFICES ASSUME k + 1 <= m PROVE f[k + 1] = g[k + 1]
    OBVIOUS
  <2>1. k \in Nat /\ k <= m /\ k + 1 \in 0 .. m /\ k + 1 \in 0 .. m + 1 /\ k + 1 \in 1 .. m /\ (k + 1) - 1 = k /\ k + 1 # 0
    OBVIOUS
  <2>2. f[k] = g[k] /\ r[k + 1] = s[k + 1]
    BY <2>1 DEF AgreeUpTo
  <2> QED BY <1>0, <2>1, <2>2
<1>3. G = Nat
  <2>1. G \in SUBSET Nat
    OBVIOUS
  <2> HIDE DEF G
  <2> QED BY <1>1, <1>2, <2>1, NaturalsAll
<1> QED BY <1>3

LEMMA TotalEmpty == Total(<<>>) = 0
<1>1. Len(<<>>) = 0
  OBVIOUS
<1>2. PICK f : Sums(<<>>, f, 0) /\ Total(<<>>) = f[0]
  BY <1>1, TotalIs
<1> QED BY <1>2 DEF Sums

LEMMA TotalAppend ==
    ASSUME NEW r \in Seq(Reads), NEW x \in Reads
    PROVE  Total(Append(r, x)) = Total(r) + x.len
<1> DEFINE s == Append(r, x)
           n == Len(r)
<1>1. n \in Nat /\ Len(s) = n + 1 /\ s[n + 1] = x /\ \A i \in 1 .. n : r[i] = s[i]
  BY AppendProperties
<1> HIDE DEF s
<1>2. PICK f : Sums(r, f, n) /\ Total(r) = f[n]
  BY <1>1, TotalIs
<1>3. PICK g : Sums(s, g, Len(s)) /\ Total(s) = g[Len(s)]
  <2>1. Len(s) \in Nat
    BY <1>1
  <2> QED BY <1>1, <2>1, TotalIs
<1> HIDE DEF n
<1>4. n + 1 \in 0 .. n + 1 /\ n + 1 # 0 /\ (n + 1) - 1 = n
  BY <1>1
<1>5. f[n] = g[n]
  <2>1. AgreeUpTo(r, s, n)
    BY <1>1 DEF AgreeUpTo
  <2> QED BY <1>1, <1>2, <1>3, <2>1, SumsSame
<1>6. g[n + 1] = g[(n + 1) - 1] + s[n + 1].len
  BY <1>1, <1>3, <1>4 DEF Sums
<1> QED BY <1>1, <1>2, <1>3, <1>4, <1>5, <1>6 DEF s

---------------------------------------------------------------------------
(* The types and the acknowledgements, step by step.                       *)

\* handleControlMsg and ack, when a message is complete.
LEMMA ReadCompleteShape ==
    ASSUME ChunkShape, AckedOnce, NEW cs \in Streams, Filled(cs, Len(msgs)), cs.remain = 0,
           HandleControlMsg(cs), Ack(cs.len), NEW m \in Reads, m.len = cs.len, read' = Append(read, m)
    PROVE  /\ inSize' \in Nat \ {0} /\ window' \in Nat \ {0} /\ ackReceived' \in Nat /\ acked' \in Nat
           /\ read' \in Seq(Reads) /\ AckedOnce'
<1>1. inSize \in Nat \ {0} /\ window \in Nat \ {0} /\ msgs \in Seq(Sent) /\ read \in Seq(Reads) /\ ackReceived \in Nat /\ acked \in Nat
  BY DEF ChunkShape, ChunkTypes
<1>2. cs.len \in Nat /\ cs.data \in Seq(Tokens)
  BY DEF Streams
<1>3. ASSUME cs.type # "media" PROVE msgs[cs.data[1].csid].val \in Nat \ {0}
  <2>1. Len(cs.data) = 1
    <3>1. Len(cs.data) + cs.remain = cs.len /\ cs.len = 1
      BY <1>3 DEF Filled
    <3>2. Len(cs.data) \in Nat
      BY <1>2
    <3> QED BY <3>1, <3>2
  <2>2. cs.data[1].csid \in 1 .. Len(msgs)
    BY <2>1 DEF Filled
  <2>3. msgs[cs.data[1].csid] \in Sent
    BY <1>1, <2>2, ElementOfSeq
  <2> QED BY <2>3 DEF Sent
<1>4. inSize' \in Nat \ {0} /\ window' \in Nat \ {0}
  BY <1>1, <1>3 DEF HandleControlMsg
<1>5. read' \in Seq(Reads) /\ Total(read') = Total(read) + m.len
  BY <1>1, TotalAppend, AppendProperties
<1>6. acked + ackReceived = Total(read)
  BY DEF AckedOnce
<1>7. ackReceived' \in Nat /\ acked' \in Nat /\ acked' + ackReceived' = acked + ackReceived + cs.len /\ ackReceived' < window'
  <2>1. CASE ackReceived + cs.len >= window'
    <3>1. acked' = acked + ackReceived + cs.len /\ ackReceived' = 0
      BY <2>1 DEF Ack
    <3> QED BY <1>1, <1>2, <1>4, <3>1
  <2>2. CASE ~(ackReceived + cs.len >= window')
    <3>1. ackReceived' = ackReceived + cs.len /\ acked' = acked
      BY <2>2 DEF Ack
    <3>2. \A a, b, n, w \in Nat : ~(a + n >= w) => a + n \in Nat /\ b + (a + n) = b + a + n /\ a + n < w
      OBVIOUS
    <3>3. ackReceived \in Nat /\ acked \in Nat /\ cs.len \in Nat /\ window' \in Nat
      BY <1>1, <1>2, <1>4
    <3> QED BY <2>2, <3>1, <3>2, <3>3
  <2> QED BY <2>1, <2>2
<1>8. acked' + ackReceived' = Total(read')
  BY <1>1, <1>2, <1>5, <1>6, <1>7
<1> QED BY <1>4, <1>5, <1>7, <1>8 DEF AckedOnce

LEMMA ReadShape ==
    ASSUME ChunkShape, AckedOnce, ReadChunk
    PROVE  ChunkShape' /\ AckedOnce'
<1> DEFINE key == KeyOf(Head(wire).csid)
<1>1. wire # <<>> /\ UNCHANGED <<mode, msgs, sending, outSize, out, mixed, longDelta, torn>>
  BY ReadChunkIs
<1>2. CASE broken' = TRUE /\ wire' = <<>> /\ UNCHANGED <<chunks, inSize, window, ackReceived, acked, read>>
  <2>1. wire' \in Seq(Tokens) /\ Len(wire') = 0
    BY <1>2
  <2>2. ChunkTypes'
    BY <1>1, <1>2, <2>1 DEF ChunkShape, ChunkTypes
  <2> QED BY <1>1, <1>2, <2>1, <2>2 DEF ChunkShape, AckedOnce
<1>3. CASE /\ ~RdBad /\ Len(wire) >= 1 + RdHdr.used + RdSize
           /\ wire' = SubSeq(wire, 2 + RdHdr.used + RdSize, Len(wire))
           /\ chunks' = [chunks EXCEPT ![key] = RdNew]
           /\ \/ RdNew.got /\ HandleControlMsg(RdNew) /\ Ack(RdNew.len) /\ read' = Append(read, RdMsg)
              \/ ~RdNew.got /\ UNCHANGED <<inSize, window, ackReceived, acked, read>>
           /\ UNCHANGED broken
  <2>1. /\ RdNew \in Streams /\ Filled(RdNew, Len(msgs))
        /\ RdNew = [RdHdr.cs EXCEPT !.remain = RdHdr.cs.remain - RdSize, !.got = (RdHdr.cs.remain = RdSize),
                                    !.data = RdHdr.cs.data \o RdBody]
        /\ LET rest == SubSeq(wire, 2 + RdHdr.used + RdSize, Len(wire))
           IN rest \in Seq(Tokens) /\ \A i \in 1 .. Len(rest) : Sound(rest[i], Len(msgs))
    BY <1>1, <1>3, RdShape
  <2>2. Head(wire).csid \in Csids /\ key \in Keys /\ RdHdr.cs \in Streams /\ RdSize \in Nat /\ RdHdr.cs.remain \in Nat
    BY <1>1, <1>3, HdrShape DEF RdBad
  <2>3. wire' \in Seq(Tokens) /\ \A i \in 1 .. Len(wire') : Sound(wire'[i], Len(msgs'))
    BY <1>1, <1>3, <2>1
  <2> HIDE DEF key
  <2>4. chunks' \in [Keys -> Streams] /\ \A k \in Keys : Filled(chunks'[k], Len(msgs'))
    <3>1. chunks \in [Keys -> Streams] /\ \A k \in Keys : Filled(chunks[k], Len(msgs))
      BY DEF ChunkShape, ChunkTypes
    <3> QED BY <1>1, <1>3, <2>1, <2>2, <3>1
  <2>5. /\ inSize' \in Nat \ {0} /\ window' \in Nat \ {0} /\ ackReceived' \in Nat /\ acked' \in Nat
        /\ read' \in Seq(Reads) /\ AckedOnce'
    <3>1. CASE RdNew.got /\ HandleControlMsg(RdNew) /\ Ack(RdNew.len) /\ read' = Append(read, RdMsg)
      <4>1. RdNew.remain = 0
        <5>1. RdNew.got = (RdHdr.cs.remain = RdSize) /\ RdNew.remain = RdHdr.cs.remain - RdSize
          BY <2>1, <2>2 DEF Streams
        <5>2. RdHdr.cs.remain = RdSize
          BY <3>1, <5>1, Zenon
        <5> QED BY <2>2, <5>1, <5>2
      <4>2. RdMsg \in Reads /\ RdMsg.len = RdNew.len
        BY <2>1, <2>2 DEF RdMsg, Reads, Streams
      <4> QED BY <2>1, <3>1, <4>1, <4>2, ReadCompleteShape
    <3>2. CASE ~RdNew.got /\ UNCHANGED <<inSize, window, ackReceived, acked, read>>
      BY <3>2 DEF ChunkShape, ChunkTypes, AckedOnce
    <3> QED BY <1>3, <3>1, <3>2
  <2>6. ChunkTypes'
    BY <1>1, <1>3, <2>3, <2>4, <2>5 DEF ChunkShape, ChunkTypes
  <2> QED BY <2>3, <2>4, <2>5, <2>6 DEF ChunkShape
<1> QED BY <1>2, <1>3, ReadChunkIs

\* A chunk: a header, the extended timestamp if there is one, and its units.
Chunk(w, h, f, m, from, n) ==
    LET e == IF f >= Max24 THEN 1 ELSE 0 IN
    /\ w \in Seq(Tokens) /\ Len(w) = 1 + e + n /\ w[1] = h /\ w # <<>>
    /\ e = 1 => w[2] = Ext(f)
    /\ \A i \in 1 .. n : w[1 + e + i] = Unit(m, from + i)

LEMMA ChunkOnWire ==
    ASSUME NEW h \in Tokens, NEW f \in Nat, NEW m \in Nat, NEW from \in Nat, NEW n \in Nat
    PROVE  Chunk(<<>> \o <<h>> \o ExtField(f) \o Units(m, from, n), h, f, m, from, n)
<1> USE ChunkAssumption
<1> DEFINE e == IF f >= Max24 THEN 1 ELSE 0
           a == <<>> \o <<h>>
           x == ExtField(f)
           b == Units(m, from, n)
           w == a \o x \o b
<1>1. a \in Seq(Tokens) /\ Len(a) = 1 /\ a[1] = h
  <2>1. a = <<h>>
    OBVIOUS
  <2> QED BY <2>1
<1>2. x \in Seq(Tokens) /\ Len(x) = e /\ (e = 1 => x[1] = Ext(f)) /\ e \in {0, 1}
  <2>1. Ext(f) \in Tokens
    BY DEF Ext, Tokens
  <2> QED BY <2>1 DEF ExtField
<1>3. b \in Seq(Tokens) /\ Len(b) = n /\ \A i \in 1 .. n : b[i] = Unit(m, from + i)
  <2>1. \A i \in 1 .. n : Unit(m, from + i) \in Tokens
    BY DEF Unit, Tokens
  <2>2. b \in [1 .. n -> Tokens]
    BY <2>1 DEF Units
  <2>3. b \in Seq(Tokens) /\ Len(b) = n
    BY <2>2
  <2> QED BY <2>3 DEF Units
<1> HIDE DEF a, x, b, e
<1>4. /\ a \o x \in Seq(Tokens) /\ Len(a \o x) = Len(a) + Len(x)
      /\ \A i \in 1 .. Len(a) + Len(x) : (a \o x)[i] = IF i <= Len(a) THEN a[i] ELSE x[i - Len(a)]
  BY <1>1, <1>2, TokensJoined
<1> DEFINE ax == a \o x
<1> HIDE DEF ax
<1>5. /\ ax \o b \in Seq(Tokens) /\ Len(ax \o b) = Len(ax) + Len(b)
      /\ \A i \in 1 .. Len(ax) + Len(b) : (ax \o b)[i] = IF i <= Len(ax) THEN ax[i] ELSE b[i - Len(ax)]
  BY <1>3, <1>4, TokensJoined DEF ax
<1>6. ax \in Seq(Tokens) /\ Len(ax) = 1 + e /\ ax[1] = h /\ (e = 1 => ax[2] = Ext(f))
  BY <1>1, <1>2, <1>4 DEF ax
<1>7. w = ax \o b
  BY DEF ax
<1> HIDE DEF w
<1>8. w \in Seq(Tokens) /\ Len(w) = 1 + e + n
  BY <1>2, <1>3, <1>5, <1>6, <1>7
<1>9. w[1] = h /\ (e = 1 => w[2] = Ext(f))
  BY <1>2, <1>3, <1>5, <1>6, <1>7
<1>10. ASSUME NEW i \in 1 .. n PROVE w[1 + e + i] = Unit(m, from + i)
  <2>1. 1 + e + i \in 1 .. Len(ax) + Len(b) /\ ~(1 + e + i <= Len(ax)) /\ (1 + e + i) - Len(ax) = i
    BY <1>2, <1>3, <1>6
  <2> QED BY <1>3, <1>5, <1>7, <2>1
<1>11. w # <<>>
  BY <1>2, <1>8
<1> QED BY <1>8, <1>9, <1>10, <1>11 DEF Chunk, e, w, a, x, b

LEMMA ChunkSound ==
    ASSUME NEW w, NEW h \in Tokens, NEW f \in Nat, NEW m \in Nat, NEW from \in Nat, NEW n \in Nat, NEW k \in Nat,
           Chunk(w, h, f, m, from, n), Sound(h, k), m \in 1 .. k
    PROVE  \A i \in 1 .. Len(w) : Sound(w[i], k)
<1> USE ChunkAssumption
<1> DEFINE e == IF f >= Max24 THEN 1 ELSE 0
<1>1. /\ Len(w) = 1 + e + n /\ w[1] = h /\ (e = 1 => w[2] = Ext(f))
      /\ \A i \in 1 .. n : w[1 + e + i] = Unit(m, from + i)
  BY DEF Chunk
<1>2. e \in {0, 1}
  OBVIOUS
<1> HIDE DEF e
<1> SUFFICES ASSUME NEW i \in 1 .. Len(w) PROVE Sound(w[i], k)
  OBVIOUS
<1>3. i = 1 \/ (e = 1 /\ i = 2) \/ i - 1 - e \in 1 .. n
  BY <1>1, <1>2
<1>4. CASE i = 1
  BY <1>1, <1>4
<1>5. CASE e = 1 /\ i = 2
  <2>1. w[i] = Ext(f)
    BY <1>1, <1>5
  <2> QED BY <2>1 DEF Sound, Ext
<1>6. CASE i - 1 - e \in 1 .. n
  <2>1. i = 1 + e + (i - 1 - e)
    BY <1>1, <1>2
  <2>2. w[i] = Unit(m, from + (i - 1 - e))
    BY <1>1, <1>6, <2>1
  <2> QED BY <2>2 DEF Sound, Unit
<1> QED BY <1>3, <1>4, <1>5, <1>6

\* A new message makes what is sound sound still.
LEMMA FilledMore ==
    ASSUME NEW s \in Streams, NEW n \in Nat, Filled(s, n)
    PROVE  Filled(s, n + 1)
BY DEF Filled

\* The parts of PeerStart.
Delta(c, t) == (t - sending[c].ts) % Wrap
StField(c, fmt, t) == IF fmt = 0 THEN t ELSE IF fmt = 3 THEN sending[c].field ELSE Delta(c, t)
NewSend(c, fmt, t, n, type) ==
    [ts |-> t, delta |-> IF fmt = 0 THEN 0 ELSE Delta(c, t), field |-> StField(c, fmt, t), len |-> n, type |-> type,
     id |-> Len(msgs) + 1, left |-> n - Min2(n, outSize)]
NewHead(c, fmt, t, n, type) == Header(fmt, c, Field(StField(c, fmt, t)), n, type)

Starts(c, fmt, t, n, type) ==
    /\ mode = "peer" /\ wire = <<>> /\ ~broken /\ sending[c].left = 0
    /\ type # "media" => n = 1
    /\ fmt > 0 => sending[c].type # "none" /\ t >= sending[c].ts
    /\ fmt > 1 => n = sending[c].len /\ type = sending[c].type
    /\ fmt = 3 => Delta(c, t) = sending[c].delta
    /\ wire' = <<>> \o <<NewHead(c, fmt, t, n, type)>> \o ExtField(StField(c, fmt, t))
                 \o Units(Len(msgs) + 1, 0, Min2(n, outSize))
    /\ outSize' \in IF type = "size" THEN ChunkSizes ELSE {outSize}
    /\ \E val \in IF type = "window" THEN Windows ELSE {outSize'} :
         msgs' = Append(msgs, [by |-> "peer", csid |-> c, ts |-> t, len |-> n, type |-> type, val |-> val])
    /\ sending' = [sending EXCEPT ![c] = NewSend(c, fmt, t, n, type)]
    /\ mixed' = (mixed \/ \E d \in PeerCsids : d # c /\ KeyOf(d) = KeyOf(c) /\ sending[d].type # "none")
    /\ longDelta' = (longDelta \/ (fmt # 0 /\ Delta(c, t) >= Max24 /\ Min2(n, outSize) < n))
    /\ UNCHANGED <<mode, out, readerVars, torn>>

LEMMA StartIs ==
    ASSUME NEW c, NEW fmt, NEW t, NEW n, NEW type, PeerStart(c, fmt, t, n, type)
    PROVE  Starts(c, fmt, t, n, type)
BY DEF Starts, PeerStart, Delta, StField, NewSend, NewHead

StartFacts(c, fmt, t, n, type) ==
    /\ t \in Stamps /\ n \in Nat /\ Delta(c, t) \in Stamps /\ StField(c, fmt, t) \in Stamps /\ Stamps \subseteq Nat
    /\ Min2(n, outSize) \in 0 .. n /\ NewSend(c, fmt, t, n, type) \in Sends
    /\ NewHead(c, fmt, t, n, type) \in Tokens /\ Sound(NewHead(c, fmt, t, n, type), Len(msgs) + 1)
    /\ Len(msgs) \in Nat /\ outSize' \in Nat \ {0}
    /\ \E val \in Nat \ {0} :
         msgs' = Append(msgs, [by |-> "peer", csid |-> c, ts |-> t, len |-> n, type |-> type, val |-> val])
         /\ (type = "size" => val = outSize')
    /\ msgs' \in Seq(Sent) /\ Len(msgs') = Len(msgs) + 1
    /\ Chunk(wire', NewHead(c, fmt, t, n, type), StField(c, fmt, t), Len(msgs) + 1, 0, Min2(n, outSize))

LEMMA StartTypes ==
    ASSUME ChunkShape, NEW c \in PeerCsids, NEW fmt \in 0 .. 3, NEW t \in Times, NEW n \in Lengths, NEW type \in Types,
           PeerStart(c, fmt, t, n, type)
    PROVE  StartFacts(c, fmt, t, n, type)
<1> USE ChunkAssumption
<1>0. Starts(c, fmt, t, n, type)
  BY StartIs
<1>1. t \in Stamps /\ n \in Nat /\ Stamps \subseteq Nat /\ 0 \in Stamps /\ c \in Nat
  BY DEF Stamps
<1>2. sending[c] \in Sends /\ outSize \in Nat \ {0} /\ msgs \in Seq(Sent)
  BY DEF ChunkShape, ChunkTypes
<1>3. Delta(c, t) \in Stamps
  <2>1. t - sending[c].ts \in Int
    <3>1. t \in Int /\ sending[c].ts \in Stamps
      BY <1>1, <1>2 DEF Sends
    <3> QED BY <3>1 DEF Stamps
  <2>2. \A a \in Int : a % Wrap \in 0 .. Wrap - 1
    OBVIOUS
  <2> QED BY <2>1, <2>2 DEF Delta, Stamps
<1>4. StField(c, fmt, t) \in Stamps
  BY <1>1, <1>2, <1>3 DEF StField, Sends
<1>5. Min2(n, outSize) \in 0 .. n
  BY <1>1, <1>2 DEF Min2
<1>6. Len(msgs) \in Nat
  BY <1>2
<1>7. NewSend(c, fmt, t, n, type) \in Sends
  <2>1. n - Min2(n, outSize) \in Nat
    BY <1>1, <1>5
  <2>2. (IF fmt = 0 THEN 0 ELSE Delta(c, t)) \in Stamps
    BY <1>1, <1>3
  <2> QED BY <1>1, <1>4, <1>6, <2>1, <2>2 DEF NewSend, Sends
<1>8. NewHead(c, fmt, t, n, type) \in Tokens
  <2>1. Field(StField(c, fmt, t)) \in Nat
    BY <1>1, <1>4 DEF Field, Min2
  <2> QED BY <1>1, <2>1 DEF NewHead, Header, Tokens
<1>9. Sound(NewHead(c, fmt, t, n, type), Len(msgs) + 1)
  <2>1. type # "media" => n = 1
    BY <1>0 DEF Starts
  <2> QED BY <2>1, PeerKeyType DEF NewHead, Header, Sound
<1>10. outSize' \in Nat \ {0}
  BY <1>0, <1>2 DEF Starts
<1>11. \E val \in Nat \ {0} :
         msgs' = Append(msgs, [by |-> "peer", csid |-> c, ts |-> t, len |-> n, type |-> type, val |-> val])
         /\ (type = "size" => val = outSize')
  <2>1. PICK val \in IF type = "window" THEN Windows ELSE {outSize'} :
          msgs' = Append(msgs, [by |-> "peer", csid |-> c, ts |-> t, len |-> n, type |-> type, val |-> val])
    BY <1>0 DEF Starts
  <2>2. val \in Nat \ {0} /\ (type = "size" => val = outSize')
    BY <1>10, <2>1
  <2> QED BY <2>1, <2>2
<1>12. msgs' \in Seq(Sent) /\ Len(msgs') = Len(msgs) + 1
  <2>1. PICK val \in Nat \ {0} :
          msgs' = Append(msgs, [by |-> "peer", csid |-> c, ts |-> t, len |-> n, type |-> type, val |-> val])
          /\ (type = "size" => val = outSize')
    BY <1>11
  <2>2. [by |-> "peer", csid |-> c, ts |-> t, len |-> n, type |-> type, val |-> val] \in Sent
    BY <1>1, PeerKeyType DEF Sent
  <2> DEFINE m == [by |-> "peer", csid |-> c, ts |-> t, len |-> n, type |-> type, val |-> val]
  <2> HIDE DEF m
  <2>3. msgs' = Append(msgs, m) /\ m \in Sent
    BY <2>1, <2>2 DEF m
  <2> QED BY <1>2, <2>3, AppendProperties
<1>13. Chunk(wire', NewHead(c, fmt, t, n, type), StField(c, fmt, t), Len(msgs) + 1, 0, Min2(n, outSize))
  <2>1. StField(c, fmt, t) \in Nat /\ Len(msgs) + 1 \in Nat /\ 0 \in Nat /\ Min2(n, outSize) \in Nat
    <3>1. StField(c, fmt, t) \in Nat
      BY <1>1, <1>4
    <3>2. Min2(n, outSize) \in Nat
      BY <1>5
    <3> QED BY <1>6, <3>1, <3>2
  <2>2. wire' = <<>> \o <<NewHead(c, fmt, t, n, type)>> \o ExtField(StField(c, fmt, t))
                  \o Units(Len(msgs) + 1, 0, Min2(n, outSize))
    BY <1>0 DEF Starts
  <2> QED BY <1>8, <2>1, <2>2, ChunkOnWire
<1> QED BY <1>1, <1>3, <1>4, <1>5, <1>6, <1>7, <1>8, <1>9, <1>10, <1>11, <1>12, <1>13 DEF StartFacts

LEMMA StartShape ==
    ASSUME ChunkShape, AckedOnce, NEW c \in PeerCsids, NEW fmt \in 0 .. 3, NEW t \in Times, NEW n \in Lengths, NEW type \in Types,
           PeerStart(c, fmt, t, n, type)
    PROVE  ChunkShape' /\ AckedOnce'
<1> DEFINE h == NewHead(c, fmt, t, n, type)
           f == StField(c, fmt, t)
           k == Len(msgs) + 1
           z == Min2(n, outSize)
<1>1. Starts(c, fmt, t, n, type) /\ StartFacts(c, fmt, t, n, type)
  BY StartIs, StartTypes
<1>2. UNCHANGED <<mode, out, readerVars, torn>>
  BY <1>1 DEF Starts
<1>3. h \in Tokens /\ Sound(h, k) /\ f \in Nat /\ k \in Nat /\ z \in Nat /\ 0 \in Nat /\ Len(msgs) \in Nat /\ k \in 1 .. k
  <2>1. h \in Tokens /\ Sound(h, k) /\ f \in Nat /\ Len(msgs) \in Nat /\ z \in 0 .. n /\ n \in Nat
    BY <1>1 DEF StartFacts
  <2> QED BY <2>1
<1>4. Chunk(wire', h, f, k, 0, z) /\ Len(msgs') = k /\ msgs' \in Seq(Sent) /\ outSize' \in Nat \ {0}
  BY <1>1 DEF StartFacts
<1> HIDE DEF h, f, k, z
<1>5. wire' \in Seq(Tokens) /\ \A i \in 1 .. Len(wire') : Sound(wire'[i], Len(msgs'))
  <2>1. \A i \in 1 .. Len(wire') : Sound(wire'[i], k)
    BY <1>3, <1>4, ChunkSound
  <2> QED BY <1>4, <2>1 DEF Chunk
<1>6. sending' \in [PeerCsids -> Sends]
  <2>1. sending \in [PeerCsids -> Sends] /\ NewSend(c, fmt, t, n, type) \in Sends
        /\ sending' = [sending EXCEPT ![c] = NewSend(c, fmt, t, n, type)]
    BY <1>1 DEF ChunkShape, ChunkTypes, StartFacts, Starts
  <2> QED BY <2>1
<1>7. mixed' \in BOOLEAN /\ longDelta' \in BOOLEAN
  BY <1>1 DEF Starts
<1>8. \A j \in Keys : Filled(chunks'[j], Len(msgs'))
  <2>1. \A j \in Keys : chunks[j] \in Streams /\ Filled(chunks[j], Len(msgs))
    BY DEF ChunkShape, ChunkTypes
  <2>2. \A j \in Keys : Filled(chunks[j], Len(msgs) + 1)
    BY <1>3, <2>1, FilledMore
  <2> QED BY <1>2, <1>4, <2>2 DEF readerVars, k
<1>9. ChunkTypes'
  BY <1>2, <1>4, <1>5, <1>6, <1>7 DEF ChunkShape, ChunkTypes, readerVars
<1> QED BY <1>2, <1>5, <1>8, <1>9 DEF ChunkShape, AckedOnce, readerVars

\* The parts of PeerContinue.
ContHead(c) == Header(3, c, 0, 0, "none")
Continues(c) ==
    /\ mode = "peer" /\ wire = <<>> /\ ~broken /\ sending[c].left > 0
    /\ wire' = <<>> \o <<ContHead(c)>> \o ExtField(sending[c].field)
                 \o Units(sending[c].id, sending[c].len - sending[c].left, Min2(sending[c].left, outSize))
    /\ sending' = [sending EXCEPT ![c].left = @ - Min2(sending[c].left, outSize)]
    /\ UNCHANGED <<mode, msgs, outSize, out, readerVars, mixed, longDelta, torn>>

LEMMA ContinueIs == ASSUME NEW c, PeerContinue(c) PROVE Continues(c)
BY DEF Continues, PeerContinue, ContHead

\* What the peer knows of a chunk stream is its last message.
Made ==
    \A c \in PeerCsids :
        LET d == sending[c] IN
        /\ d.type = "none" => d.left = 0
        /\ d.type # "none" =>
             /\ d.left <= d.len /\ d.id \in 1 .. Len(msgs)
             /\ msgs[d.id].csid = c /\ msgs[d.id].ts = d.ts /\ msgs[d.id].len = d.len /\ msgs[d.id].type = d.type

ContFacts(c) ==
    /\ sending[c] \in Sends /\ sending[c].id \in 1 .. Len(msgs) /\ Len(msgs) \in Nat
    /\ Min2(sending[c].left, outSize) \in 1 .. sending[c].left
    /\ sending[c].len - sending[c].left \in Nat
    /\ ContHead(c) \in Tokens /\ Sound(ContHead(c), Len(msgs))
    /\ Chunk(wire', ContHead(c), sending[c].field, sending[c].id, sending[c].len - sending[c].left,
             Min2(sending[c].left, outSize))

LEMMA ContinueTypes ==
    ASSUME ChunkShape, Made, NEW c \in PeerCsids, PeerContinue(c)
    PROVE  ContFacts(c)
<1> USE ChunkAssumption
<1>0. Continues(c)
  BY ContinueIs
<1>1. sending[c] \in Sends /\ outSize \in Nat \ {0} /\ Len(msgs) \in Nat /\ c \in Nat
  BY DEF ChunkShape, ChunkTypes
<1>2. sending[c].left > 0 /\ sending[c].left <= sending[c].len /\ sending[c].id \in 1 .. Len(msgs)
  <2>1. sending[c].left > 0
    BY <1>0 DEF Continues
  <2> QED BY <2>1 DEF Made
<1>3. sending[c].left \in Nat /\ sending[c].len \in Nat /\ sending[c].id \in Nat /\ sending[c].field \in Nat
  <2>1. sending[c].field \in Stamps /\ sending[c].left \in Nat /\ sending[c].len \in Nat /\ sending[c].id \in Nat
    BY <1>1 DEF Sends
  <2> QED BY <2>1 DEF Stamps
<1>4. Min2(sending[c].left, outSize) \in 1 .. sending[c].left /\ sending[c].len - sending[c].left \in Nat
  BY <1>1, <1>2, <1>3 DEF Min2
<1>5. ContHead(c) \in Tokens /\ Sound(ContHead(c), Len(msgs))
  BY <1>1, PeerKeyType DEF ContHead, Header, Tokens, Sound
<1>6. Chunk(wire', ContHead(c), sending[c].field, sending[c].id, sending[c].len - sending[c].left,
            Min2(sending[c].left, outSize))
  <2>1. Min2(sending[c].left, outSize) \in Nat
    BY <1>4
  <2>2. wire' = <<>> \o <<ContHead(c)>> \o ExtField(sending[c].field)
                  \o Units(sending[c].id, sending[c].len - sending[c].left, Min2(sending[c].left, outSize))
    BY <1>0 DEF Continues
  <2> QED BY <1>3, <1>4, <1>5, <2>1, <2>2, ChunkOnWire
<1> QED BY <1>1, <1>2, <1>4, <1>5, <1>6 DEF ContFacts

LEMMA ContinueShape ==
    ASSUME ChunkShape, AckedOnce, Made, NEW c \in PeerCsids, PeerContinue(c)
    PROVE  ChunkShape' /\ AckedOnce'
<1> DEFINE h == ContHead(c)
           f == sending[c].field
           m == sending[c].id
           from == sending[c].len - sending[c].left
           z == Min2(sending[c].left, outSize)
           k == Len(msgs)
<1>1. Continues(c) /\ ContFacts(c)
  BY ContinueIs, ContinueTypes
<1>2. UNCHANGED <<mode, msgs, outSize, out, readerVars, mixed, longDelta, torn>>
  BY <1>1 DEF Continues
<1>3. h \in Tokens /\ Sound(h, k) /\ f \in Nat /\ m \in Nat /\ from \in Nat /\ z \in Nat /\ k \in Nat /\ m \in 1 .. k
  <2>1. h \in Tokens /\ Sound(h, k) /\ from \in Nat /\ k \in Nat /\ m \in 1 .. k /\ z \in 1 .. sending[c].left
        /\ sending[c] \in Sends
    BY <1>1 DEF ContFacts
  <2>2. sending[c].field \in Stamps /\ sending[c].left \in Nat
    BY <2>1 DEF Sends
  <2> HIDE DEF from, z
  <2> QED BY <2>1, <2>2, ChunkAssumption DEF Stamps
<1>4. Chunk(wire', h, f, m, from, z)
  BY <1>1 DEF ContFacts
<1>5. sending' \in [PeerCsids -> Sends]
  <2>1. sending \in [PeerCsids -> Sends] /\ sending' = [sending EXCEPT ![c].left = @ - z]
    BY <1>1 DEF ChunkShape, ChunkTypes, Continues
  <2>2. sending[c] \in Sends /\ z \in 1 .. sending[c].left
    BY <1>1 DEF ContFacts
  <2> HIDE DEF z
  <2>3. sending[c].left - z \in Nat
    BY <2>2 DEF Sends
  <2>4. [sending[c] EXCEPT !.left = @ - z] \in Sends
    BY <2>2, <2>3 DEF Sends
  <2> QED BY <2>1, <2>4
<1> HIDE DEF h, f, m, from, z, k
<1>6. wire' \in Seq(Tokens) /\ \A i \in 1 .. Len(wire') : Sound(wire'[i], Len(msgs'))
  <2>1. \A i \in 1 .. Len(wire') : Sound(wire'[i], k)
    BY <1>3, <1>4, ChunkSound
  <2> QED BY <1>2, <1>4, <2>1 DEF Chunk, k
<1>7. ChunkTypes'
  BY <1>2, <1>5, <1>6 DEF ChunkShape, ChunkTypes, readerVars
<1> QED BY <1>2, <1>6, <1>7 DEF ChunkShape, AckedOnce, readerVars

---------------------------------------------------------------------------
(* The two ends agree.                                                     *)

\* An entry and what the peer knows of its chunk stream, when the units that
\* are still to be read are n.  After format 0 the timestamp is what was sent.
Agrees(cs, s, n) ==
    /\ cs.ts = s.ts /\ cs.len = s.len /\ cs.type = s.type /\ cs.remain = n /\ n <= s.len
    /\ cs.ext <=> s.field >= Max24
    /\ cs.data = Units(s.id, 0, s.len - n)
    /\ cs.fmt = 0 => s.delta = 0 /\ s.field = s.ts
    /\ cs.fmt # 0 => cs.delta = s.delta /\ s.field = s.delta

\* Timestamps come back from their deltas.
LEMMA DeltaBack ==
    ASSUME NEW t \in Stamps, NEW u \in Stamps, t >= u
    PROVE  (t - u) % Wrap = t - u /\ (u + ((t - u) % Wrap)) % Wrap = t
<1>1. Wrap \in Nat \ {0} /\ t \in 0 .. Wrap - 1 /\ u \in 0 .. Wrap - 1
  BY ChunkAssumption DEF Stamps
<1>2. t - u \in 0 .. Wrap - 1 /\ u + (t - u) = t
  BY <1>1
<1>3. \A a \in 0 .. Wrap - 1 : a % Wrap = a
  BY <1>1
<1> QED BY <1>1, <1>2, <1>3

\* The first token after a chunk's header.
LEMMA ChunkNextToken ==
    ASSUME NEW w, NEW h, NEW f \in Nat, NEW m, NEW from, NEW z \in Nat, Chunk(w, h, f, m, from, z)
    PROVE  /\ Head(w) = h /\ Tail(w) \in Seq(Tokens)
           /\ f >= Max24 => Tail(w) # <<>> /\ Tail(w)[1] = Ext(f)
<1>1. w \in Seq(Tokens) /\ w # <<>> /\ w[1] = h
  BY DEF Chunk
<1>2. Head(w) = h /\ Tail(w) \in Seq(Tokens)
  BY <1>1
<1>3. ASSUME f >= Max24 PROVE Tail(w) # <<>> /\ Tail(w)[1] = Ext(f)
  <2>1. Len(w) = 2 + z /\ w[2] = Ext(f)
    BY <1>3 DEF Chunk
  <2>2. Len(Tail(w)) = 1 + z /\ Tail(w)[1] = w[2]
    BY <1>1, <2>1
  <2>3. Len(<<>>) = 0 /\ 1 + z # 0
    OBVIOUS
  <2> QED BY <2>1, <2>2, <2>3
<1> QED BY <1>2, <1>3

StartOf(fmt, s, t) == IF fmt = 0 THEN t ELSE IF fmt = 3 THEN s.field ELSE (t - s.ts) % Wrap

LEMMA StartAgrees ==
    ASSUME NEW cs \in Streams, NEW s \in Sends, NEW fmt \in 0 .. 3, NEW t \in Stamps, NEW n \in Nat, NEW type \in Types,
           NEW c, NEW id \in Nat, NEW z \in Nat, NEW w,
           NEW dl, dl = (t - s.ts) % Wrap, NEW f \in Nat, f = StartOf(fmt, s, t),
           NEW h \in Tokens, h = Header(fmt, c, Field(f), n, type),
           NEW s2, s2 = [ts |-> t, delta |-> IF fmt = 0 THEN 0 ELSE dl, field |-> f, len |-> n, type |-> type,
                         id |-> id, left |-> n - z],
           Chunk(w, h, f, id, 0, z), cs.remain = 0,
           fmt > 0 => Agrees(cs, s, 0) /\ t >= s.ts,
           fmt > 1 => n = s.len /\ type = s.type,
           fmt = 3 => dl = s.delta
    PROVE  /\ ReadHeader(cs, h, Tail(w)).used = IF f >= Max24 THEN 1 ELSE 0
           /\ Agrees(ReadHeader(cs, h, Tail(w)).cs, s2, n)
           /\ f >= Max24 => f = t \/ (fmt # 0 /\ dl >= Max24)
<1> USE ChunkAssumption
<1> DEFINE rest == Tail(w)
           r == ReadHeader(cs, h, rest)
           ext == ExtOf(cs, h, rest)
           u == TimeOf(h, rest, ext)
<1>1. rest \in Seq(Tokens) /\ (f >= Max24 => rest # <<>> /\ rest[1] = Ext(f))
  BY ChunkNextToken
<1>2. HeaderGives(cs, h, r, ext, u)
  BY <1>1, HeaderRead
<1>3. h.fmt = fmt /\ h.ts = Field(f) /\ h.len = n /\ h.type = type
  BY DEF Header
<1>4. Field(f) = Max24 <=> f >= Max24
  BY DEF Field, Min2
<1>5. ~(f >= Max24) => Field(f) = f
  BY DEF Field, Min2
<1>6. Ext(f).ts = f
  BY DEF Ext
<1>7. ext <=> f >= Max24
  <2>1. CASE fmt # 3
    BY <1>3, <1>4, <2>1 DEF ExtOf
  <2>2. CASE fmt = 3
    <3>1. f = s.field /\ (cs.ext <=> s.field >= Max24)
      BY <2>2 DEF StartOf, Agrees
    <3>2. ext = cs.ext
      BY <1>3, <2>2 DEF ExtOf
    <3> QED BY <3>1, <3>2
  <2> QED BY <2>1, <2>2
<1> HIDE DEF rest, r, ext
<1>8. (ext => u = f) /\ (~ext => u = h.ts)
  BY <1>1, <1>6, <1>7 DEF TimeOf
<1>9. fmt # 3 => u = f
  BY <1>3, <1>5, <1>7, <1>8
<1> HIDE DEF u
<1>10. fmt > 0 => s.ts \in Stamps /\ cs.ts = s.ts /\ dl = t - s.ts /\ (s.ts + dl) % Wrap = t
  <2>1. s.ts \in Stamps
    BY DEF Sends
  <2>2. ASSUME fmt > 0 PROVE dl = t - s.ts /\ (s.ts + dl) % Wrap = t
    <3> DEFINE v == s.ts
    <3>1. v \in Stamps /\ t >= v /\ dl = (t - v) % Wrap
      BY <2>1, <2>2
    <3> HIDE DEF v
    <3>2. (t - v) % Wrap = t - v /\ (v + ((t - v) % Wrap)) % Wrap = t
      BY <3>1, DeltaBack
    <3> QED BY <3>1, <3>2 DEF v
  <2> QED BY <2>1, <2>2 DEF Agrees
<1>11. s2.ts = t /\ s2.delta = (IF fmt = 0 THEN 0 ELSE dl) /\ s2.field = f /\ s2.len = n /\ s2.type = type /\ s2.id = id
  OBVIOUS
<1>12. Units(s2.id, 0, s2.len - n) = <<>>
  <2>1. s2.len - n = 0
    BY <1>11
  <2>2. 1 .. 0 = {}
    OBVIOUS
  <2> QED BY <2>1, <2>2 DEF Units
<1>13. r.used = IF f >= Max24 THEN 1 ELSE 0
  BY <1>2, <1>7 DEF HeaderGives
<1>14. CASE fmt # 3
  <2>1. r.cs = [fmt |-> h.fmt, ts |-> NewTime(cs, u, h.fmt), delta |-> IF h.fmt = 0 THEN cs.delta ELSE u,
                ext |-> ext, len |-> IF h.fmt < 2 THEN h.len ELSE cs.len,
                type |-> IF h.fmt < 2 THEN h.type ELSE cs.type,
                remain |-> IF h.fmt < 2 THEN h.len ELSE cs.len, got |-> FALSE, data |-> <<>>]
    BY <1>2, <1>3, <1>14 DEF HeaderGives
  <2>2. fmt = 2 => cs.len = n /\ cs.type = type
    BY DEF Agrees
  <2>3. r.cs.fmt = fmt /\ r.cs.ts = NewTime(cs, f, fmt) /\ r.cs.len = n /\ r.cs.type = type /\ r.cs.remain = n
        /\ r.cs.data = <<>> /\ r.cs.ext = ext /\ (fmt # 0 => r.cs.delta = f)
    BY <1>3, <1>9, <1>14, <2>1, <2>2
  <2>4. NewTime(cs, f, fmt) = t
    <3>1. CASE fmt = 0
      BY <3>1 DEF NewTime, StartOf
    <3>2. CASE fmt # 0
      <4>1. f = dl
        BY <1>14, <3>2 DEF StartOf
      <4> QED BY <1>10, <3>2, <4>1 DEF NewTime
    <3> QED BY <3>1, <3>2
  <2>5. (fmt = 0 => f = t) /\ (fmt # 0 => f = dl)
    BY <1>14 DEF StartOf
  <2>6. Agrees(r.cs, s2, n)
    BY <1>7, <1>11, <1>12, <2>3, <2>4, <2>5 DEF Agrees
  <2> QED BY <1>13, <2>5, <2>6 DEF r, rest
<1>15. CASE fmt = 3
  <2> DEFINE nt == IF cs.fmt = 0 THEN (IF ext THEN u ELSE cs.ts) ELSE NewTime(cs, IF ext THEN u ELSE cs.delta, cs.fmt)
  <2>1. r.cs = [cs EXCEPT !.ts = nt, !.got = FALSE, !.remain = cs.len, !.data = <<>>]
    BY <1>2, <1>3, <1>15 DEF HeaderGives
  <2>2. /\ f = s.field /\ dl = s.delta /\ cs.ts = s.ts /\ cs.len = s.len /\ cs.type = s.type /\ n = s.len /\ type = s.type
        /\ cs.fmt = 0 => s.delta = 0 /\ s.field = s.ts
        /\ cs.fmt # 0 => cs.delta = s.delta /\ s.field = s.delta
    BY <1>15 DEF Agrees, StartOf
  <2> HIDE DEF nt
  <2>3. r.cs.fmt = cs.fmt /\ r.cs.ts = nt /\ r.cs.delta = cs.delta /\ r.cs.ext = cs.ext /\ r.cs.len = cs.len
        /\ r.cs.type = cs.type /\ r.cs.remain = cs.len /\ r.cs.data = <<>>
    BY <2>1 DEF Streams
  <2>4. cs.fmt = 0 => t = s.ts
    <3>1. t \in Int /\ s.ts \in Int
      BY <1>10, <1>15 DEF Stamps
    <3> QED BY <1>10, <1>15, <2>2, <3>1
  <2>5. nt = t
    <3>1. CASE cs.fmt = 0
      BY <1>8, <2>2, <2>4, <3>1 DEF nt
    <3>2. CASE cs.fmt # 0
      <4>1. (IF ext THEN u ELSE cs.delta) = dl
        BY <1>8, <2>2, <3>2
      <4> QED BY <1>10, <1>15, <2>2, <3>2, <4>1 DEF nt, NewTime
    <3> QED BY <3>1, <3>2
  <2>6. cs.ext <=> f >= Max24
    BY <1>15, <2>2 DEF Agrees
  <2>7. Agrees(r.cs, s2, n)
    <3>1. r.cs.ts = s2.ts /\ r.cs.len = s2.len /\ r.cs.type = s2.type /\ r.cs.remain = n /\ n <= s2.len
      BY <1>11, <2>2, <2>3, <2>5
    <3>2. r.cs.ext <=> s2.field >= Max24
      BY <1>11, <2>3, <2>6
    <3>3. r.cs.data = Units(s2.id, 0, s2.len - n)
      BY <1>12, <2>3
    <3>4. r.cs.fmt = 0 => s2.delta = 0 /\ s2.field = s2.ts
      BY <1>11, <1>15, <2>2, <2>3, <2>4
    <3>5. r.cs.fmt # 0 => r.cs.delta = s2.delta /\ s2.field = s2.delta
      BY <1>11, <1>15, <2>2, <2>3
    <3> QED BY <3>1, <3>2, <3>3, <3>4, <3>5 DEF Agrees
  <2>8. f = t \/ f = dl
    BY <2>2, <2>4
  <2> QED BY <1>13, <1>15, <2>7, <2>8 DEF r, rest
<1> QED BY <1>14, <1>15

\* A chunk on the wire that takes the entry to where the peer is.
Pending(p, z) ==
    LET s == sending[p] IN
    /\ p \in PeerCsids /\ s.type # "none" /\ Head(wire).t = "h" /\ Head(wire).csid = p
    /\ z \in Nat /\ s.left + z <= s.len
    /\ Chunk(wire, Head(wire), s.field, s.id, s.len - (s.left + z), z)
    /\ chunks[KeyOf(p)].remain # 0 => Head(wire).fmt = 3
    /\ z = Min2(s.left + z, inSize)
    /\ RdHdr.used = IF s.field >= Max24 THEN 1 ELSE 0
    /\ Agrees(RdHdr.cs, s, s.left + z)
    /\ s.type # "size" => inSize = outSize
    /\ s.type = "size" => s.left = 0 /\ z = 1 /\ msgs[s.id].val = outSize

\* Data in pieces.
Joins(b, m, a, z) == Units(m, 0, a) \o b = Units(m, 0, a + z)
UnitsFrom(b, m, a, z) == b \in Seq(Tokens) /\ Len(b) = z /\ \A i \in 1 .. z : b[i] = Unit(m, a + i)

LEMMA UnitsJoin ==
    ASSUME NEW m \in Nat, NEW a \in Nat, NEW b, NEW z \in Nat, UnitsFrom(b, m, a, z)
    PROVE  Joins(b, m, a, z)
<1> DEFINE u == Units(m, 0, a)
           v == Units(m, 0, a + z)
<1>0. b \in Seq(Tokens) /\ Len(b) = z /\ \A i \in 1 .. z : b[i] = Unit(m, a + i)
  BY DEF UnitsFrom
<1>1. u \in Seq(Tokens) /\ Len(u) = a /\ \A i \in 1 .. a : u[i] = Unit(m, i)
  <2>1. \A i \in 1 .. a : Unit(m, 0 + i) \in Tokens /\ 0 + i = i
    BY DEF Unit, Tokens
  <2>2. u \in [1 .. a -> Tokens]
    BY <2>1 DEF Units
  <2> QED BY <2>1, <2>2 DEF Units
<1>2. v \in Seq(Tokens) /\ Len(v) = a + z /\ \A i \in 1 .. a + z : v[i] = Unit(m, i)
  <2>1. \A i \in 1 .. a + z : Unit(m, 0 + i) \in Tokens /\ 0 + i = i
    BY DEF Unit, Tokens
  <2>2. v \in [1 .. a + z -> Tokens]
    BY <2>1 DEF Units
  <2>3. v \in Seq(Tokens) /\ Len(v) = a + z
    BY <2>2
  <2> QED BY <2>1, <2>3 DEF Units
<1> HIDE DEF u, v
<1>3. /\ u \o b \in Seq(Tokens) /\ Len(u \o b) = Len(u) + Len(b)
      /\ \A i \in 1 .. Len(u) + Len(b) : (u \o b)[i] = IF i <= Len(u) THEN u[i] ELSE b[i - Len(u)]
  BY <1>0, <1>1, TokensJoined
<1>4. ASSUME NEW i \in 1 .. a + z PROVE (u \o b)[i] = Unit(m, i)
  <2>1. CASE i <= a
    <3>1. i \in 1 .. a
      BY <2>1
    <3> QED BY <1>0, <1>1, <1>3, <2>1, <3>1
  <2>2. CASE ~(i <= a)
    <3>1. i - a \in 1 .. z /\ a + (i - a) = i
      BY <2>2
    <3>2. (u \o b)[i] = b[i - a]
      BY <1>0, <1>1, <1>3, <2>2
    <3> QED BY <1>0, <3>1, <3>2
  <2> QED BY <2>1, <2>2
<1> DEFINE w == u \o b
<1>5. w \in Seq(Tokens) /\ Len(w) = a + z /\ \A i \in 1 .. a + z : w[i] = v[i]
  BY <1>0, <1>1, <1>2, <1>3, <1>4
<1> HIDE DEF w
<1>6. w = v
  BY <1>2, <1>5, SeqEqual
<1> QED BY <1>6 DEF w, u, v, Joins

\* The payload of a chunk.
IsBody(b, w, e, z) == b \in Seq(Tokens) /\ Len(b) = z /\ \A i \in 1 .. z : b[i] = w[1 + e + i]

LEMMA BodyOf ==
    ASSUME NEW w \in Seq(Tokens), NEW e \in {0, 1}, NEW z \in Nat, Len(w) = 1 + e + z
    PROVE  IsBody(SubSeq(w, 2 + e, 1 + e + z), w, e, z)
<1> DEFINE b == SubSeq(w, 2 + e, 1 + e + z)
<1>1. b \in Seq(Tokens) /\ Len(b) = z
  OBVIOUS
<1>2. \A i \in 1 .. z : b[i] = w[1 + e + i]
  OBVIOUS
<1> QED BY <1>1, <1>2 DEF IsBody

\* Such a chunk is read, and nothing stays on the wire.
LEMMA PendingRead ==
    ASSUME ChunkShape, wire # <<>>, NEW p, NEW z, Pending(p, z)
    PROVE  /\ ~RdBad /\ Len(wire) = 1 + RdHdr.used + RdSize /\ RdSize = z
           /\ SubSeq(wire, 2 + RdHdr.used + RdSize, Len(wire)) = <<>>
           /\ RdNew \in Streams /\ Agrees(RdNew, sending[p], sending[p].left)
           /\ RdNew.got <=> sending[p].left = 0
<1> USE ChunkAssumption
<1> DEFINE s == sending[p]
           n == s.left + z
           r == RdHdr.cs
           e == IF s.field >= Max24 THEN 1 ELSE 0
<1>1. /\ p \in PeerCsids /\ Head(wire).t = "h" /\ Head(wire).csid = p /\ z \in Nat /\ n <= s.len
      /\ Chunk(wire, Head(wire), s.field, s.id, s.len - n, z)
      /\ chunks[KeyOf(p)].remain # 0 => Head(wire).fmt = 3
      /\ z = Min2(n, inSize) /\ RdHdr.used = e /\ Agrees(r, s, n)
  BY DEF Pending
<1>2. s \in Sends /\ s.left \in Nat /\ s.len \in Nat /\ s.id \in Nat /\ s.field \in Nat
  <2>1. s \in Sends
    BY <1>1 DEF ChunkShape, ChunkTypes
  <2>2. s.field \in Stamps /\ s.left \in Nat /\ s.len \in Nat /\ s.id \in Nat
    BY <2>1 DEF Sends
  <2> QED BY <2>1, <2>2 DEF Stamps
<1>3. r \in Streams /\ r.remain = n
  BY <1>1, HdrShape DEF Agrees
<1>4. RdSize = z
  BY <1>1, <1>3 DEF RdSize
<1>5. e \in {0, 1}
  OBVIOUS
<1> HIDE DEF s, r, e, n
<1>6. /\ wire \in Seq(Tokens) /\ Len(wire) = 1 + e + z /\ (e = 1 => wire[2] = Ext(s.field))
      /\ \A i \in 1 .. z : wire[1 + e + i] = Unit(s.id, (s.len - n) + i)
  BY <1>1 DEF Chunk, e
<1> DEFINE b == RdBody
<1>7. b = SubSeq(wire, 2 + e, 1 + e + z)
  <2>1. b = SubSeq(wire, 2 + RdHdr.used, Min2(1 + RdHdr.used + RdSize, Len(wire)))
    BY DEF RdBody
  <2>2. Min2(1 + e + z, 1 + e + z) = 1 + e + z
    BY <1>1, <1>5 DEF Min2
  <2> HIDE DEF b
  <2> QED BY <1>1, <1>4, <1>6, <2>1, <2>2
<1> HIDE DEF b
<1>8. b \in Seq(Tokens) /\ Len(b) = z /\ \A i \in 1 .. z : b[i] = Unit(s.id, (s.len - n) + i)
  <2>1. z \in Nat /\ e \in {0, 1} /\ wire \in Seq(Tokens) /\ Len(wire) = 1 + e + z
    BY <1>1, <1>5, <1>6
  <2>2. IsBody(b, wire, e, z)
    BY <1>7, <2>1, BodyOf
  <2>3. b \in Seq(Tokens) /\ Len(b) = z /\ \A i \in 1 .. z : b[i] = wire[1 + e + i]
    BY <2>2 DEF IsBody
  <2> QED BY <1>6, <2>3
<1>9. ~RdBad
  <2>1. \A i \in 1 .. Len(b) : b[i].t = "d"
    BY <1>8 DEF Unit
  <2>2. Ext(s.field).t = "x"
    BY DEF Ext
  <2>3. RdHdr.used = 1 => wire[2].t = "x"
    BY <1>1, <1>6, <2>2
  <2> QED BY <1>1, <2>1, <2>3 DEF RdBad, b
<1>10. Len(wire) = 1 + RdHdr.used + RdSize
  BY <1>1, <1>4, <1>6
<1>11. SubSeq(wire, 2 + RdHdr.used + RdSize, Len(wire)) = <<>>
  <2> DEFINE q == SubSeq(wire, 2 + e + z, 1 + e + z)
  <2>1. q \in Seq(Tokens) /\ Len(q) = 0
    BY <1>1, <1>5, <1>6
  <2>2. q = <<>>
    <3> HIDE DEF q
    <3> QED BY <2>1, EmptySeq
  <2> QED BY <1>1, <1>4, <1>6, <2>2
<1>12. RdNew \in Streams
       /\ RdNew = [r EXCEPT !.remain = r.remain - z, !.got = (r.remain = z), !.data = r.data \o b]
  <2>1. Len(wire) >= 1 + RdHdr.used + RdSize
    BY <1>1, <1>4, <1>5, <1>6
  <2>2. RdNew \in Streams
        /\ RdNew = [RdHdr.cs EXCEPT !.remain = RdHdr.cs.remain - RdSize, !.got = (RdHdr.cs.remain = RdSize),
                                    !.data = RdHdr.cs.data \o RdBody]
    BY <1>9, <2>1, RdShape
  <2> QED BY <1>4, <2>2 DEF r, b
<1>13. /\ RdNew.fmt = r.fmt /\ RdNew.ts = r.ts /\ RdNew.delta = r.delta /\ RdNew.ext = r.ext /\ RdNew.len = r.len
       /\ RdNew.type = r.type /\ RdNew.remain = n - z /\ RdNew.got = (n = z) /\ RdNew.data = r.data \o b
  BY <1>3, <1>12 DEF Streams
<1>14. n - z = s.left /\ (n = z <=> s.left = 0)
  BY <1>1, <1>2 DEF n
<1>15. RdNew.data = Units(s.id, 0, s.len - s.left)
  <2>1. r.data = Units(s.id, 0, s.len - n) /\ s.len - n \in Nat /\ (s.len - n) + z = s.len - s.left
    <3>1. r.data = Units(s.id, 0, s.len - n)
      BY <1>1 DEF Agrees
    <3>2. s.len - n \in Nat /\ (s.len - n) + z = s.len - s.left
      BY <1>1, <1>2 DEF n
    <3> QED BY <3>1, <3>2
  <2> DEFINE a == s.len - n
  <2> HIDE DEF a
  <2>2. a \in Nat /\ \A i \in 1 .. z : b[i] = Unit(s.id, a + i)
    BY <1>8, <2>1 DEF a
  <2>3. Units(s.id, 0, a) \o b = Units(s.id, 0, a + z)
    <3>1. s.id \in Nat /\ z \in Nat /\ UnitsFrom(b, s.id, a, z)
      BY <1>1, <1>2, <1>8, <2>2 DEF UnitsFrom
    <3>2. Joins(b, s.id, a, z)
      BY <2>2, <3>1, UnitsJoin
    <3> QED BY <3>2 DEF Joins
  <2> QED BY <1>13, <2>1, <2>3 DEF a
<1>16. Agrees(RdNew, s, s.left)
  <2>1. /\ r.ts = s.ts /\ r.len = s.len /\ r.type = s.type /\ (r.ext <=> s.field >= Max24)
        /\ r.fmt = 0 => s.delta = 0 /\ s.field = s.ts
        /\ r.fmt # 0 => r.delta = s.delta /\ s.field = s.delta
    BY <1>1 DEF Agrees
  <2>2. s.left <= s.len
    BY <1>1, <1>2 DEF n
  <2> QED BY <1>13, <1>14, <1>15, <2>1, <2>2 DEF Agrees
<1>17. RdNew.got <=> s.left = 0
  BY <1>13, <1>14
<1> QED BY <1>4, <1>9, <1>10, <1>11, <1>12, <1>16, <1>17 DEF s

---------------------------------------------------------------------------
(* The messages and the chunk streams of the peer.                         *)

LEMMA MsgsGrow ==
    ASSUME ChunkShape, NEW c \in PeerCsids, NEW fmt \in 0 .. 3, NEW t \in Times, NEW n \in Lengths, NEW type \in Types,
           PeerStart(c, fmt, t, n, type)
    PROVE  /\ Len(msgs) \in Nat /\ Len(msgs') = Len(msgs) + 1
           /\ \A i \in 1 .. Len(msgs) : msgs'[i] = msgs[i]
           /\ LET m == msgs'[Len(msgs) + 1] IN
              /\ m.by = "peer" /\ m.csid = c /\ m.ts = t /\ m.len = n /\ m.type = type /\ (type = "size" => m.val = outSize')
<1>1. StartFacts(c, fmt, t, n, type)
  BY StartTypes
<1>2. PICK val \in Nat \ {0} :
        msgs' = Append(msgs, [by |-> "peer", csid |-> c, ts |-> t, len |-> n, type |-> type, val |-> val])
        /\ (type = "size" => val = outSize')
  BY <1>1 DEF StartFacts
<1> DEFINE m == [by |-> "peer", csid |-> c, ts |-> t, len |-> n, type |-> type, val |-> val]
<1>3. m \in Sent
  BY <1>1 DEF StartFacts, Sent
<1>4. m.by = "peer" /\ m.csid = c /\ m.ts = t /\ m.len = n /\ m.type = type /\ (type = "size" => m.val = outSize')
  BY <1>2
<1>5. msgs' = Append(msgs, m) /\ msgs \in Seq(Sent)
  BY <1>2 DEF ChunkShape, ChunkTypes
<1> HIDE DEF m
<1>6. Len(msgs) \in Nat /\ Len(msgs') = Len(msgs) + 1 /\ msgs'[Len(msgs) + 1] = m /\ \A i \in 1 .. Len(msgs) : msgs'[i] = msgs[i]
  BY <1>3, <1>5, AppendProperties
<1> QED BY <1>4, <1>6

LEMMA StartSends ==
    ASSUME ChunkShape, NEW c \in PeerCsids, NEW fmt \in 0 .. 3, NEW t \in Times, NEW n \in Lengths, NEW type \in Types,
           PeerStart(c, fmt, t, n, type)
    PROVE  /\ sending'[c] = NewSend(c, fmt, t, n, type)
           /\ \A d \in PeerCsids : d # c => sending'[d] = sending[d]
<1>0. Starts(c, fmt, t, n, type)
  BY StartIs
<1>1. sending' = [sending EXCEPT ![c] = NewSend(c, fmt, t, n, type)]
  BY <1>0 DEF Starts
<1>2. sending \in [PeerCsids -> Sends]
  BY DEF ChunkShape, ChunkTypes
<1> QED BY <1>1, <1>2

LEMMA ContinueSends ==
    ASSUME ChunkShape, NEW c \in PeerCsids, PeerContinue(c)
    PROVE  LET z == Min2(sending[c].left, outSize) IN
           /\ sending'[c] = [sending[c] EXCEPT !.left = sending[c].left - z]
           /\ \A d \in PeerCsids : d # c => sending'[d] = sending[d]
<1>1. sending' = [sending EXCEPT ![c].left = @ - Min2(sending[c].left, outSize)]
  BY ContinueIs DEF Continues
<1>2. sending \in [PeerCsids -> Sends]
  BY DEF ChunkShape, ChunkTypes
<1> QED BY <1>1, <1>2

LEMMA StartMade ==
    ASSUME ChunkShape, Made, NEW c \in PeerCsids, NEW fmt \in 0 .. 3, NEW t \in Times, NEW n \in Lengths, NEW type \in Types,
           PeerStart(c, fmt, t, n, type)
    PROVE  Made'
<1> SUFFICES ASSUME NEW d \in PeerCsids
             PROVE  /\ sending'[d].type = "none" => sending'[d].left = 0
                    /\ sending'[d].type # "none" =>
                         /\ sending'[d].left <= sending'[d].len /\ sending'[d].id \in 1 .. Len(msgs')
                         /\ msgs'[sending'[d].id].csid = d /\ msgs'[sending'[d].id].ts = sending'[d].ts
                         /\ msgs'[sending'[d].id].len = sending'[d].len /\ msgs'[sending'[d].id].type = sending'[d].type
  BY DEF Made
<1>1. /\ Len(msgs) \in Nat /\ Len(msgs') = Len(msgs) + 1
      /\ \A i \in 1 .. Len(msgs) : msgs'[i] = msgs[i]
      /\ LET m == msgs'[Len(msgs) + 1] IN m.csid = c /\ m.ts = t /\ m.len = n /\ m.type = type
  BY MsgsGrow
<1>2. sending'[c] = NewSend(c, fmt, t, n, type) /\ (d # c => sending'[d] = sending[d])
  BY StartSends
<1>3. CASE d = c
  <2>1. n \in Nat /\ Min2(n, outSize) \in 0 .. n
    BY StartTypes DEF StartFacts
  <2>2. sending'[c].id = Len(msgs) + 1 /\ sending'[c].ts = t /\ sending'[c].len = n /\ sending'[c].type = type
        /\ sending'[c].left = n - Min2(n, outSize) /\ type # "none"
    BY <1>2 DEF NewSend, Types
  <2>3. n - Min2(n, outSize) <= n
    BY <2>1
  <2> QED BY <1>1, <1>3, <2>2, <2>3
<1>4. CASE d # c
  <2>1. sending[d].type # "none" => sending[d].id \in 1 .. Len(msgs) /\ sending[d].id \in 1 .. Len(msgs')
    BY <1>1 DEF Made
  <2>2. sending'[d] = sending[d]
    BY <1>2, <1>4
  <2> QED BY <1>1, <2>1, <2>2 DEF Made
<1> QED BY <1>3, <1>4

LEMMA ContinueMade ==
    ASSUME ChunkShape, Made, NEW c \in PeerCsids, PeerContinue(c)
    PROVE  Made'
<1> DEFINE z == Min2(sending[c].left, outSize)
<1>1. Continues(c) /\ ContFacts(c)
  BY ContinueIs, ContinueTypes
<1>2. UNCHANGED msgs /\ sending[c].left > 0
  BY <1>1 DEF Continues
<1>3. sending'[c] = [sending[c] EXCEPT !.left = sending[c].left - z] /\ \A d \in PeerCsids : d # c => sending'[d] = sending[d]
  BY ContinueSends
<1>4. sending[c] \in Sends /\ z \in 1 .. sending[c].left
  BY <1>1 DEF ContFacts
<1> HIDE DEF z
<1>5. /\ sending'[c].left = sending[c].left - z /\ sending'[c].len = sending[c].len /\ sending'[c].id = sending[c].id
      /\ sending'[c].ts = sending[c].ts /\ sending'[c].type = sending[c].type
      /\ sending[c].left \in Nat /\ sending[c].len \in Nat
  BY <1>3, <1>4 DEF Sends
<1>6. sending'[c].type # "none" /\ sending[c].left <= sending[c].len
  BY <1>2, <1>5 DEF Made
<1>7. sending'[c].left <= sending'[c].len
  BY <1>4, <1>5, <1>6
<1> SUFFICES ASSUME NEW d \in PeerCsids
             PROVE  /\ sending'[d].type = "none" => sending'[d].left = 0
                    /\ sending'[d].type # "none" =>
                         /\ sending'[d].left <= sending'[d].len /\ sending'[d].id \in 1 .. Len(msgs)
                         /\ msgs[sending'[d].id].csid = d /\ msgs[sending'[d].id].ts = sending'[d].ts
                         /\ msgs[sending'[d].id].len = sending'[d].len /\ msgs[sending'[d].id].type = sending'[d].type
  BY <1>2 DEF Made
<1>8. CASE d = c
  BY <1>5, <1>6, <1>7, <1>8 DEF Made
<1>9. CASE d # c
  BY <1>3, <1>9 DEF Made
<1> QED BY <1>8, <1>9

---------------------------------------------------------------------------
(* Both ends keep in step.                                                 *)

Used(c) == sending[c].type # "none"
OnWire(c) == wire # <<>> /\ Head(wire).csid = c

Synced ==
    /\ ~broken
    /\ wire = <<>> => inSize = outSize
    /\ wire # <<>> => \E z : Pending(Head(wire).csid, z)
    /\ \A c \in PeerCsids : Used(c) /\ ~OnWire(c) => Agrees(chunks[KeyOf(c)], sending[c], sending[c].left)
    /\ \A k \in Keys : (\A c \in PeerCsids : KeyOf(c) = k => ~Used(c)) => chunks[k].remain = 0
    /\ \A c, d \in PeerCsids : Used(c) /\ Used(d) /\ KeyOf(c) = KeyOf(d) => c = d
    /\ \A c \in PeerCsids : sending[c].left > 0 =>
         sending[c].type # "size" /\ (sending[c].field >= Max24 => sending[c].field = sending[c].ts)

\* The chunk that starts a message is read as it was meant.
LEMMA PendingStart ==
    ASSUME ChunkShape, Made, Synced, NEW c \in PeerCsids, NEW fmt \in 0 .. 3, NEW t \in Times, NEW n \in Lengths,
           NEW type \in Types, PeerStart(c, fmt, t, n, type), ~mixed', NEW z, z = Min2(n, outSize)
    PROVE  /\ Pending(c, z)'
           /\ sending'[c].left > 0 => longDelta' \/
                (sending'[c].type # "size" /\ (sending'[c].field >= Max24 => sending'[c].field = sending'[c].ts))
<1> USE ChunkAssumption
<1> DEFINE h == NewHead(c, fmt, t, n, type)
           f == StField(c, fmt, t)
           dl == Delta(c, t)
           id == Len(msgs) + 1
           s == sending[c]
           s2 == NewSend(c, fmt, t, n, type)
           cs == chunks[KeyOf(c)]
           w == wire'
<1>1. Starts(c, fmt, t, n, type) /\ StartFacts(c, fmt, t, n, type)
  BY StartIs, StartTypes
<1>2. UNCHANGED <<mode, out, readerVars, torn>> /\ wire = <<>> /\ ~broken /\ s.left = 0
  BY <1>1 DEF Starts
<1>3. chunks' = chunks /\ inSize' = inSize
  BY <1>2 DEF readerVars
<1>4. sending'[c] = s2
  BY StartSends
<1>5. t \in Stamps /\ n \in Nat /\ f \in Stamps /\ f \in Nat /\ z \in 0 .. n /\ h \in Tokens /\ id \in Nat
      /\ Chunk(w, h, f, id, 0, z)
  <2>1. t \in Stamps /\ n \in Nat /\ f \in Stamps /\ Stamps \subseteq Nat /\ Min2(n, outSize) \in 0 .. n /\ h \in Tokens
        /\ Len(msgs) \in Nat
    BY <1>1 DEF StartFacts
  <2>2. Chunk(w, h, f, id, 0, Min2(n, outSize))
    BY <1>1 DEF StartFacts
  <2>3. id \in Nat
    BY <2>1
  <2> QED BY <2>1, <2>2, <2>3
<1>6. cs \in Streams /\ s \in Sends /\ outSize \in Nat \ {0}
  BY PeerKeyType DEF ChunkShape, ChunkTypes
<1>7. Used(c) => Agrees(cs, s, 0)
  BY <1>2 DEF Synced, OnWire
<1>8. cs.remain = 0
  <2>1. CASE Used(c)
    BY <1>7, <2>1 DEF Agrees
  <2>2. CASE ~Used(c)
    <3>1. \A d \in PeerCsids : d # c /\ KeyOf(d) = KeyOf(c) => ~Used(d)
      BY <1>1 DEF Starts, Used
    <3>2. \A d \in PeerCsids : KeyOf(d) = KeyOf(c) => ~Used(d)
      BY <2>2, <3>1
    <3> QED BY <3>2, PeerKeyType DEF Synced
  <2> QED BY <2>1, <2>2
<1>9. /\ fmt > 0 => Used(c) /\ t >= s.ts
      /\ fmt > 1 => n = s.len /\ type = s.type
      /\ fmt = 3 => dl = s.delta
      /\ type # "media" => n = 1
      /\ longDelta' = (longDelta \/ (fmt # 0 /\ dl >= Max24 /\ z < n))
      /\ type # "size" => outSize' = outSize
  BY <1>1 DEF Starts, Used, Delta
<1>10. dl = (t - s.ts) % Wrap /\ f = StartOf(fmt, s, t)
  BY DEF Delta, StField, StartOf
<1>11. h = Header(fmt, c, Field(f), n, type)
  BY DEF NewHead
<1>12. s2 = [ts |-> t, delta |-> IF fmt = 0 THEN 0 ELSE dl, field |-> f, len |-> n, type |-> type,
             id |-> id, left |-> n - z]
  BY DEF NewSend
<1>13. (RdHdr)' = ReadHeader(cs, h, Tail(w)) /\ Head(w) = h
  <2>1. Head(w) = h
    BY <1>5, ChunkNextToken
  <2>2. h.csid = c
    BY <1>11 DEF Header
  <2> HIDE DEF h
  <2> QED BY <1>3, <2>1, <2>2 DEF RdHdr
<1>14. /\ ReadHeader(cs, h, Tail(w)).used = IF f >= Max24 THEN 1 ELSE 0
       /\ Agrees(ReadHeader(cs, h, Tail(w)).cs, s2, n)
       /\ f >= Max24 => f = t \/ (fmt # 0 /\ dl >= Max24)
  <2>1. z \in Nat
    BY <1>5
  <2>2. fmt > 0 => Agrees(cs, s, 0) /\ t >= s.ts
    BY <1>7, <1>9
  <2> HIDE DEF h, f, dl, id, s, s2, cs, w
  <2> QED BY <1>5, <1>6, <1>8, <1>9, <1>10, <1>11, <1>12, <2>1, <2>2, StartAgrees
<1>15. s2.ts = t /\ s2.field = f /\ s2.len = n /\ s2.type = type /\ s2.id = id /\ s2.left = n - z
  BY <1>12
<1>16. h.t = "h" /\ h.csid = c /\ type # "none"
  BY <1>11 DEF Header, Types
<1>17. type = "size" => msgs'[id].val = outSize' /\ z = 1 /\ n = 1
  <2>1. LET m == msgs'[Len(msgs) + 1] IN type = "size" => m.val = outSize'
    BY MsgsGrow
  <2>2. Min2(1, outSize) = 1
    BY <1>6 DEF Min2
  <2> QED BY <1>9, <2>1, <2>2
<1>18. type # "size" => inSize = outSize'
  BY <1>2, <1>9 DEF Synced
<1>19. z = Min2(n, inSize)
  BY <1>2 DEF Synced
<1> HIDE DEF h, f, dl, id, s, s2, cs, w
<1>20. s2.left + z = n /\ s2.len - n = 0
  BY <1>5, <1>15
<1>21. Pending(c, z)'
  <2>1. Chunk(w, Head(w), s2.field, s2.id, s2.len - (s2.left + z), z)
    BY <1>5, <1>13, <1>15, <1>20
  <2>2. RdHdr'.used = (IF s2.field >= Max24 THEN 1 ELSE 0) /\ Agrees(RdHdr'.cs, s2, s2.left + z)
    BY <1>13, <1>14, <1>15, <1>20
  <2>3. z \in Nat /\ s2.left + z <= s2.len /\ z = Min2(s2.left + z, inSize')
    BY <1>3, <1>5, <1>15, <1>19, <1>20
  <2>4. s2.type # "none" /\ Head(w).t = "h" /\ Head(w).csid = c
    BY <1>13, <1>15, <1>16
  <2>5. chunks'[KeyOf(c)].remain = 0
    BY <1>3, <1>8 DEF cs
  <2>6. (s2.type # "size" => inSize' = outSize') /\ (s2.type = "size" => s2.left = 0 /\ z = 1 /\ msgs'[s2.id].val = outSize')
    BY <1>3, <1>15, <1>17, <1>18
  <2> QED BY <1>4, <2>1, <2>2, <2>3, <2>4, <2>5, <2>6 DEF Pending, w
<1>22. s2.left > 0 => longDelta' \/ (s2.type # "size" /\ (s2.field >= Max24 => s2.field = s2.ts))
  <2>1. s2.left > 0 => z < n
    BY <1>5, <1>15
  <2>2. s2.left > 0 => s2.type # "size"
    BY <1>15, <1>17
  <2> QED BY <1>9, <1>14, <1>15, <2>1, <2>2
<1> QED BY <1>4, <1>21, <1>22

LEMMA SyncStart ==
    ASSUME ChunkShape, Made, Synced, NEW c \in PeerCsids, NEW fmt \in 0 .. 3, NEW t \in Times, NEW n \in Lengths,
           NEW type \in Types, PeerStart(c, fmt, t, n, type), ~mixed', ~longDelta'
    PROVE  Synced'
<1>0. PICK z : z = Min2(n, outSize)
  OBVIOUS
<1>1. Pending(c, z)' /\ (sending'[c].left > 0 =>
         sending'[c].type # "size" /\ (sending'[c].field >= Max24 => sending'[c].field = sending'[c].ts))
  BY <1>0, PendingStart
<1>2. Starts(c, fmt, t, n, type) /\ StartFacts(c, fmt, t, n, type)
  BY StartIs, StartTypes
<1>3. UNCHANGED <<mode, out, readerVars, torn>> /\ wire = <<>> /\ ~broken
  BY <1>2 DEF Starts
<1>4. chunks' = chunks /\ inSize' = inSize /\ broken' = broken
  BY <1>3 DEF readerVars
<1>5. wire' # <<>> /\ Head(wire').csid = c
  <2>1. wire' # <<>>
    BY <1>2 DEF StartFacts, Chunk
  <2> QED BY <1>1, <2>1 DEF Pending
<1>6. sending'[c].type = type /\ type # "none" /\ \A d \in PeerCsids : d # c => sending'[d] = sending[d]
  <2>1. sending'[c] = NewSend(c, fmt, t, n, type) /\ \A d \in PeerCsids : d # c => sending'[d] = sending[d]
    BY StartSends
  <2> QED BY <2>1 DEF NewSend, Types
<1>7. \A d \in PeerCsids : Used(d)' /\ ~OnWire(d)' => Agrees(chunks'[KeyOf(d)], sending'[d], sending'[d].left)
  <2> SUFFICES ASSUME NEW d \in PeerCsids, Used(d)', ~OnWire(d)'
               PROVE  Agrees(chunks'[KeyOf(d)], sending'[d], sending'[d].left)
    OBVIOUS
  <2>1. d # c
    BY <1>5 DEF OnWire
  <2>2. Used(d) /\ ~OnWire(d) /\ sending'[d] = sending[d]
    BY <1>3, <1>6, <2>1 DEF Used, OnWire
  <2> QED BY <1>4, <2>2 DEF Synced
<1>8. \A k \in Keys : (\A d \in PeerCsids : KeyOf(d) = k => ~Used(d)') => chunks'[k].remain = 0
  <2>1. \A d \in PeerCsids : Used(d) => Used(d)'
    BY <1>6 DEF Used
  <2> QED BY <1>4, <2>1 DEF Synced
<1>9. \A d, e \in PeerCsids : Used(d)' /\ Used(e)' /\ KeyOf(d) = KeyOf(e) => d = e
  <2>1. \A d \in PeerCsids : d # c /\ KeyOf(d) = KeyOf(c) => ~Used(d)
    BY <1>2 DEF Starts, Used
  <2>2. \A d \in PeerCsids : d # c => (Used(d)' <=> Used(d))
    BY <1>6 DEF Used
  <2> QED BY <2>1, <2>2 DEF Synced
<1>10. \A d \in PeerCsids : sending'[d].left > 0 =>
         sending'[d].type # "size" /\ (sending'[d].field >= Max24 => sending'[d].field = sending'[d].ts)
  BY <1>1, <1>6 DEF Synced
<1>11. (\E y : Pending(Head(wire).csid, y))'
  BY <1>1, <1>5
<1> QED BY <1>3, <1>4, <1>5, <1>7, <1>8, <1>9, <1>10, <1>11 DEF Synced

\* So is the chunk that goes on with one.
LEMMA PendingContinue ==
    ASSUME ChunkShape, Made, Synced, NEW c \in PeerCsids, PeerContinue(c), NEW z, z = Min2(sending[c].left, outSize)
    PROVE  Pending(c, z)'
<1> USE ChunkAssumption
<1> DEFINE h == ContHead(c)
           s == sending[c]
           s2 == sending'[c]
           cs == chunks[KeyOf(c)]
           w == wire'
           rest == Tail(w)
<1>1. Continues(c) /\ ContFacts(c)
  BY ContinueIs, ContinueTypes
<1>2. UNCHANGED <<mode, msgs, outSize, out, readerVars, mixed, longDelta, torn>> /\ wire = <<>> /\ s.left > 0
  BY <1>1 DEF Continues
<1>3. chunks' = chunks /\ inSize' = inSize /\ outSize' = outSize /\ msgs' = msgs
  BY <1>2 DEF readerVars
<1>4. s2 = [s EXCEPT !.left = s.left - z]
  BY ContinueSends
<1>5. s \in Sends /\ z \in 1 .. s.left /\ s.len - s.left \in Nat /\ Chunk(w, h, s.field, s.id, s.len - s.left, z) /\ h \in Tokens
  <2>1. s \in Sends /\ Min2(s.left, outSize) \in 1 .. s.left /\ s.len - s.left \in Nat /\ h \in Tokens
    BY <1>1 DEF ContFacts
  <2>2. Chunk(w, h, s.field, s.id, s.len - s.left, Min2(s.left, outSize))
    BY <1>1 DEF ContFacts
  <2> QED BY <2>1, <2>2
<1>6. s.left \in Nat /\ s.len \in Nat /\ s.field \in Nat /\ z \in Nat
  <2>1. s.left \in Nat /\ s.len \in Nat /\ s.field \in Stamps
    BY <1>5 DEF Sends
  <2> QED BY <1>5, <2>1 DEF Stamps
<1>7. /\ s2.ts = s.ts /\ s2.delta = s.delta /\ s2.field = s.field /\ s2.len = s.len /\ s2.type = s.type /\ s2.id = s.id
      /\ s2.left = s.left - z
  BY <1>4, <1>5 DEF Sends
<1>8. Used(c) /\ s.type # "size" /\ (s.field >= Max24 => s.field = s.ts) /\ inSize = outSize
  BY <1>2 DEF Made, Used, Synced
<1>9. cs \in Streams /\ Agrees(cs, s, s.left)
  BY <1>2, <1>8, PeerKeyType DEF ChunkShape, ChunkTypes, Synced, OnWire
<1>10. Head(w) = h /\ rest \in Seq(Tokens) /\ (s.field >= Max24 => rest # <<>> /\ rest[1] = Ext(s.field))
  BY <1>5, <1>6, ChunkNextToken
<1>11. h.t = "h" /\ h.csid = c /\ h.fmt = 3
  BY DEF ContHead, Header
<1> HIDE DEF h, s, s2, w, rest
<1>12. (RdHdr)' = ReadHeader(cs, h, rest)
  BY <1>3, <1>10, <1>11 DEF RdHdr, rest, w
<1> DEFINE r == ReadHeader(cs, h, rest)
           ext == ExtOf(cs, h, rest)
           u == TimeOf(h, rest, ext)
<1>13. HeaderGives(cs, h, r, ext, u)
  BY <1>5, <1>9, <1>10, HeaderRead
<1>14. cs.remain = s.left /\ cs.ts = s.ts /\ (cs.ext <=> s.field >= Max24)
  BY <1>9 DEF Agrees
<1>15. ext <=> s.field >= Max24
  <2>1. Ext(s.field).t = "x" /\ Ext(s.field).ts = s.field
    BY DEF Ext
  <2>2. cs.remain # 0
    BY <1>2, <1>6, <1>14 DEF s
  <2>3. ext <=> (cs.ext /\ rest # <<>> /\ rest[1].t = "x" /\ rest[1].ts = cs.ts)
    BY <1>11, <2>2 DEF ExtOf
  <2> HIDE DEF ext
  <2> QED BY <1>8, <1>10, <1>14, <2>1, <2>3
<1> HIDE DEF r, ext, u, cs
<1>16. r.used = (IF s.field >= Max24 THEN 1 ELSE 0) /\ r.cs = cs
  <2>1. cs.remain # 0
    BY <1>2, <1>6, <1>14 DEF s
  <2> QED BY <1>11, <1>13, <1>15, <2>1 DEF HeaderGives
<1>17. s2.left + z = s.left /\ s.left <= s.len
  BY <1>5, <1>6, <1>7
<1>18. Agrees(r.cs, s2, s2.left + z)
  BY <1>7, <1>9, <1>16, <1>17 DEF Agrees
<1>19. Chunk(w, Head(w), s2.field, s2.id, s2.len - (s2.left + z), z)
  BY <1>5, <1>7, <1>10, <1>17
<1>20. z \in Nat /\ s2.left + z <= s2.len /\ z = Min2(s2.left + z, inSize') /\ s2.type # "none" /\ s2.type # "size"
  BY <1>3, <1>6, <1>7, <1>8, <1>17 DEF Used, s
<1>21. Head(w).t = "h" /\ Head(w).csid = c /\ Head(w).fmt = 3 /\ inSize' = outSize'
  BY <1>3, <1>8, <1>10, <1>11
<1>22. RdHdr'.used = (IF s2.field >= Max24 THEN 1 ELSE 0) /\ Agrees(RdHdr'.cs, s2, s2.left + z)
  BY <1>7, <1>12, <1>16, <1>18 DEF r
<1> QED BY <1>19, <1>20, <1>21, <1>22 DEF Pending, s2, w

LEMMA SyncContinue ==
    ASSUME ChunkShape, Made, Synced, NEW c \in PeerCsids, PeerContinue(c)
    PROVE  Synced'
<1>0. PICK z : z = Min2(sending[c].left, outSize)
  OBVIOUS
<1>1. Pending(c, z)'
  BY <1>0, PendingContinue
<1>2. Continues(c) /\ ContFacts(c)
  BY ContinueIs, ContinueTypes
<1>3. UNCHANGED <<mode, msgs, outSize, out, readerVars, mixed, longDelta, torn>> /\ wire = <<>> /\ ~broken /\ sending[c].left > 0
  BY <1>2 DEF Continues
<1>4. chunks' = chunks /\ inSize' = inSize /\ broken' = broken
  BY <1>3 DEF readerVars
<1>5. wire' # <<>> /\ Head(wire').csid = c
  <2>1. wire' # <<>>
    BY <1>2 DEF ContFacts, Chunk
  <2> QED BY <1>1, <2>1 DEF Pending
<1>6. /\ sending'[c].type = sending[c].type /\ sending'[c].field = sending[c].field /\ sending'[c].ts = sending[c].ts
      /\ \A d \in PeerCsids : d # c => sending'[d] = sending[d]
  <2>1. LET y == Min2(sending[c].left, outSize) IN
        /\ sending'[c] = [sending[c] EXCEPT !.left = sending[c].left - y]
        /\ \A d \in PeerCsids : d # c => sending'[d] = sending[d]
    BY ContinueSends
  <2>2. sending[c] \in Sends
    BY <1>2 DEF ContFacts
  <2> QED BY <2>1, <2>2 DEF Sends
<1>7. \A d \in PeerCsids : Used(d)' <=> Used(d)
  BY <1>6 DEF Used
<1>8. \A d \in PeerCsids : Used(d)' /\ ~OnWire(d)' => Agrees(chunks'[KeyOf(d)], sending'[d], sending'[d].left)
  <2> SUFFICES ASSUME NEW d \in PeerCsids, Used(d)', ~OnWire(d)'
               PROVE  Agrees(chunks'[KeyOf(d)], sending'[d], sending'[d].left)
    OBVIOUS
  <2>1. d # c
    BY <1>5 DEF OnWire
  <2>2. Used(d) /\ ~OnWire(d) /\ sending'[d] = sending[d]
    BY <1>3, <1>6, <2>1 DEF Used, OnWire
  <2> QED BY <1>4, <2>2 DEF Synced
<1>9. \A k \in Keys : (\A d \in PeerCsids : KeyOf(d) = k => ~Used(d)') => chunks'[k].remain = 0
  BY <1>4, <1>7 DEF Synced
<1>10. \A d, e \in PeerCsids : Used(d)' /\ Used(e)' /\ KeyOf(d) = KeyOf(e) => d = e
  BY <1>7 DEF Synced
<1>11. \A d \in PeerCsids : sending'[d].left > 0 =>
         sending'[d].type # "size" /\ (sending'[d].field >= Max24 => sending'[d].field = sending'[d].ts)
  BY <1>3, <1>6 DEF Synced
<1>12. (\E y : Pending(Head(wire).csid, y))'
  BY <1>1, <1>5
<1> QED BY <1>3, <1>4, <1>5, <1>8, <1>9, <1>10, <1>11, <1>12 DEF Synced

\* What ReadChunk does with such a chunk.
ReadGives(p) ==
    /\ p \in PeerCsids /\ Used(p) /\ Head(wire).csid = p
    /\ RdNew \in Streams /\ Agrees(RdNew, sending[p], sending[p].left)
    /\ wire' = <<>> /\ broken' = broken
    /\ chunks' = [chunks EXCEPT ![KeyOf(p)] = RdNew]
    /\ sending[p].left = 0 => HandleControlMsg(RdNew) /\ read' = Append(read, RdMsg)
    /\ sending[p].left # 0 => UNCHANGED <<inSize, read>>
    /\ UNCHANGED <<msgs, sending, outSize, mixed, longDelta>>

LEMMA ReadPending ==
    ASSUME ChunkShape, wire # <<>>, NEW p, NEW z, Pending(p, z), ReadChunk
    PROVE  ReadGives(p)
<1>1. /\ ~RdBad /\ Len(wire) = 1 + RdHdr.used + RdSize
      /\ SubSeq(wire, 2 + RdHdr.used + RdSize, Len(wire)) = <<>>
      /\ RdNew \in Streams /\ Agrees(RdNew, sending[p], sending[p].left)
      /\ RdNew.got <=> sending[p].left = 0
  BY PendingRead
<1>2. p \in PeerCsids /\ Used(p) /\ Head(wire).csid = p
  BY DEF Pending, Used
<1>3. /\ wire' = SubSeq(wire, 2 + RdHdr.used + RdSize, Len(wire))
      /\ chunks' = [chunks EXCEPT ![KeyOf(Head(wire).csid)] = RdNew]
      /\ \/ RdNew.got /\ HandleControlMsg(RdNew) /\ Ack(RdNew.len) /\ read' = Append(read, RdMsg)
         \/ ~RdNew.got /\ UNCHANGED <<inSize, window, ackReceived, acked, read>>
      /\ UNCHANGED broken
      /\ UNCHANGED <<mode, msgs, sending, outSize, out, mixed, longDelta, torn>>
  BY <1>1, ReadChunkIs
<1> QED BY <1>1, <1>2, <1>3 DEF ReadGives

LEMMA SyncRead ==
    ASSUME ChunkShape, Made, Synced, ReadChunk
    PROVE  Synced'
<1> USE ChunkAssumption
<1>1. wire # <<>> /\ ~broken
  BY ReadChunkIs
<1>2. PICK z : Pending(Head(wire).csid, z)
  BY <1>1 DEF Synced
<1> DEFINE p == Head(wire).csid
           s == sending[p]
           key == KeyOf(p)
<1>3. ReadGives(p)
  BY <1>1, <1>2, ReadPending
<1>4. p \in PeerCsids /\ Used(p) /\ wire' = <<>> /\ broken' = broken /\ UNCHANGED <<msgs, sending, outSize>>
      /\ RdNew \in Streams /\ Agrees(RdNew, s, s.left) /\ chunks' = [chunks EXCEPT ![key] = RdNew]
  BY <1>3 DEF ReadGives
<1>5. s \in Sends /\ chunks \in [Keys -> Streams] /\ key \in Keys
  BY <1>4, PeerKeyType DEF ChunkShape, ChunkTypes
<1>6. inSize' = outSize'
  <2>1. /\ s.type # "size" => inSize = outSize
        /\ s.type = "size" => s.left = 0 /\ z = 1 /\ msgs[s.id].val = outSize /\ s.left + z <= s.len
    BY <1>2 DEF Pending
  <2>2. RdNew.type = s.type /\ RdNew.data = Units(s.id, 0, s.len - s.left)
    BY <1>4 DEF Agrees
  <2>3. CASE s.type = "size"
    <3>1. inSize' = msgs[RdNew.data[1].csid].val
      BY <1>3, <2>1, <2>2, <2>3 DEF ReadGives, HandleControlMsg
    <3>2. s.left = 0 /\ s.len \in Nat /\ s.len >= 1
      BY <1>5, <2>1, <2>3 DEF Sends
    <3>3. RdNew.data[1] = Unit(s.id, 0 + 1)
      BY <2>2, <3>2 DEF Units
    <3>4. RdNew.data[1].csid = s.id
      BY <3>3 DEF Unit
    <3> QED BY <1>4, <2>1, <2>3, <3>1, <3>4
  <2>4. CASE s.type # "size"
    <3>1. inSize' = inSize
      BY <1>3, <2>2, <2>4 DEF ReadGives, HandleControlMsg
    <3> QED BY <1>4, <2>1, <2>4, <3>1
  <2> QED BY <2>3, <2>4
<1>7. \A c \in PeerCsids : Used(c)' <=> Used(c)
  BY <1>4 DEF Used
<1>8. chunks'[key] = RdNew /\ \A k \in Keys : k # key => chunks'[k] = chunks[k]
  BY <1>4, <1>5
<1> HIDE DEF key
<1>9. \A c \in PeerCsids : Used(c)' => Agrees(chunks'[KeyOf(c)], sending'[c], sending'[c].left)
  <2> SUFFICES ASSUME NEW c \in PeerCsids, Used(c)
               PROVE  Agrees(chunks'[KeyOf(c)], sending[c], sending[c].left)
    BY <1>4, <1>7
  <2>1. CASE c = p
    BY <1>4, <1>8, <2>1 DEF key
  <2>2. CASE c # p
    <3>1. KeyOf(c) # key
      BY <1>4, <2>2 DEF Synced, key
    <3>2. chunks'[KeyOf(c)] = chunks[KeyOf(c)]
      BY <1>8, <3>1, PeerKeyType
    <3>3. ~OnWire(c)
      BY <2>2 DEF OnWire
    <3> QED BY <3>2, <3>3 DEF Synced
  <2> QED BY <2>1, <2>2
<1>10. \A k \in Keys : (\A d \in PeerCsids : KeyOf(d) = k => ~Used(d)') => chunks'[k].remain = 0
  <2> SUFFICES ASSUME NEW k \in Keys, \A d \in PeerCsids : KeyOf(d) = k => ~Used(d)
               PROVE  chunks'[k].remain = 0
    BY <1>7
  <2>1. k # key
    BY <1>4 DEF key
  <2> QED BY <1>8, <2>1 DEF Synced
<1>11. \A d, e \in PeerCsids : Used(d)' /\ Used(e)' /\ KeyOf(d) = KeyOf(e) => d = e
  BY <1>7 DEF Synced
<1>12. \A d \in PeerCsids : sending'[d].left > 0 =>
         sending'[d].type # "size" /\ (sending'[d].field >= Max24 => sending'[d].field = sending'[d].ts)
  BY <1>4 DEF Synced
<1> QED BY <1>1, <1>4, <1>6, <1>9, <1>10, <1>11, <1>12 DEF Synced

---------------------------------------------------------------------------
(* What Read has returned.                                                 *)

Busy(c) == sending[c].left > 0 \/ OnWire(c)
BusySet == {c \in PeerCsids : Busy(c)}

IsSent(m, id) ==
    /\ id \in 1 .. Len(msgs)
    /\ m.csid = msgs[id].csid /\ m.ts = msgs[id].ts /\ m.len = msgs[id].len /\ m.type = msgs[id].type
    /\ m.data = Units(id, 0, msgs[id].len)

\* The first n messages read, if they are of chunk stream c, come before id.
Older(r, n, c, id) == \A j \in 1 .. n : r[j].csid = c => \A d \in 1 .. Len(r[j].data) : r[j].data[d].csid < id

ReadOnce ==
    /\ \A i \in 1 .. Len(read) : \E id : IsSent(read[i], id) /\ Older(read, i - 1, read[i].csid, id)
    /\ \A c \in PeerCsids : Busy(c) => Older(read, Len(read), c, sending[c].id)
    /\ Len(read) + Cardinality(BusySet) = Len(msgs)

\* The units in what was read belong to messages sent.
LEMMA ReadIds ==
    ASSUME ChunkShape, ReadOnce, NEW j \in 1 .. Len(read), NEW d \in 1 .. Len(read[j].data)
    PROVE  read[j].data[d].csid \in 1 .. Len(msgs)
<1>1. PICK id : IsSent(read[j], id)
  BY DEF ReadOnce
<1>2. id \in 1 .. Len(msgs) /\ read[j].data = Units(id, 0, msgs[id].len) /\ msgs \in Seq(Sent)
  BY <1>1 DEF IsSent, ChunkShape, ChunkTypes
<1>3. msgs[id] \in Sent
  BY <1>2, ElementOfSeq
<1> DEFINE l == msgs[id].len
           u == Units(id, 0, l)
<1>4. l \in Nat /\ d \in 1 .. Len(u) /\ read[j].data[d] = u[d]
  BY <1>2, <1>3 DEF Sent
<1> HIDE DEF l
<1>5. Len(u) = l /\ \A i \in 1 .. l : u[i] = Unit(id, 0 + i)
  BY <1>4 DEF Units
<1>6. u[d] = Unit(id, 0 + d)
  BY <1>4, <1>5
<1> QED BY <1>2, <1>4, <1>6 DEF Unit

LEMMA BusyFinite == IsFiniteSet(BusySet) /\ Cardinality(BusySet) \in Nat
<1>1. IsFiniteSet(PeerCsids) /\ BusySet \subseteq PeerCsids
  BY ChunkAssumption DEF BusySet
<1>2. IsFiniteSet(BusySet)
  BY <1>1, FS_Subset
<1> QED BY <1>2, FS_CardinalityType

LEMMA RetStart ==
    ASSUME ChunkShape, Made, Synced, ReadOnce, NEW c \in PeerCsids, NEW fmt \in 0 .. 3, NEW t \in Times, NEW n \in Lengths,
           NEW type \in Types, PeerStart(c, fmt, t, n, type)
    PROVE  ReadOnce'
<1>1. Starts(c, fmt, t, n, type) /\ StartFacts(c, fmt, t, n, type)
  BY StartIs, StartTypes
<1>2. UNCHANGED <<mode, out, readerVars, torn>> /\ wire = <<>> /\ sending[c].left = 0
  BY <1>1 DEF Starts
<1>3. read' = read
  BY <1>2 DEF readerVars
<1>4. /\ Len(msgs) \in Nat /\ Len(msgs') = Len(msgs) + 1 /\ \A i \in 1 .. Len(msgs) : msgs'[i] = msgs[i]
  BY MsgsGrow
<1>5. sending'[c].id = Len(msgs) + 1 /\ \A d \in PeerCsids : d # c => sending'[d] = sending[d]
  <2>1. sending'[c] = NewSend(c, fmt, t, n, type) /\ \A d \in PeerCsids : d # c => sending'[d] = sending[d]
    BY StartSends
  <2> QED BY <2>1 DEF NewSend
<1>6. wire' # <<>> /\ Head(wire').csid = c
  <2>1. Chunk(wire', NewHead(c, fmt, t, n, type), StField(c, fmt, t), Len(msgs) + 1, 0, Min2(n, outSize))
    BY <1>1 DEF StartFacts
  <2>2. wire' # <<>> /\ wire'[1] = NewHead(c, fmt, t, n, type)
    BY <2>1 DEF Chunk
  <2>3. Head(wire') = wire'[1]
    BY <2>2
  <2>4. NewHead(c, fmt, t, n, type).csid = c
    BY DEF NewHead, Header
  <2> QED BY <2>2, <2>3, <2>4
<1>7. \A d \in PeerCsids : Busy(d)' <=> (d = c \/ Busy(d))
  BY <1>2, <1>5, <1>6 DEF Busy, OnWire
<1>8. ~Busy(c)
  <2>1. ~(0 > 0)
    OBVIOUS
  <2> QED BY <1>2, <2>1 DEF Busy, OnWire
<1>9. Cardinality(BusySet') = Cardinality(BusySet) + 1
  <2>1. BusySet' = BusySet \cup {c} /\ c \notin BusySet
    BY <1>7, <1>8 DEF BusySet
  <2>2. IsFiniteSet(BusySet)
    BY BusyFinite
  <2> HIDE DEF BusySet
  <2> QED BY <2>1, <2>2, FS_AddElement
<1>10. \A i \in 1 .. Len(read') : (\E id : IsSent(read[i], id) /\ Older(read, i - 1, read[i].csid, id))'
  <2> SUFFICES ASSUME NEW i \in 1 .. Len(read)
               PROVE  (\E id : IsSent(read[i], id) /\ Older(read, i - 1, read[i].csid, id))'
    BY <1>3
  <2>1. PICK id : IsSent(read[i], id) /\ Older(read, i - 1, read[i].csid, id)
    BY DEF ReadOnce
  <2>2. id \in 1 .. Len(msgs) /\ id \in 1 .. Len(msgs') /\ msgs'[id] = msgs[id]
    BY <1>4, <2>1 DEF IsSent
  <2>3. IsSent(read[i], id)'
    BY <1>3, <2>1, <2>2 DEF IsSent
  <2>4. Older(read, i - 1, read[i].csid, id)'
    BY <1>3, <2>1 DEF Older
  <2> QED BY <2>3, <2>4
<1>11. \A d \in PeerCsids : Busy(d)' => Older(read, Len(read), d, sending'[d].id)
  <2>1. Older(read, Len(read), c, sending'[c].id)
    <3> SUFFICES ASSUME NEW j \in 1 .. Len(read), NEW d \in 1 .. Len(read[j].data)
                 PROVE  read[j].data[d].csid < Len(msgs) + 1
      BY <1>5 DEF Older
    <3>1. read[j].data[d].csid \in 1 .. Len(msgs)
      BY ReadIds
    <3> QED BY <1>4, <3>1
  <2>2. \A d \in PeerCsids : d # c /\ Busy(d) => Older(read, Len(read), d, sending'[d].id)
    BY <1>5 DEF ReadOnce
  <2> QED BY <1>7, <2>1, <2>2
<1>12. Len(read') + Cardinality(BusySet') = Len(msgs')
  <2>1. Len(read) \in Nat /\ Cardinality(BusySet) \in Nat /\ Len(read) + Cardinality(BusySet) = Len(msgs)
    BY BusyFinite DEF ChunkShape, ChunkTypes, ReadOnce
  <2> QED BY <1>3, <1>4, <1>9, <2>1
<1>13. \A d \in PeerCsids : Busy(d)' => Older(read, Len(read), d, sending[d].id)'
  BY <1>3, <1>11 DEF Older
<1> QED BY <1>10, <1>12, <1>13 DEF ReadOnce

LEMMA RetContinue ==
    ASSUME ChunkShape, Made, ReadOnce, NEW c \in PeerCsids, PeerContinue(c)
    PROVE  ReadOnce'
<1>1. Continues(c) /\ ContFacts(c)
  BY ContinueIs, ContinueTypes
<1>2. UNCHANGED <<mode, msgs, outSize, out, readerVars, mixed, longDelta, torn>> /\ wire = <<>> /\ sending[c].left > 0
  BY <1>1 DEF Continues
<1>3. read' = read /\ msgs' = msgs
  BY <1>2 DEF readerVars
<1>4. sending'[c].id = sending[c].id /\ \A d \in PeerCsids : d # c => sending'[d] = sending[d]
  <2>1. LET y == Min2(sending[c].left, outSize) IN
        /\ sending'[c] = [sending[c] EXCEPT !.left = sending[c].left - y]
        /\ \A d \in PeerCsids : d # c => sending'[d] = sending[d]
    BY ContinueSends
  <2>2. sending[c] \in Sends
    BY <1>1 DEF ContFacts
  <2> QED BY <2>1, <2>2 DEF Sends
<1>5. wire' # <<>> /\ Head(wire').csid = c
  <2>1. wire' # <<>> /\ wire'[1] = ContHead(c)
    BY <1>1 DEF ContFacts, Chunk
  <2>2. Head(wire') = wire'[1]
    BY <2>1
  <2>3. ContHead(c).csid = c
    BY DEF ContHead, Header
  <2> QED BY <2>1, <2>2, <2>3
<1>6. \A d \in PeerCsids : Busy(d)' <=> Busy(d)
  BY <1>2, <1>4, <1>5 DEF Busy, OnWire
<1>7. BusySet' = BusySet
  BY <1>6 DEF BusySet
<1>8. \A d \in PeerCsids : Busy(d)' => Older(read, Len(read), d, sending[d].id)'
  <2>1. \A d \in PeerCsids : sending'[d].id = sending[d].id
    BY <1>4
  <2>2. \A d \in PeerCsids : Busy(d) => Older(read, Len(read), d, sending'[d].id)
    BY <2>1 DEF ReadOnce
  <2> QED BY <1>3, <1>6, <2>2 DEF Older
<1>9. \A i \in 1 .. Len(read') : (\E id : IsSent(read[i], id) /\ Older(read, i - 1, read[i].csid, id))'
  BY <1>3 DEF ReadOnce, IsSent, Older
<1> QED BY <1>3, <1>7, <1>8, <1>9 DEF ReadOnce

\* A message that is complete joins what was returned.
LEMMA OlderAppend ==
    ASSUME NEW r \in Seq(Reads), NEW m \in Reads, NEW n \in 0 .. Len(r), NEW c, NEW id, Older(r, n, c, id)
    PROVE  Older(Append(r, m), n, c, id)
<1>1. \A j \in 1 .. n : Append(r, m)[j] = r[j]
  <2>1. Len(r) \in Nat /\ \A j \in 1 .. Len(r) : Append(r, m)[j] = r[j]
    BY AppendProperties
  <2> QED BY <2>1
<1> DEFINE q == Append(r, m)
<1> HIDE DEF q
<1>2. Older(q, n, c, id)
  BY <1>1 DEF Older, q
<1> QED BY <1>2 DEF q

OlderAll(r, c, id) == Older(r, Len(r), c, id)

LEMMA OlderAppendAll ==
    ASSUME NEW r \in Seq(Reads), NEW m \in Reads, NEW c, NEW id, Older(r, Len(r), c, id), m.csid # c
    PROVE  OlderAll(Append(r, m), c, id)
<1> DEFINE q == Append(r, m)
<1>1. Len(r) \in Nat /\ Len(q) = Len(r) + 1 /\ q[Len(r) + 1] = m
  BY AppendProperties
<1>2. Older(q, Len(r), c, id)
  BY <1>1, OlderAppend
<1> HIDE DEF q
<1>3. \A j \in 1 .. Len(q) : j \in 1 .. Len(r) \/ j = Len(r) + 1
  BY <1>1
<1>4. Older(q, Len(q), c, id)
  BY <1>1, <1>2, <1>3 DEF Older
<1> QED BY <1>4 DEF q, OlderAll

LEMMA RetRead ==
    ASSUME ChunkShape, AckedOnce, Made, Synced, ReadOnce, ReadChunk
    PROVE  ReadOnce'
<1>1. wire # <<>>
  BY ReadChunkIs
<1>2. PICK p, z : Pending(p, z) /\ p = Head(wire).csid
  BY <1>1 DEF Synced
<1> DEFINE s == sending[p]
<1>3. ReadGives(p)
  BY <1>1, <1>2, ReadPending
<1>4. p \in PeerCsids /\ Used(p) /\ wire' = <<>> /\ UNCHANGED <<msgs, sending>>
      /\ RdNew \in Streams /\ Agrees(RdNew, s, s.left)
      /\ (s.left = 0 => read' = Append(read, RdMsg)) /\ (s.left # 0 => read' = read)
  BY <1>3 DEF ReadGives
<1>5. s \in Sends /\ s.left \in Nat /\ s.len \in Nat /\ read \in Seq(Reads) /\ Len(read) \in Nat
  BY <1>4 DEF ChunkShape, ChunkTypes, Sends
<1>6. Busy(p) /\ \A d \in PeerCsids : d # p => (Busy(d)' <=> Busy(d))
  BY <1>1, <1>2, <1>4 DEF Busy, OnWire
<1>7. Busy(p)' <=> s.left # 0
  BY <1>4, <1>5 DEF Busy, OnWire
<1>8. CASE s.left # 0
  <2>1. \A d \in PeerCsids : Busy(d)' <=> Busy(d)
    BY <1>6, <1>7, <1>8
  <2>2. BusySet' = BusySet /\ read' = read /\ msgs' = msgs /\ sending' = sending
    BY <1>4, <1>8, <2>1 DEF BusySet
  <2>3. \A i \in 1 .. Len(read') : (\E id : IsSent(read[i], id) /\ Older(read, i - 1, read[i].csid, id))'
    BY <2>2 DEF ReadOnce, IsSent, Older
  <2>4. \A d \in PeerCsids : Busy(d)' => Older(read, Len(read), d, sending[d].id)'
    BY <2>1, <2>2 DEF ReadOnce, Older
  <2> QED BY <2>2, <2>3, <2>4 DEF ReadOnce
<1>9. CASE s.left = 0
  <2> DEFINE m == RdMsg
             l == Len(read)
  <2>1. m.csid = p /\ m.ts = RdNew.ts /\ m.len = RdNew.len /\ m.type = RdNew.type /\ m.data = RdNew.data
    BY <1>2 DEF RdMsg
  <2>2. m \in Reads
    BY <1>2, <1>4, PeerKeyType DEF RdMsg, Reads, Streams
  <2>3. read' = Append(read, m) /\ msgs' = msgs /\ sending' = sending
    BY <1>4, <1>9
  <2>4. IsSent(m, s.id)
    <3>1. s.id \in 1 .. Len(msgs) /\ msgs[s.id].csid = p /\ msgs[s.id].ts = s.ts /\ msgs[s.id].len = s.len
          /\ msgs[s.id].type = s.type
      BY <1>4 DEF Made, Used
    <3>2. RdNew.ts = s.ts /\ RdNew.len = s.len /\ RdNew.type = s.type /\ RdNew.data = Units(s.id, 0, s.len - s.left)
      BY <1>4 DEF Agrees
    <3>3. s.len - s.left = s.len
      BY <1>5, <1>9
    <3> HIDE DEF m, s
    <3> QED BY <2>1, <3>1, <3>2, <3>3 DEF IsSent
  <2> HIDE DEF m
  <2>5. l \in Nat /\ Len(read') = l + 1 /\ read'[l + 1] = m /\ \A i \in 1 .. l : read'[i] = read[i]
    BY <1>5, <2>2, <2>3, AppendProperties
  <2> HIDE DEF l
  <2>6. \A i \in 1 .. Len(read') : (\E id : IsSent(read[i], id) /\ Older(read, i - 1, read[i].csid, id))'
    <3> SUFFICES ASSUME NEW i \in 1 .. l + 1
                 PROVE  \E id : IsSent(read[i], id)' /\ Older(read, i - 1, read[i].csid, id)'
      BY <2>5
    <3>1. CASE i # l + 1
      <4>1. i \in 1 .. l /\ i - 1 \in 0 .. l
        BY <2>5, <3>1
      <4>2. PICK id : IsSent(read[i], id) /\ Older(read, i - 1, read[i].csid, id)
        BY <4>1 DEF ReadOnce, l
      <4>3. IsSent(read[i], id)'
        BY <2>3, <2>5, <4>1, <4>2 DEF IsSent
      <4>4. Older(Append(read, m), i - 1, read[i].csid, id)
        BY <1>5, <2>2, <4>1, <4>2, OlderAppend DEF l
      <4>5. Older(read, i - 1, read[i].csid, id)'
        BY <2>3, <2>5, <4>1, <4>4
      <4> QED BY <4>3, <4>5
    <3>2. CASE i = l + 1
      <4>1. read'[i] = m /\ i - 1 = l /\ l \in 0 .. l
        BY <2>5, <3>2
      <4>2. PICK id : id = s.id
        OBVIOUS
      <4>3. IsSent(read[i], id)'
        BY <2>3, <2>4, <4>1, <4>2 DEF IsSent
      <4>4. Older(read, l, p, s.id)
        BY <1>4, <1>6 DEF ReadOnce, l
      <4>5. Older(Append(read, m), l, p, s.id)
        BY <1>5, <2>2, <4>1, <4>4, OlderAppend DEF l
      <4>6. Older(read, i - 1, read[i].csid, id)'
        BY <2>1, <2>3, <4>1, <4>2, <4>5
      <4> QED BY <4>3, <4>6
    <3> QED BY <3>1, <3>2
  <2>7. \A d \in PeerCsids : Busy(d)' => Older(read, Len(read), d, sending[d].id)'
    <3> SUFFICES ASSUME NEW d \in PeerCsids, Busy(d)'
                 PROVE  OlderAll(read', d, sending[d].id)
      BY <2>3 DEF OlderAll
    <3>1. d # p /\ Busy(d)
      BY <1>6, <1>7, <1>9
    <3>2. Older(read, Len(read), d, sending[d].id)
      BY <3>1 DEF ReadOnce
    <3>3. m.csid # d
      BY <2>1, <3>1 DEF m
    <3> QED BY <1>5, <2>2, <2>3, <3>2, <3>3, OlderAppendAll
  <2>8. Len(read') + Cardinality(BusySet') = Len(msgs')
    <3>1. BusySet' = BusySet \ {p} /\ p \in BusySet
      BY <1>4, <1>6, <1>7, <1>9 DEF BusySet
    <3>2. IsFiniteSet(BusySet) /\ Cardinality(BusySet) \in Nat /\ l + Cardinality(BusySet) = Len(msgs)
      BY BusyFinite DEF ReadOnce, l
    <3> HIDE DEF BusySet
    <3>3. Cardinality(BusySet') = Cardinality(BusySet) - 1
      BY <3>1, <3>2, FS_RemoveElement
    <3> QED BY <2>3, <2>5, <3>2, <3>3
  <2> QED BY <2>6, <2>7, <2>8 DEF ReadOnce
<1> QED BY <1>8, <1>9

---------------------------------------------------------------------------
(* The invariant.                                                          *)

PeerInv ==
    /\ out = [g \in Goroutines |-> <<>>] /\ torn = FALSE
    /\ ChunkShape /\ AckedOnce /\ Made
    /\ ~mixed /\ ~longDelta => Synced /\ ReadOnce

LEMMA PeerInit == ASSUME ChunkInit PROVE PeerInv
<1> USE ChunkAssumption
<1>1. NoStream \in Streams /\ Len(NoStream.data) = 0 /\ NoStream.data = <<>> /\ Filled(NoStream, 0)
  BY DEF NoStream, Streams, Types, Filled
<1>2. NoSend \in Sends /\ NoSend.type = "none" /\ NoSend.left = 0
  <2>1. 0 \in Stamps
    BY DEF Stamps
  <2> QED BY <2>1 DEF NoSend, Sends
<1>3. /\ chunks \in [Keys -> Streams] /\ sending \in [PeerCsids -> Sends]
      /\ \A k \in Keys : chunks[k] = NoStream
      /\ \A c \in PeerCsids : sending[c] = NoSend
  BY <1>1, <1>2 DEF ChunkInit, Keys
<1>4. /\ wire = <<>> /\ msgs = <<>> /\ read = <<>> /\ broken = FALSE /\ mixed = FALSE /\ longDelta = FALSE /\ torn = FALSE
      /\ outSize = Size0 /\ inSize = Size0 /\ window = Window0 /\ ackReceived = 0 /\ acked = 0
      /\ out = [g \in Goroutines |-> <<>>]
  BY DEF ChunkInit
<1>5. Len(<<>>) = 0
  OBVIOUS
<1>6. ChunkTypes
  <2>1. Size0 \in Nat \ {0} /\ Window0 \in Nat \ {0} /\ 0 \in Nat
    OBVIOUS
  <2>2. <<>> \in Seq(Sent) /\ <<>> \in Seq(Reads) /\ <<>> \in Seq(Tokens)
    OBVIOUS
  <2> QED BY <1>3, <1>4, <2>1, <2>2 DEF ChunkTypes
<1>7. ChunkShape
  BY <1>1, <1>3, <1>4, <1>5, <1>6 DEF ChunkShape
<1>8. AckedOnce
  BY <1>4, TotalEmpty DEF AckedOnce
<1>9. Made
  BY <1>2, <1>3 DEF Made
<1>10. Synced
  <2>1. \A c \in PeerCsids : ~Used(c)
    BY <1>2, <1>3 DEF Used
  <2>2. \A k \in Keys : chunks[k].remain = 0
    BY <1>3 DEF NoStream
  <2>3. \A c \in PeerCsids : ~(sending[c].left > 0)
    BY <1>2, <1>3
  <2> QED BY <1>4, <2>1, <2>2, <2>3 DEF Synced
<1>11. ReadOnce
  <2>1. BusySet = {}
    <3>1. \A c \in PeerCsids : ~Busy(c)
      BY <1>2, <1>3, <1>4 DEF Busy, OnWire
    <3> QED BY <3>1 DEF BusySet
  <2>2. Cardinality(BusySet) = 0
    BY <2>1, FS_EmptySet
  <2>3. \A c \in PeerCsids : ~Busy(c)
    BY <2>1 DEF BusySet
  <2> QED BY <1>4, <1>5, <2>2, <2>3 DEF ReadOnce
<1> QED BY <1>4, <1>7, <1>8, <1>9, <1>10, <1>11 DEF PeerInv

LEMMA ReadPeer ==
    ASSUME PeerInv, ReadChunk
    PROVE  PeerInv'
<1>1. ChunkShape /\ AckedOnce /\ Made
  BY DEF PeerInv
<1>2. ChunkShape' /\ AckedOnce'
  BY <1>1, ReadShape
<1>3. UNCHANGED <<msgs, sending, out, mixed, longDelta, torn>>
  BY ReadChunkIs
<1>4. Made'
  BY <1>1, <1>3 DEF Made
<1>5. ASSUME ~mixed', ~longDelta' PROVE Synced' /\ ReadOnce'
  <2>1. Synced /\ ReadOnce
    BY <1>3, <1>5 DEF PeerInv
  <2>2. Synced'
    BY <1>1, <2>1, SyncRead
  <2>3. ReadOnce'
    BY <1>1, <2>1, RetRead
  <2> QED BY <2>2, <2>3
<1> QED BY <1>2, <1>3, <1>4, <1>5 DEF PeerInv

LEMMA StartPeer ==
    ASSUME PeerInv, NEW c \in PeerCsids, NEW fmt \in 0 .. 3, NEW t \in Times, NEW n \in Lengths, NEW type \in Types,
           PeerStart(c, fmt, t, n, type)
    PROVE  PeerInv'
<1>1. ChunkShape /\ AckedOnce /\ Made
  BY DEF PeerInv
<1>2. ChunkShape' /\ AckedOnce'
  BY <1>1, StartShape
<1>3. Made' /\ UNCHANGED <<out, torn>>
  <2>1. Made'
    BY <1>1, StartMade
  <2>2. Starts(c, fmt, t, n, type)
    BY StartIs
  <2> QED BY <2>1, <2>2 DEF Starts
<1>4. ASSUME ~mixed', ~longDelta' PROVE Synced' /\ ReadOnce'
  <2>1. Starts(c, fmt, t, n, type)
    BY StartIs
  <2>2. ~mixed /\ ~longDelta
    BY <1>4, <2>1 DEF Starts
  <2>3. Synced /\ ReadOnce
    BY <2>2 DEF PeerInv
  <2>4. Synced'
    BY <1>1, <1>4, <2>3, SyncStart
  <2>5. ReadOnce'
    BY <1>1, <2>3, RetStart
  <2> QED BY <2>4, <2>5
<1> QED BY <1>2, <1>3, <1>4 DEF PeerInv

LEMMA ContinuePeer ==
    ASSUME PeerInv, NEW c \in PeerCsids, PeerContinue(c)
    PROVE  PeerInv'
<1>1. ChunkShape /\ AckedOnce /\ Made
  BY DEF PeerInv
<1>2. ChunkShape' /\ AckedOnce'
  BY <1>1, ContinueShape
<1>3. Made' /\ UNCHANGED <<out, torn>>
  <2>1. Made'
    BY <1>1, ContinueMade
  <2>2. Continues(c)
    BY ContinueIs
  <2> QED BY <2>1, <2>2 DEF Continues
<1>4. ASSUME ~mixed', ~longDelta' PROVE Synced' /\ ReadOnce'
  <2>1. Continues(c)
    BY ContinueIs
  <2>2. ~mixed /\ ~longDelta
    BY <1>4, <2>1 DEF Continues
  <2>3. Synced /\ ReadOnce
    BY <2>2 DEF PeerInv
  <2>4. Synced'
    BY <1>1, <2>3, SyncContinue
  <2>5. ReadOnce'
    BY <1>1, <2>3, RetContinue
  <2> QED BY <2>4, <2>5
<1> QED BY <1>2, <1>3, <1>4 DEF PeerInv

LEMMA PeerSteps ==
    ASSUME mode = "peer", PeerInv, [ChunkNext]_chunkVars
    PROVE  PeerInv'
<1>1. CASE UNCHANGED chunkVars
  <2>1. UNCHANGED <<mode, wire, msgs, sending, outSize, out, chunks, inSize, window, ackReceived, acked, read, broken,
                    mixed, longDelta, torn>>
    BY <1>1 DEF chunkVars
  <2>2. ChunkShape' /\ AckedOnce' /\ Made'
    BY <2>1 DEF PeerInv, ChunkShape, ChunkTypes, AckedOnce, Made
  <2>3. Synced' <=> Synced
    BY <2>1 DEF Synced, Used, OnWire, Pending, RdHdr
  <2>4. ReadOnce' <=> ReadOnce
    BY <2>1 DEF ReadOnce, IsSent, Older, BusySet, Busy, OnWire
  <2> QED BY <2>1, <2>2, <2>3, <2>4 DEF PeerInv
<1>2. ASSUME NEW c \in PeerCsids, NEW fmt \in 0 .. 3, NEW t \in Times, NEW n \in Lengths, NEW type \in Types,
             PeerStart(c, fmt, t, n, type)
      PROVE  PeerInv'
  BY <1>2, StartPeer
<1>3. ASSUME NEW c \in PeerCsids, PeerContinue(c) PROVE PeerInv'
  BY <1>3, ContinuePeer
<1>4. ASSUME ReadChunk PROVE PeerInv'
  BY <1>4, ReadPeer
<1>5. ASSUME NEW g \in Goroutines PROVE ~Emit(g) /\ \A m \in OwnSends : ~WriteMsg(g, m)
  <2>1. out[g] = <<>>
    BY <1>5 DEF PeerInv
  <2>2. ~Emit(g)
    BY <2>1 DEF Emit
  <2>3. \A m \in OwnSends : ~WriteMsg(g, m)
    BY DEF WriteMsg
  <2> QED BY <2>2, <2>3
<1> QED BY <1>1, <1>2, <1>3, <1>4, <1>5 DEF ChunkNext

LEMMA ModeStays == ASSUME [ChunkNext]_chunkVars PROVE mode' = mode
<1>1. ASSUME NEW c, NEW fmt, NEW t, NEW n, NEW type, PeerStart(c, fmt, t, n, type) PROVE mode' = mode
  <2>1. Starts(c, fmt, t, n, type)
    BY <1>1, StartIs
  <2> QED BY <2>1 DEF Starts
<1>2. ASSUME NEW c, PeerContinue(c) PROVE mode' = mode
  <2>1. Continues(c)
    BY <1>2, ContinueIs
  <2> QED BY <2>1 DEF Continues
<1>3. ASSUME NEW g, Emit(g) PROVE mode' = mode
  BY <1>3 DEF Emit
<1>4. ASSUME NEW g, NEW m, WriteMsg(g, m) PROVE mode' = mode
  BY <1>4 DEF WriteMsg
<1>5. ReadChunk => mode' = mode
  BY ReadChunkIs
<1>6. UNCHANGED chunkVars => mode' = mode
  BY DEF chunkVars
<1> QED BY <1>1, <1>2, <1>3, <1>4, <1>5, <1>6 DEF ChunkNext

LEMMA PeerArrives ==
    ASSUME mode = "peer", PeerInv
    PROVE  ChunksArrive
<1>1. ChunkShape /\ AckedOnce /\ Made
  BY DEF PeerInv
<1>2. msgs \in Seq(Sent) /\ read \in Seq(Reads) /\ Len(msgs) \in Nat /\ Len(read) \in Nat
      /\ DOMAIN msgs = 1 .. Len(msgs) /\ DOMAIN read = 1 .. Len(read)
  BY <1>1 DEF ChunkShape, ChunkTypes
<1>3. ReadAsSent
  <2> SUFFICES ASSUME ~mixed, ~longDelta
               PROVE  /\ ~broken
                      /\ \A i \in DOMAIN read :
                           \E id \in DOMAIN msgs :
                              /\ \A f \in {"csid", "ts", "len", "type"} : read[i][f] = msgs[id][f]
                              /\ read[i].data = Units(id, 0, msgs[id].len)
                              /\ \A j \in 1 .. i - 1 : \A d \in DOMAIN read[j].data :
                                   LET other == read[j].data[d].csid IN
                                   read[j].csid = read[i].csid /\ msgs[other].by = msgs[id].by => other < id
    BY DEF ReadAsSent
  <2>1. Synced /\ ReadOnce
    BY DEF PeerInv
  <2>2. ~broken
    BY <2>1 DEF Synced
  <2>3. ASSUME NEW i \in 1 .. Len(read)
        PROVE  \E id \in 1 .. Len(msgs) :
                  /\ \A f \in {"csid", "ts", "len", "type"} : read[i][f] = msgs[id][f]
                  /\ read[i].data = Units(id, 0, msgs[id].len)
                  /\ \A j \in 1 .. i - 1 : \A d \in DOMAIN read[j].data :
                       read[j].csid = read[i].csid => read[j].data[d].csid < id
    <3>1. PICK id : IsSent(read[i], id) /\ Older(read, i - 1, read[i].csid, id)
      BY <2>1 DEF ReadOnce
    <3>2. id \in 1 .. Len(msgs) /\ read[i].data = Units(id, 0, msgs[id].len)
          /\ read[i].csid = msgs[id].csid /\ read[i].ts = msgs[id].ts /\ read[i].len = msgs[id].len
          /\ read[i].type = msgs[id].type
      BY <3>1 DEF IsSent
    <3>3. \A j \in 1 .. i - 1 : j \in 1 .. Len(read)
      BY <1>2
    <3>4. \A j \in 1 .. i - 1 : DOMAIN read[j].data = 1 .. Len(read[j].data)
      <4> SUFFICES ASSUME NEW j \in 1 .. i - 1 PROVE DOMAIN read[j].data = 1 .. Len(read[j].data)
        OBVIOUS
      <4>1. read[j] \in Reads
        BY <1>2, <3>3, ElementOfSeq
      <4>2. read[j].data \in Seq(Tokens)
        BY <4>1 DEF Reads
      <4> QED BY <4>2
    <3>5. \A j \in 1 .. i - 1 : \A d \in DOMAIN read[j].data :
            read[j].csid = read[i].csid => read[j].data[d].csid < id
      BY <3>1, <3>4 DEF Older
    <3>6. \A f \in {"csid", "ts", "len", "type"} : read[i][f] = msgs[id][f]
      BY <3>2
    <3> QED BY <3>2, <3>5, <3>6, Zenon
  <2> QED BY <1>2, <2>2, <2>3, SMTT(20)
<1>4. AllRead
  <2> SUFFICES ASSUME ~mixed, ~longDelta, wire = <<>>, \A c \in PeerCsids : sending[c].left = 0
               PROVE  Len(read) = Cardinality({id \in DOMAIN msgs : mode = "peer" \/ msgs[id].len > 0})
    BY DEF AllRead
  <2>1. Len(read) + Cardinality(BusySet) = Len(msgs)
    BY DEF PeerInv, ReadOnce
  <2>2. BusySet = {}
    <3>1. ~(0 > 0)
      OBVIOUS
    <3> QED BY <3>1 DEF BusySet, Busy, OnWire
  <2>3. Cardinality(BusySet) = 0
    BY <2>2, FS_EmptySet
  <2>4. {id \in DOMAIN msgs : mode = "peer" \/ msgs[id].len > 0} = 1 .. Len(msgs)
    BY <1>2
  <2>5. Cardinality(1 .. Len(msgs)) = Len(msgs)
    <3> DEFINE k == Len(msgs)
    <3>1. k \in Int /\ 1 \in Int /\ k \in Nat
      BY <1>2
    <3> HIDE DEF k
    <3>2. Cardinality(1 .. k) = IF 1 > k THEN 0 ELSE k - 1 + 1
      BY <3>1, FS_Interval
    <3> QED BY <3>1, <3>2 DEF k
  <2>6. Len(read) = Len(msgs)
    <3>1. Len(read) + 0 = Len(msgs)
      BY <2>1, <2>3, Zenon
    <3> DEFINE a == Len(read)
    <3>2. a \in Nat /\ a + 0 = Len(msgs)
      BY <1>2, <3>1
    <3> HIDE DEF a
    <3>3. a = Len(msgs)
      BY <3>2
    <3> QED BY <3>3 DEF a
  <2> QED BY <2>4, <2>5, <2>6
<1> QED BY <1>1, <1>3, <1>4 DEF ChunksArrive

---------------------------------------------------------------------------
(* Conn.Write.  What a goroutine writes for a message.                     *)

OwnMsgs == [ts : Stamps, len : Nat, type : Types]

LEMMA OwnSendsTyped == OwnSends \subseteq OwnMsgs /\ \A m \in OwnSends : m.type # "media" => m.len = 1
BY ChunkAssumption DEF OwnMsgs, Stamps, Types

PieceLen(m, size, i) == Min2(size, m.len - i * size)
Piece(csid, m, id, size, i) ==
    WriteHeader(IF i = 0 THEN 0 ELSE 3, csid, m) \o Units(id, i * size, PieceLen(m, size, i))
Ends(m, size, i) == i > m.len \div size \/ i * size = m.len
NextRound(f, csid, m, id, size, i) == IF Ends(m, size, i) THEN <<>> ELSE Piece(csid, m, id, size, i) \o f[i + 1]
IsRounds(f, csid, m, id, size) == f = [i \in Nat |-> NextRound(f, csid, m, id, size, i)]

LEMMA EndsIs ==
    ASSUME NEW m \in OwnMsgs, NEW size \in Nat \ {0}, NEW i \in Nat
    PROVE  i * size \in Nat /\ (Ends(m, size, i) <=> i * size >= m.len) /\ (i + 1) * size = i * size + size
<1> DEFINE a == m.len
<1>1. a \in Nat
  BY DEF OwnMsgs
<1> HIDE DEF a
<1>2. i > a \div size <=> i * size > a
  BY <1>1
<1>3. i * size \in Nat /\ (i + 1) * size = i * size + size
  OBVIOUS
<1> DEFINE x == i * size
<1>4. Ends(m, size, i) <=> (x > a \/ x = a)
  BY <1>2 DEF Ends, a
<1> HIDE DEF x
<1>5. x \in Nat
  BY <1>3 DEF x
<1>6. (x > a \/ x = a) <=> x >= a
  BY <1>1, <1>5
<1> QED BY <1>3, <1>4, <1>6 DEF x, a

\* A round is a chunk.
OwnHead(csid, m, i) == Header(IF i = 0 THEN 0 ELSE 3, csid, IF i = 0 THEN Field(m.ts) ELSE 0, m.len, m.type)

LEMMA PieceChunk ==
    ASSUME NEW csid \in {2, 6}, NEW m \in OwnMsgs, m.type # "media" => m.len = 1, NEW id \in Nat, NEW size \in Nat \ {0},
           NEW i \in Nat, ~Ends(m, size, i)
    PROVE  /\ PieceLen(m, size, i) \in 1 .. m.len - i * size /\ i * size < m.len
           /\ OwnHead(csid, m, i) \in Tokens /\ Sound(OwnHead(csid, m, i), id)
           /\ Chunk(Piece(csid, m, id, size, i), OwnHead(csid, m, i), m.ts, id, i * size, PieceLen(m, size, i))
<1> USE ChunkAssumption
<1> DEFINE n == PieceLen(m, size, i)
           x == i * size
           h == OwnHead(csid, m, i)
<1>1. m.len \in Nat /\ m.ts \in Nat /\ m.type \in Types
  BY DEF OwnMsgs, Stamps
<1>2. x \in Nat /\ x < m.len
  <2>1. x \in Nat /\ ~(x >= m.len)
    BY EndsIs
  <2> HIDE DEF x
  <2> QED BY <1>1, <2>1
<1>3. n \in 1 .. m.len - x
  <2>1. n = Min2(size, m.len - x)
    BY DEF PieceLen
  <2> HIDE DEF n, x
  <2> QED BY <1>1, <1>2, <2>1 DEF Min2
<1>4. h \in Tokens /\ Sound(h, id)
  <2>1. (IF i = 0 THEN Field(m.ts) ELSE 0) \in Nat
    BY <1>1 DEF Field, Min2
  <2>2. (IF i = 0 THEN 0 ELSE 3) \in 0 .. 3 /\ csid \in Nat
    OBVIOUS
  <2> DEFINE ts == IF i = 0 THEN Field(m.ts) ELSE 0
             fmt == IF i = 0 THEN 0 ELSE 3
  <2>3. h = [t |-> "h", fmt |-> fmt, csid |-> csid, ts |-> ts, len |-> m.len, type |-> m.type]
    BY DEF OwnHead, Header
  <2> HIDE DEF ts, fmt, h
  <2>4. h \in Tokens
    BY <1>1, <2>1, <2>2, <2>3 DEF Tokens, ts, fmt
  <2>5. Sound(h, id)
    BY <1>1, <2>3 DEF Sound, Csids
  <2> QED BY <2>4, <2>5
<1>5. Piece(csid, m, id, size, i) = <<>> \o <<h>> \o ExtField(m.ts) \o Units(id, x, n)
  <2>1. WriteHeader(IF i = 0 THEN 0 ELSE 3, csid, m) = <<h>> \o ExtField(m.ts)
    BY DEF WriteHeader, OwnHead
  <2>2. <<>> \o <<h>> = <<h>>
    <3> HIDE DEF h
    <3> QED OBVIOUS
  <2> HIDE DEF h
  <2> QED BY <2>1, <2>2 DEF Piece
<1> HIDE DEF n, x, h
<1>6. Chunk(Piece(csid, m, id, size, i), h, m.ts, id, x, n)
  <2>1. n \in Nat
    BY <1>1, <1>2, <1>3
  <2> QED BY <1>1, <1>2, <1>4, <1>5, <2>1, ChunkOnWire
<1> QED BY <1>2, <1>3, <1>4, <1>6 DEF n, x, h

SoundSeqs(n) == {s \in Seq(Tokens) : \A j \in 1 .. Len(s) : Sound(s[j], n)}

LEMMA SoundJoin ==
    ASSUME NEW n \in Nat, NEW a \in SoundSeqs(n), NEW b \in SoundSeqs(n)
    PROVE  a \o b \in SoundSeqs(n)
<1>1. a \in Seq(Tokens) /\ b \in Seq(Tokens) /\ (\A j \in 1 .. Len(a) : Sound(a[j], n)) /\ \A j \in 1 .. Len(b) : Sound(b[j], n)
  BY DEF SoundSeqs
<1> DEFINE w == a \o b
<1>2. /\ w \in Seq(Tokens) /\ Len(w) = Len(a) + Len(b)
      /\ \A j \in 1 .. Len(a) + Len(b) : w[j] = IF j <= Len(a) THEN a[j] ELSE b[j - Len(a)]
  BY <1>1, TokensJoined
<1> HIDE DEF w
<1>3. Len(a) \in Nat /\ Len(b) \in Nat
  BY <1>1
<1>4. ASSUME NEW j \in 1 .. Len(w) PROVE Sound(w[j], n)
  <2>1. CASE j <= Len(a)
    BY <1>1, <1>2, <1>3, <2>1
  <2>2. CASE ~(j <= Len(a))
    <3>1. j - Len(a) \in 1 .. Len(b)
      BY <1>2, <1>3, <2>2
    <3> QED BY <1>1, <1>2, <2>2, <3>1
  <2> QED BY <2>1, <2>2
<1> QED BY <1>2, <1>4 DEF SoundSeqs, w

LEMMA PieceSound ==
    ASSUME NEW csid \in {2, 6}, NEW m \in OwnMsgs, m.type # "media" => m.len = 1, NEW id \in Nat \ {0}, NEW size \in Nat \ {0},
           NEW i \in Nat, ~Ends(m, size, i)
    PROVE  Piece(csid, m, id, size, i) \in SoundSeqs(id)
<1> USE ChunkAssumption
<1> DEFINE n == PieceLen(m, size, i)
           x == i * size
           h == OwnHead(csid, m, i)
           w == Piece(csid, m, id, size, i)
<1>1. n \in 1 .. m.len - x /\ x < m.len /\ h \in Tokens /\ Sound(h, id) /\ Chunk(w, h, m.ts, id, x, n)
  BY PieceChunk
<1>2. m.ts \in Nat /\ m.len \in Nat
  BY DEF OwnMsgs, Stamps
<1>3. x \in Nat
  BY EndsIs
<1> HIDE DEF n, x, h, w
<1>4. n \in Nat /\ id \in 1 .. id
  BY <1>1, <1>2, <1>3
<1>5. \A j \in 1 .. Len(w) : Sound(w[j], id)
  BY <1>1, <1>2, <1>3, <1>4, ChunkSound
<1>6. w \in Seq(Tokens)
  BY <1>1 DEF Chunk
<1> QED BY <1>5, <1>6 DEF SoundSeqs, w

\* The rounds are well defined ...
LEMMA RoundsExist ==
    ASSUME NEW csid \in {2, 6}, NEW m \in OwnMsgs, m.type # "media" => m.len = 1, NEW id \in Nat \ {0}, NEW size \in Nat \ {0}
    PROVE  \E f : IsRounds(f, csid, m, id, size)
<1> DEFINE S == SoundSeqs(id)
           K == m.len \div size
           Good(f, k) == \A i \in Nat : i + k > K => f[i] = NextRound(f, csid, m, id, size, i)
           G == {k \in Nat : \E f \in [Nat -> S] : Good(f, k)}
<1>1. m.len \in Nat
  BY DEF OwnMsgs
<1>2. K \in Nat
  <2> DEFINE a == m.len
  <2>1. a \in Nat
    BY <1>1
  <2> HIDE DEF a
  <2>2. a \div size \in Nat
    BY <2>1
  <2> QED BY <2>2 DEF a
<1>3. \A i \in Nat : i > K => Ends(m, size, i)
  BY DEF Ends
<1> HIDE DEF K
<1>4. <<>> \in S
  BY DEF SoundSeqs
<1>5. 0 \in G
  <2> DEFINE f == [i \in Nat |-> <<>>]
  <2>1. f \in [Nat -> S]
    BY <1>4
  <2>2. Good(f, 0)
    BY <1>2, <1>3 DEF NextRound
  <2> QED BY <2>1, <2>2
<1>6. ASSUME NEW k \in G PROVE k + 1 \in G
  <2>1. PICK f \in [Nat -> S] : Good(f, k)
    OBVIOUS
  <2>2. k \in Nat
    OBVIOUS
  <2>3. CASE k > K
    <3>1. Good(f, k + 1)
      BY <1>2, <2>1, <2>2, <2>3
    <3> QED BY <2>1, <2>2, <3>1
  <2>4. CASE ~(k > K)
    <3> DEFINE p == K - k
               v == NextRound(f, csid, m, id, size, p)
               g == [f EXCEPT ![p] = v]
    <3>1. p \in Nat
      BY <1>2, <2>2, <2>4
    <3>2. v \in S
      <4>1. CASE Ends(m, size, p)
        BY <1>4, <4>1 DEF NextRound
      <4>2. CASE ~Ends(m, size, p)
        <5>1. Piece(csid, m, id, size, p) \in S
          BY <3>1, <4>2, PieceSound
        <5>2. f[p + 1] \in S
          BY <3>1
        <5>3. Piece(csid, m, id, size, p) \o f[p + 1] \in S
          BY <5>1, <5>2, SoundJoin
        <5> QED BY <4>2, <5>3 DEF NextRound
      <4> QED BY <4>1, <4>2
    <3> HIDE DEF v
    <3>3. g \in [Nat -> S]
      BY <3>1, <3>2
    <3>4. g[p] = v /\ \A i \in Nat : i # p => g[i] = f[i]
      BY <3>1
    <3> HIDE DEF g
    <3>5. ASSUME NEW i \in Nat, i + (k + 1) > K PROVE g[i] = NextRound(g, csid, m, id, size, i)
      <4>1. i + 1 # p /\ i + 1 \in Nat /\ (i # p => i + k > K)
        BY <1>2, <2>2, <3>1, <3>5
      <4>2. g[i + 1] = f[i + 1]
        BY <3>4, <4>1
      <4>3. NextRound(g, csid, m, id, size, i) = NextRound(f, csid, m, id, size, i)
        BY <4>2 DEF NextRound
      <4>4. CASE i = p
        BY <3>4, <4>3, <4>4 DEF v
      <4>5. CASE i # p
        BY <2>1, <3>4, <4>1, <4>3, <4>5
      <4> QED BY <4>4, <4>5
    <3>6. Good(g, k + 1)
      BY <3>5
    <3> QED BY <2>2, <3>3, <3>6
  <2> QED BY <2>3, <2>4
<1>7. G = Nat
  <2> HIDE DEF G
  <2>1. G \in SUBSET Nat
    BY DEF G
  <2> QED BY <1>5, <1>6, <2>1, NaturalsAll
<1>8. K + 1 \in G
  <2> HIDE DEF G
  <2>1. K + 1 \in Nat
    BY <1>2
  <2> QED BY <1>7, <2>1
<1>9. PICK f \in [Nat -> S] : Good(f, K + 1)
  BY <1>8
<1>10. \A i \in Nat : f[i] = NextRound(f, csid, m, id, size, i)
  <2>1. \A i \in Nat : i + (K + 1) > K
    BY <1>2
  <2> QED BY <1>9, <2>1
<1>11. IsRounds(f, csid, m, id, size)
  BY <1>9, <1>10 DEF IsRounds
<1> QED BY <1>11

LEMMA RoundsDef ==
    ASSUME NEW csid, NEW m, NEW id, NEW size
    PROVE  Rounds(csid, m, id, size) =
             CHOOSE f : f = [i \in Nat |-> IF i > m.len \div size \/ i * size = m.len THEN <<>>
                                           ELSE WriteHeader(IF i = 0 THEN 0 ELSE 3, csid, m)
                                                \o Units(id, i * size, Min2(size, m.len - i * size)) \o f[i + 1]]
BY DEF Rounds

LEMMA RoundsIs ==
    ASSUME NEW csid \in {2, 6}, NEW m \in OwnMsgs, m.type # "media" => m.len = 1, NEW id \in Nat \ {0}, NEW size \in Nat \ {0}
    PROVE  IsRounds(Rounds(csid, m, id, size), csid, m, id, size)
<1>1. \E f : IsRounds(f, csid, m, id, size)
  BY RoundsExist
<1>2. Rounds(csid, m, id, size) = CHOOSE f : IsRounds(f, csid, m, id, size)
  BY RoundsDef DEF IsRounds, NextRound, Ends, Piece, PieceLen
<1> QED BY <1>1, <1>2

RoundIs(f, csid, m, id, size, i) ==
    /\ i * size >= m.len => f[i] = <<>>
    /\ ~(i * size >= m.len) => ~Ends(m, size, i) /\ f[i] = Piece(csid, m, id, size, i) \o f[i + 1]

LEMMA RoundNext ==
    ASSUME NEW csid \in {2, 6}, NEW m \in OwnMsgs, m.type # "media" => m.len = 1, NEW id \in Nat \ {0}, NEW size \in Nat \ {0},
           NEW i \in Nat
    PROVE  RoundIs(Rounds(csid, m, id, size), csid, m, id, size, i)
<1> DEFINE f == Rounds(csid, m, id, size)
<1>1. IsRounds(f, csid, m, id, size)
  BY RoundsIs
<1> HIDE DEF f
<1>2. f[i] = NextRound(f, csid, m, id, size, i)
  BY <1>1 DEF IsRounds
<1>3. Ends(m, size, i) <=> i * size >= m.len
  BY EndsIs
<1> QED BY <1>2, <1>3 DEF NextRound, RoundIs, f

\* ... and made of tokens of the message.
LEMMA RoundsSound ==
    ASSUME NEW csid \in {2, 6}, NEW m \in OwnMsgs, m.type # "media" => m.len = 1, NEW id \in Nat \ {0}, NEW size \in Nat \ {0}
    PROVE  \A i \in Nat : Rounds(csid, m, id, size)[i] \in SoundSeqs(id)
<1> DEFINE f == Rounds(csid, m, id, size)
           K == m.len \div size
           S == SoundSeqs(id)
           G == {k \in Nat : \A i \in Nat : i + k > K => f[i] \in S}
<1>1. IsRounds(f, csid, m, id, size)
  BY RoundsIs
<1> HIDE DEF f
<1>2. \A i \in Nat : f[i] = NextRound(f, csid, m, id, size, i)
  BY <1>1 DEF IsRounds
<1>3. K \in Nat
  <2> DEFINE a == m.len
  <2>1. a \in Nat
    BY DEF OwnMsgs
  <2> HIDE DEF a
  <2>2. a \div size \in Nat
    BY <2>1
  <2> QED BY <2>2 DEF a
<1>4. <<>> \in S
  BY DEF SoundSeqs
<1>5. \A i \in Nat : i > K => f[i] \in S
  <2>1. \A i \in Nat : i > K => Ends(m, size, i)
    BY DEF Ends
  <2> QED BY <1>2, <1>4, <2>1 DEF NextRound
<1> HIDE DEF K
<1>6. 0 \in G
  BY <1>3, <1>5
<1>7. ASSUME NEW k \in G PROVE k + 1 \in G
  <2> SUFFICES ASSUME NEW i \in Nat, i + (k + 1) > K PROVE f[i] \in S
    OBVIOUS
  <2>1. (i + 1) + k > K /\ i + 1 \in Nat
    BY <1>3
  <2>2. f[i + 1] \in S
    BY <2>1
  <2>3. CASE Ends(m, size, i)
    BY <1>2, <1>4, <2>3 DEF NextRound
  <2>4. CASE ~Ends(m, size, i)
    <3>1. Piece(csid, m, id, size, i) \in S
      BY <2>4, PieceSound
    <3>2. Piece(csid, m, id, size, i) \o f[i + 1] \in S
      BY <2>2, <3>1, SoundJoin
    <3> QED BY <1>2, <2>4, <3>2 DEF NextRound
  <2> QED BY <2>3, <2>4
<1>8. G = Nat
  <2> HIDE DEF G
  <2>1. G \in SUBSET Nat
    BY DEF G
  <2> QED BY <1>6, <1>7, <2>1, NaturalsAll
<1>9. K + 1 \in G
  <2>1. K + 1 \in Nat
    BY <1>3
  <2> HIDE DEF G
  <2> QED BY <1>8, <2>1
<1>10. \A i \in Nat : i + (K + 1) > K
  BY <1>3
<1> QED BY <1>9, <1>10 DEF f

---------------------------------------------------------------------------
(* The wire between Write and Read: whole chunks, each of which takes the  *)
(* two ends from one mark to the next.  A mark says which chunk size is in *)
(* force, how far the message of the sender is (0 between messages), which *)
(* was the last message of each goroutine, and how many are complete.      *)

Marks == [size : Nat \ {0}, at : Nat, send : Nat, ack : Nat, cnt : Nat]

MediaStep(m, g, id, n, g2) ==
    /\ m.by = "send" /\ m.csid = 6 /\ m.type = "media" /\ g.at < m.len /\ n = Min2(m.len - g.at, g.size)
    /\ g.at = 0 => id > g.send
    /\ g.at # 0 => id = g.send
    /\ g2 = [size |-> g.size, at |-> IF g.at + n = m.len THEN 0 ELSE g.at + n, send |-> id, ack |-> g.ack,
             cnt |-> IF g.at + n = m.len THEN g.cnt + 1 ELSE g.cnt]
ControlStep(m, g, id, n, g2) ==
    /\ m.by = "send" /\ m.csid = 2 /\ m.type # "media" /\ m.len = 1 /\ n = 1 /\ g.at = 0 /\ id > g.send
    /\ g2 = [size |-> IF m.type = "size" THEN m.val ELSE g.size, at |-> 0, send |-> id, ack |-> g.ack, cnt |-> g.cnt + 1]
AckStep(m, g, id, n, g2) ==
    /\ m.by = "ack" /\ m.csid = 2 /\ m.type = "media" /\ m.len = 1 /\ n = 1 /\ id > g.ack
    /\ g2 = [size |-> g.size, at |-> g.at, send |-> g.send, ack |-> id, cnt |-> g.cnt + 1]
MarkStep(m, g, id, n, g2) == MediaStep(m, g, id, n, g2) \/ ControlStep(m, g, id, n, g2) \/ AckStep(m, g, id, n, g2)

ExOf(m) == IF m.ts >= Max24 THEN 1 ELSE 0
FromOf(m, g) == IF m.csid = 6 THEN g.at ELSE 0
HeadOf(m, g) == LET from == FromOf(m, g) IN
    Header(IF from = 0 THEN 0 ELSE 3, m.csid, IF from = 0 THEN Field(m.ts) ELSE 0, m.len, m.type)

SegAt(q, i, h, m, id, from, n) ==
    LET e == ExOf(m) IN
    /\ i + e + n <= Len(q) /\ q[i] = h
    /\ e = 1 => q[i + 1] = Ext(m.ts)
    /\ \A j \in 1 .. n : q[i + e + j] = Unit(id, from + j)

LayWith(ms, q, G, i, id, n) ==
    LET m == ms[id]
        k == i + 1 + ExOf(m) + n
    IN
    /\ id \in 1 .. Len(ms) /\ n \in Nat \ {0}
    /\ MarkStep(m, G[i], id, n, G[k]) /\ SegAt(q, i, HeadOf(m, G[i]), m, id, FromOf(m, G[i]), n)
    /\ k # Len(q) + 1 => q[k].t = "h"

Laid(ms, q, G) ==
    /\ q # <<>> => q[1].t = "h"
    /\ \A i \in 1 .. Len(q) : q[i].t = "h" => \E id, n : LayWith(ms, q, G, i, id, n)

\* Messages that are sent later change nothing.
LEMMA LaidMore ==
    ASSUME NEW ms, NEW ms2, NEW q, NEW G, Len(ms) \in Nat, Len(ms2) \in Nat, Len(ms) <= Len(ms2),
           \A i \in 1 .. Len(ms) : ms2[i] = ms[i], Laid(ms, q, G)
    PROVE  Laid(ms2, q, G)
<1>1. ASSUME NEW i, NEW id, NEW n, LayWith(ms, q, G, i, id, n) PROVE LayWith(ms2, q, G, i, id, n)
  <2>1. id \in 1 .. Len(ms) /\ id \in 1 .. Len(ms2) /\ ms2[id] = ms[id]
    BY <1>1 DEF LayWith
  <2> QED BY <1>1, <2>1 DEF LayWith
<1> QED BY <1>1 DEF Laid

\* Where a chunk ends.
LEMMA ChunkEnds ==
    ASSUME NEW i \in Nat \ {0}, NEW l \in Nat, NEW k \in Nat \ {0}, NEW e \in {0, 1}, NEW n \in Nat \ {0}
    PROVE  /\ i + 1 + e + n \in Nat
           /\ i + e + n <= l => /\ i + 1 + e + n \in 1 .. l + 1 /\ i + 1 + e + n # l + k + 1 /\ i # l + k + 1
                               /\ (i + 1 + e + n # l + 1 => i + 1 + e + n \in 1 .. l) /\ i + e + n <= l + k
                               /\ (e = 1 => i + 1 \in 1 .. l)
                               /\ \A j \in 1 .. n : i + e + j \in 1 .. l
<1>1. i + 1 + e + n \in Nat
  OBVIOUS
<1> SUFFICES ASSUME i + e + n <= l
             PROVE  /\ i + 1 + e + n \in 1 .. l + 1 /\ i + 1 + e + n # l + k + 1 /\ i # l + k + 1
                    /\ (i + 1 + e + n # l + 1 => i + 1 + e + n \in 1 .. l) /\ i + e + n <= l + k
                    /\ (e = 1 => i + 1 \in 1 .. l)
                    /\ \A j \in 1 .. n : i + e + j \in 1 .. l
  BY <1>1
<1>2. \A j \in 1 .. n : i + e + j \in 1 .. l
  OBVIOUS
<1>3. i + 1 + e + n \in 1 .. l + 1 /\ (e = 1 => i + 1 \in 1 .. l)
  OBVIOUS
<1>4. i + 1 + e + n # l + 1 => i + 1 + e + n \in 1 .. l
  OBVIOUS
<1>5. i + 1 + e + n # l + k + 1 /\ i # l + k + 1 /\ i + e + n <= l + k
  OBVIOUS
<1> QED BY <1>2, <1>3, <1>4, <1>5

Shifted(i, l, k, e, n, p) ==
    /\ i + 1 + e + n \in Nat /\ (i + 1 + e + n) + k = p + 1 + e + n /\ i + e + n <= l - k
    /\ (i + 1 + e + n # (l - k) + 1 => i + 1 + e + n \in 1 .. l - k /\ p + 1 + e + n # l + 1)
    /\ (e = 1 => i + 1 \in 1 .. l - k /\ (i + 1) + k = p + 1)
    /\ \A j \in 1 .. n : i + e + j \in 1 .. l - k /\ (i + e + j) + k = p + e + j

LEMMA ChunkShift ==
    ASSUME NEW i \in Nat \ {0}, NEW l \in Nat, NEW k \in Nat \ {0}, NEW e \in {0, 1}, NEW n \in Nat \ {0},
           NEW p, p = i + k, p + e + n <= l
    PROVE  Shifted(i, l, k, e, n, p)
<1>1. i + 1 + e + n \in Nat /\ (i + 1 + e + n) + k = p + 1 + e + n /\ i + e + n <= l - k
  OBVIOUS
<1>2. (i + 1 + e + n # (l - k) + 1 => i + 1 + e + n \in 1 .. l - k /\ p + 1 + e + n # l + 1)
  OBVIOUS
<1>3. (e = 1 => i + 1 \in 1 .. l - k /\ (i + 1) + k = p + 1)
  OBVIOUS
<1>4. \A j \in 1 .. n : i + e + j \in 1 .. l - k /\ (i + e + j) + k = p + e + j
  OBVIOUS
<1> QED BY <1>1, <1>2, <1>3, <1>4 DEF Shifted

\* A chunk more at the end.
Extended(ms, q, G, c, g2, G2) ==
    /\ c \in Seq(Tokens) /\ Len(c) \in Nat \ {0} /\ G2 \in [Nat -> Marks] /\ G2[1] = G[1]
    /\ G2[Len(q) + Len(c) + 1] = g2 /\ Laid(ms, q \o c, G2)

LEMMA LaidExtend ==
    ASSUME NEW ms, NEW q \in Seq(Tokens), NEW G \in [Nat -> Marks], Laid(ms, q, G),
           NEW id \in 1 .. Len(ms), NEW n \in Nat \ {0}, NEW g2 \in Marks, NEW c, NEW g, g = G[Len(q) + 1],
           ms[id].ts \in Nat, MarkStep(ms[id], g, id, n, g2),
           Chunk(c, HeadOf(ms[id], g), ms[id].ts, id, FromOf(ms[id], g), n)
    PROVE  \E G2 : Extended(ms, q, G, c, g2, G2)
<1> DEFINE m == ms[id]
           h == HeadOf(m, g)
           from == FromOf(m, g)
           e == ExOf(m)
           k == 1 + e + n
           l == Len(q)
           G2 == [G EXCEPT ![l + Len(c) + 1] = g2]
           w == q \o c
<1>1. e \in {0, 1}
  BY DEF ExOf
<1>2. c \in Seq(Tokens) /\ Len(c) = k /\ c[1] = h /\ (e = 1 => c[2] = Ext(m.ts)) /\ \A i \in 1 .. n : c[1 + e + i] = Unit(id, from + i)
  BY DEF Chunk, ExOf
<1>3. l \in Nat
  OBVIOUS
<1>4. h.t = "h"
  BY DEF HeadOf, Header
<1> HIDE DEF h, from, e, m, l
<1>5. k \in Nat \ {0} /\ l + k + 1 \in Nat
  BY <1>1, <1>3
<1> HIDE DEF k
<1>6. G2 \in [Nat -> Marks] /\ G2[l + k + 1] = g2 /\ \A i \in Nat : i # l + k + 1 => G2[i] = G[i]
  <2>1. l + Len(c) + 1 = l + k + 1
    BY <1>2
  <2> QED BY <1>5, <2>1
<1> HIDE DEF G2
<1>7. /\ w \in Seq(Tokens) /\ Len(w) = l + k
      /\ \A i \in 1 .. l : w[i] = q[i]
      /\ \A j \in 1 .. k : w[l + j] = c[j]
  <2>1. /\ w \in Seq(Tokens) /\ Len(w) = Len(q) + Len(c)
        /\ \A i \in 1 .. Len(q) + Len(c) : w[i] = IF i <= Len(q) THEN q[i] ELSE c[i - Len(q)]
    BY <1>2, TokensJoined
  <2> HIDE DEF w
  <2>2. Len(w) = l + k /\ \A i \in 1 .. l + k : w[i] = IF i <= l THEN q[i] ELSE c[i - l]
    BY <1>2, <2>1 DEF l
  <2>3. \A i \in 1 .. l : i \in 1 .. l + k /\ i <= l
    BY <1>3, <1>5
  <2>4. \A j \in 1 .. k : l + j \in 1 .. l + k /\ ~(l + j <= l) /\ (l + j) - l = j
    BY <1>3, <1>5
  <2> QED BY <2>1, <2>2, <2>3, <2>4
<1> HIDE DEF w
<1>8. w[l + 1] = h /\ w[l + 1].t = "h"
  <2>1. 1 \in 1 .. k
    BY <1>5
  <2> QED BY <1>2, <1>4, <1>7, <2>1
<1>9. w[1].t = "h"
  <2>1. CASE l = 0
    BY <1>8, <2>1
  <2>2. CASE l # 0
    <3>1. q # <<>> /\ 1 \in 1 .. l
      BY <1>3, <2>2 DEF l
    <3> QED BY <1>7, <3>1 DEF Laid
  <2> QED BY <2>1, <2>2
<1>10. ASSUME NEW i \in 1 .. l, w[i].t = "h" PROVE \E id2, n2 : LayWith(ms, w, G2, i, id2, n2)
  <2>1. q[i].t = "h"
    BY <1>7, <1>10
  <2>2. PICK id2, n2 : LayWith(ms, q, G, i, id2, n2)
    BY <2>1 DEF Laid, l
  <2> DEFINE m2 == ms[id2]
             e2 == ExOf(m2)
             k2 == i + 1 + e2 + n2
             h2 == HeadOf(m2, G[i])
             f2 == FromOf(m2, G[i])
  <2>3. /\ id2 \in 1 .. Len(ms) /\ n2 \in Nat \ {0} /\ MarkStep(m2, G[i], id2, n2, G[k2])
        /\ SegAt(q, i, h2, m2, id2, f2, n2) /\ (k2 # l + 1 => q[k2].t = "h")
    BY <2>2 DEF LayWith, l
  <2>4. e2 \in {0, 1}
    BY DEF ExOf
  <2>5. /\ i + e2 + n2 <= l /\ q[i] = h2 /\ (e2 = 1 => q[i + 1] = Ext(m2.ts))
        /\ \A j \in 1 .. n2 : q[i + e2 + j] = Unit(id2, f2 + j)
    BY <2>3 DEF SegAt, l
  <2> HIDE DEF h2, f2, e2, m2
  <2>0. i \in Nat \ {0} /\ l \in Nat /\ k \in Nat \ {0} /\ e2 \in {0, 1} /\ n2 \in Nat \ {0} /\ i + e2 + n2 <= l /\ i <= l
    BY <1>3, <1>5, <2>3, <2>4, <2>5
  <2>6. /\ k2 \in 1 .. l + 1 /\ i \in Nat /\ k2 # l + k + 1 /\ i # l + k + 1 /\ k2 \in Nat
        /\ (k2 # l + 1 => k2 \in 1 .. l) /\ i + e2 + n2 <= l + k /\ (e2 = 1 => i + 1 \in 1 .. l)
        /\ \A j \in 1 .. n2 : i + e2 + j \in 1 .. l
    BY <2>0, ChunkEnds
  <2>7. G2[i] = G[i] /\ G2[k2] = G[k2]
    BY <1>6, <2>6
  <2>8. i + e2 + n2 <= Len(w)
    BY <1>7, <2>6
  <2>9. e2 = 1 => w[i + 1] = Ext(m2.ts)
    BY <1>7, <2>5, <2>6
  <2>10. \A j \in 1 .. n2 : w[i + e2 + j] = Unit(id2, f2 + j)
    BY <1>7, <2>5, <2>6
  <2>11. SegAt(w, i, h2, m2, id2, f2, n2)
    BY <1>7, <2>5, <2>8, <2>9, <2>10 DEF SegAt, e2
  <2>12. w[k2].t = "h"
    <3>1. CASE k2 = l + 1
      BY <1>8, <3>1
    <3>2. CASE k2 # l + 1
      <4>1. k2 \in 1 .. l
        BY <2>6, <3>2
      <4> QED BY <1>7, <2>3, <3>2, <4>1
    <3> QED BY <3>1, <3>2
  <2>13. LayWith(ms, w, G2, i, id2, n2)
    BY <2>3, <2>7, <2>11, <2>12 DEF LayWith, m2, e2, h2, f2
  <2> QED BY <2>13
<1>11. ASSUME NEW i \in 1 .. l + k, i > l, w[i].t = "h" PROVE i = l + 1
  <2> DEFINE j == i - l
  <2>1. j \in 1 .. k /\ l + j = i
    BY <1>3, <1>5, <1>11
  <2> HIDE DEF j
  <2>2. w[i] = c[j]
    BY <1>7, <2>1
  <2>3. Ext(m.ts).t = "x" /\ \A a, b : Unit(a, b).t = "d"
    BY DEF Ext, Unit
  <2>4. CASE j = 1
    BY <2>1, <2>4
  <2>5. CASE j # 1 /\ j = 1 + e
    <3>1. e = 1 /\ j = 2
      BY <1>1, <2>5
    <3>2. c[j].t = "x"
      BY <1>2, <2>3, <3>1
    <3> QED BY <1>11, <2>2, <3>2
  <2>6. CASE j # 1 /\ j # 1 + e
    <3>1. j - (1 + e) \in 1 .. n /\ 1 + e + (j - (1 + e)) = j
      BY <1>1, <2>1, <2>6 DEF k
    <3>2. c[j].t = "d"
      BY <1>2, <2>3, <3>1
    <3> QED BY <1>11, <2>2, <3>2
  <2> QED BY <2>4, <2>5, <2>6
<1>12. LayWith(ms, w, G2, l + 1, id, n)
  <2>1. G2[l + 1] = g /\ G2[(l + 1) + 1 + e + n] = g2
    <3>1. l + 1 \in Nat /\ l + 1 # l + k + 1 /\ (l + 1) + 1 + e + n = l + k + 1
      BY <1>1, <1>3, <1>5 DEF k
    <3> QED BY <1>6, <3>1 DEF l
  <2>2. (l + 1) + e + n <= Len(w) /\ (l + 1) + 1 + e + n = Len(w) + 1
    BY <1>1, <1>3, <1>7 DEF k
  <2>3. e = 1 => w[(l + 1) + 1] = Ext(m.ts)
    <3>1. e = 1 => 2 \in 1 .. k /\ l + 2 = (l + 1) + 1
      BY <1>3 DEF k
    <3> QED BY <1>2, <1>7, <3>1
  <2>4. \A j \in 1 .. n : w[(l + 1) + e + j] = Unit(id, from + j)
    <3>1. \A j \in 1 .. n : 1 + e + j \in 1 .. k /\ l + (1 + e + j) = (l + 1) + e + j
      BY <1>1, <1>3 DEF k
    <3> QED BY <1>2, <1>7, <3>1
  <2>5. SegAt(w, l + 1, h, m, id, from, n)
    BY <1>8, <2>2, <2>3, <2>4 DEF SegAt, e
  <2> QED BY <2>1, <2>2, <2>5 DEF LayWith, m, e, h, from
<1>13. Laid(ms, w, G2)
  <2>1. ASSUME NEW i \in 1 .. Len(w), w[i].t = "h" PROVE \E id2, n2 : LayWith(ms, w, G2, i, id2, n2)
    <3>1. i \in 1 .. l + k
      BY <1>7, <2>1
    <3>2. CASE i <= l
      <4>1. i \in 1 .. l
        BY <1>3, <3>1, <3>2
      <4> QED BY <1>10, <2>1, <4>1
    <3>3. CASE ~(i <= l)
      <4>1. i = l + 1
        BY <1>3, <1>11, <2>1, <3>1, <3>3
      <4> QED BY <1>12, <4>1
    <3> QED BY <3>2, <3>3
  <2> QED BY <1>9, <2>1 DEF Laid
<1>14. G2[1] = G[1]
  <2>1. 1 # l + k + 1
    BY <1>3, <1>5
  <2> QED BY <1>6, <2>1
<1>15. Len(c) \in Nat \ {0} /\ Len(q) + Len(c) + 1 = l + k + 1
  BY <1>2, <1>5 DEF l
<1>16. Extended(ms, q, G, c, g2, G2)
  BY <1>2, <1>6, <1>13, <1>14, <1>15 DEF Extended, w
<1> QED BY <1>16


\* A chunk less at the beginning.
LEMMA LaidDrop ==
    ASSUME NEW ms, NEW q \in Seq(Tokens), NEW G \in [Nat -> Marks], Laid(ms, q, G), NEW id, NEW n,
           LayWith(ms, q, G, 1, id, n), NEW k, k = 1 + ExOf(ms[id]) + n
    PROVE  /\ k \in Nat /\ k <= Len(q) /\ SubSeq(q, k + 1, Len(q)) \in Seq(Tokens)
           /\ Len(SubSeq(q, k + 1, Len(q))) = Len(q) - k
           /\ Laid(ms, SubSeq(q, k + 1, Len(q)), [i \in Nat |-> G[i + k]])
<1> DEFINE m == ms[id]
           e == ExOf(m)
           l == Len(q)
           w == SubSeq(q, k + 1, Len(q))
           G2 == [i \in Nat |-> G[i + k]]
<1>1. e \in {0, 1}
  BY DEF ExOf
<1>2. n \in Nat \ {0} /\ 1 + e + n <= l /\ (1 + 1 + e + n # l + 1 => q[1 + 1 + e + n].t = "h")
  BY DEF LayWith, SegAt
<1>3. l \in Nat /\ k \in Nat \ {0} /\ k <= l /\ k + 1 = 1 + 1 + e + n
  <2>1. l \in Nat
    OBVIOUS
  <2> HIDE DEF e, l
  <2>2. k = 1 + e + n
    BY DEF e
  <2> QED BY <1>1, <1>2, <2>1, <2>2
<1>4. k + 1 # l + 1 => q[k + 1].t = "h"
  BY <1>2, <1>3
<1> HIDE DEF e, m
<1>5. w \in Seq(Tokens) /\ Len(w) = l - k /\ \A i \in 1 .. l - k : w[i] = q[i + k]
  <2>1. w \in Seq(Tokens) /\ Len(w) = l - k
    BY <1>3
  <2>2. \A i \in 1 .. l - k : w[i] = q[i + k]
    BY <1>3
  <2> QED BY <2>1, <2>2
<1> HIDE DEF w
<1>6. \A i \in Nat : G2[i] = G[i + k]
  OBVIOUS
<1> HIDE DEF G2, l
<1>7. w # <<>> => w[1].t = "h"
  <2> SUFFICES ASSUME w # <<>> PROVE w[1].t = "h"
    OBVIOUS
  <2>1. Len(w) # 0
    BY <1>5, EmptySeq
  <2>2. 1 \in 1 .. l - k /\ 1 + k = k + 1 /\ k + 1 # l + 1
    BY <1>3, <1>5, <2>1
  <2> QED BY <1>4, <1>5, <2>2
<1>8. ASSUME NEW i \in 1 .. l - k, w[i].t = "h" PROVE \E id2, n2 : LayWith(ms, w, G2, i, id2, n2)
  <2> DEFINE p == i + k
  <2>1. p \in 1 .. l /\ p \in Nat /\ i \in Nat /\ q[p].t = "h"
    <3>1. p \in 1 .. l /\ p \in Nat /\ i \in Nat
      BY <1>3
    <3>2. w[i] = q[p]
      BY <1>5
    <3> QED BY <1>8, <3>1, <3>2
  <2> HIDE DEF p
  <2>2. PICK id2, n2 : LayWith(ms, q, G, p, id2, n2)
    BY <2>1 DEF Laid, l
  <2> DEFINE m2 == ms[id2]
             e2 == ExOf(m2)
             h2 == HeadOf(m2, G[p])
             f2 == FromOf(m2, G[p])
  <2>3. /\ id2 \in 1 .. Len(ms) /\ n2 \in Nat \ {0} /\ MarkStep(m2, G[p], id2, n2, G[p + 1 + e2 + n2])
        /\ SegAt(q, p, h2, m2, id2, f2, n2) /\ (p + 1 + e2 + n2 # l + 1 => q[p + 1 + e2 + n2].t = "h")
    BY <2>2 DEF LayWith, l
  <2>4. e2 \in {0, 1}
    BY DEF ExOf
  <2>5. /\ p + e2 + n2 <= l /\ q[p] = h2 /\ (e2 = 1 => q[p + 1] = Ext(m2.ts))
        /\ \A j \in 1 .. n2 : q[p + e2 + j] = Unit(id2, f2 + j)
    BY <2>3 DEF SegAt, l
  <2> HIDE DEF h2, f2, e2, m2
  <2>6. /\ i \in Nat \ {0} /\ l \in Nat /\ k \in Nat \ {0} /\ e2 \in {0, 1} /\ n2 \in Nat \ {0} /\ p + e2 + n2 <= l /\ p = i + k
    <3>1. i \in Nat \ {0}
      BY <1>3
    <3>2. p = i + k
      BY DEF p
    <3> QED BY <1>3, <2>3, <2>4, <2>5, <3>1, <3>2
  <2> DEFINE k2 == i + 1 + e2 + n2
  <2>7. /\ k2 \in Nat /\ k2 + k = p + 1 + e2 + n2 /\ i + e2 + n2 <= l - k
        /\ (k2 # (l - k) + 1 => k2 \in 1 .. l - k /\ p + 1 + e2 + n2 # l + 1)
        /\ (e2 = 1 => i + 1 \in 1 .. l - k /\ (i + 1) + k = p + 1)
        /\ \A j \in 1 .. n2 : i + e2 + j \in 1 .. l - k /\ (i + e2 + j) + k = p + e2 + j
    <3>1. Shifted(i, l, k, e2, n2, p)
      BY <2>6, ChunkShift
    <3> QED BY <3>1 DEF Shifted
  <2>8. G2[i] = G[p] /\ G2[k2] = G[p + 1 + e2 + n2]
    BY <1>6, <2>1, <2>7 DEF p
  <2>9. w[i] = h2
    BY <1>5, <2>5 DEF p
  <2>10. e2 = 1 => w[i + 1] = Ext(m2.ts)
    BY <1>5, <2>5, <2>7
  <2>11. ASSUME NEW j \in 1 .. n2 PROVE w[i + e2 + j] = Unit(id2, f2 + j)
    <3>1. PICK z : z = i + e2 + j /\ z \in 1 .. l - k /\ z + k = p + e2 + j
      BY <2>7
    <3>2. w[z] = q[z + k]
      BY <1>5, <3>1
    <3>3. q[p + e2 + j] = Unit(id2, f2 + j)
      BY <2>5
    <3> QED BY <3>1, <3>2, <3>3
  <2>12. SegAt(w, i, h2, m2, id2, f2, n2)
    BY <1>5, <2>7, <2>9, <2>10, <2>11 DEF SegAt, e2
  <2>13. k2 # Len(w) + 1 => w[k2].t = "h"
    BY <1>5, <2>3, <2>7
  <2>14. LayWith(ms, w, G2, i, id2, n2)
    BY <2>3, <2>8, <2>12, <2>13 DEF LayWith, m2, e2, h2, f2
  <2> QED BY <2>14
<1>9. Laid(ms, w, G2)
  BY <1>5, <1>7, <1>8 DEF Laid
<1> QED BY <1>3, <1>5, <1>9 DEF w, G2, l

---------------------------------------------------------------------------
(* What the goroutines have still to write, from a mark on.                *)

AsSent(m) == [ts |-> m.ts, len |-> m.len, type |-> m.type]

\* Write is in round i of message id ...
SendAt(ms, sz, g, rs, id, i) ==
    LET m == ms[id] IN
    /\ id \in 1 .. Len(ms) /\ i \in Nat /\ m.by = "send" /\ m.csid = (IF m.type = "media" THEN 6 ELSE 2)
    /\ m.type # "media" => m.len = 1
    /\ i * sz < m.len /\ g.at = i * sz
    /\ i = 0 => id > g.send
    /\ i # 0 => id = g.send
    /\ m.type # "size" => g.size = sz
    /\ m.type = "size" => m.val = sz
    /\ rs = Rounds(m.csid, AsSent(m), id, sz)[i]
\* ... ack at message id, which has one.
AckAt(ms, g, ra, id) ==
    LET m == ms[id] IN
    /\ id \in 1 .. Len(ms) /\ m.by = "ack" /\ m.csid = 2 /\ m.type = "media" /\ m.len = 1 /\ id > g.ack
    /\ \E sz \in Nat \ {0} : ra = Rounds(2, AsSent(m), id, sz)[0]

SendRest(ms, sz, g, rs, p) ==
    \/ p = 0 /\ rs = <<>> /\ g.at = 0 /\ g.size = sz
    \/ p = 1 /\ \E id, i : SendAt(ms, sz, g, rs, id, i)
AckRest(ms, g, ra, p) == (p = 0 /\ ra = <<>>) \/ (p = 1 /\ \E id : AckAt(ms, g, ra, id))

WithData(ms) == {id \in 1 .. Len(ms) : ms[id].len > 0}
WriterAt(ms, sz, g, rs, ra) ==
    /\ g.send <= Len(ms) /\ g.ack <= Len(ms)
    /\ \E p, r \in {0, 1} :
         SendRest(ms, sz, g, rs, p) /\ AckRest(ms, g, ra, r) /\ g.cnt + p + r = Cardinality(WithData(ms))

\* The chunk c of message id takes the ends from mark g to g2.
NextChunk(ms, g, id, n, g2, c) ==
    /\ id \in 1 .. Len(ms) /\ n \in Nat \ {0} /\ g2 \in Marks /\ ms[id].ts \in Nat
    /\ MarkStep(ms[id], g, id, n, g2) /\ Chunk(c, HeadOf(ms[id], g), ms[id].ts, id, FromOf(ms[id], g), n)

SendNext(ms, sz, g, rs, id, c, n, g2, rs2, p) ==
    /\ rs = c \o rs2 /\ rs2 \in Seq(Tokens) /\ NextChunk(ms, g, id, n, g2, c) /\ p \in {0, 1}
    /\ SendRest(ms, sz, g2, rs2, p) /\ g2.cnt + p = g.cnt + 1 /\ g2.send = id /\ g2.ack = g.ack

LEMMA MsgIs ==
    ASSUME NEW ms \in Seq(Sent), NEW id \in 1 .. Len(ms)
    PROVE  /\ AsSent(ms[id]) \in OwnMsgs /\ ms[id].ts \in Nat /\ ms[id].len \in Nat /\ ms[id].val \in Nat \ {0} /\ id \in Nat \ {0}
           /\ AsSent(ms[id]).ts = ms[id].ts /\ AsSent(ms[id]).len = ms[id].len /\ AsSent(ms[id]).type = ms[id].type
<1>1. ms[id] \in Sent
  BY ElementOfSeq
<1>2. Len(ms) \in Nat
  OBVIOUS
<1>3. id \in Nat \ {0}
  BY <1>2
<1> QED BY <1>1, <1>3, ChunkAssumption DEF AsSent, OwnMsgs, Sent, Stamps

\* What a round takes of the l units of a message from unit y on.
Portion(l, y, s, k) ==
    /\ k \in Nat \ {0} /\ k = Min2(l - y, s) /\ (y + k = l => y + s >= l) /\ (y + k # l => k = s /\ y + k < l)

LEMMA PortionOf ==
    ASSUME NEW l \in Nat, NEW y \in Nat, y < l, NEW s \in Nat \ {0}, NEW k, k = Min2(s, l - y)
    PROVE  Portion(l, y, s, k)
BY DEF Min2, Portion

\* A round of a message of media.
LEMMA MediaChunk ==
    ASSUME NEW ms \in Seq(Sent), NEW sz \in Nat \ {0}, NEW g \in Marks, NEW rs, NEW id, NEW i,
           SendAt(ms, sz, g, rs, id, i), ms[id].type = "media"
    PROVE  \E c, n, g2, rs2, p : SendNext(ms, sz, g, rs, id, c, n, g2, rs2, p)
<1> DEFINE m == ms[id]
           am == AsSent(m)
           x == i * sz
           n == PieceLen(am, sz, i)
           c == Piece(6, am, id, sz, i)
           f == Rounds(6, am, id, sz)
<1>1. /\ id \in 1 .. Len(ms) /\ i \in Nat /\ m.by = "send" /\ m.csid = 6 /\ m.type = "media"
      /\ x < m.len /\ g.at = x /\ (i = 0 => id > g.send) /\ (i # 0 => id = g.send) /\ g.size = sz /\ rs = f[i]
  BY DEF SendAt
<1>2. am \in OwnMsgs /\ m.ts \in Nat /\ m.len \in Nat /\ id \in Nat \ {0} /\ am.ts = m.ts /\ am.len = m.len /\ am.type = m.type
  BY <1>1, MsgIs
<1> HIDE DEF m, am
<1>3. x \in Nat /\ (i + 1) * sz = x + sz
  BY <1>1, <1>2, EndsIs
<1>4. ~(x >= am.len)
  BY <1>1, <1>2, <1>3
<1>5. ~Ends(am, sz, i) /\ f[i] = c \o f[i + 1]
  <2>1. RoundIs(f, 6, am, id, sz, i)
    BY <1>1, <1>2, RoundNext
  <2> HIDE DEF f
  <2> QED BY <1>4, <2>1 DEF RoundIs
<1>6. n \in 1 .. am.len - x /\ Chunk(c, OwnHead(6, am, i), am.ts, id, x, n)
  BY <1>1, <1>2, <1>5, PieceChunk
<1>7. n = Min2(sz, m.len - x)
  BY <1>2 DEF PieceLen
<1>8. i + 1 \in Nat /\ f[i + 1] \in Seq(Tokens)
  <2>1. i + 1 \in Nat
    BY <1>1
  <2>2. f[i + 1] \in SoundSeqs(id)
    BY <1>1, <1>2, <2>1, RoundsSound
  <2> QED BY <2>1, <2>2 DEF SoundSeqs
<1>9. ((i + 1) * sz >= am.len => f[i + 1] = <<>>)
  <2>1. RoundIs(f, 6, am, id, sz, i + 1)
    BY <1>1, <1>2, <1>8, RoundNext
  <2> HIDE DEF f
  <2> QED BY <2>1 DEF RoundIs
<1> HIDE DEF f, c, n
<1>10. i = 0 <=> x = 0
  <2>1. \A a \in Nat, b \in Nat \ {0} : a = 0 <=> a * b = 0
    OBVIOUS
  <2> QED BY <1>1, <2>1
<1> HIDE DEF x
<1> DEFINE done == x + n = m.len
           g2 == [size |-> g.size, at |-> IF done THEN 0 ELSE x + n, send |-> id, ack |-> g.ack,
                  cnt |-> IF done THEN g.cnt + 1 ELSE g.cnt]
<1>11. g.size \in Nat \ {0} /\ g.ack \in Nat /\ g.cnt \in Nat /\ g.send \in Nat
  BY DEF Marks
<1>12. n \in Nat \ {0} /\ n = Min2(m.len - x, sz) /\ (done => x + sz >= m.len) /\ (~done => n = sz /\ x + n < m.len)
  <2>2. m.len \in Nat /\ x \in Nat /\ x < m.len
    BY <1>1, <1>2, <1>3
  <2>3. n \in Nat
    BY <1>2, <1>3, <1>6
  <2> HIDE DEF done
  <2>4. Portion(m.len, x, sz, n)
    BY <1>7, <2>2, <2>3, PortionOf
  <2> QED BY <2>4 DEF Portion, done
<1>13. g2 \in Marks
  <2>1. x + n \in Nat /\ g.cnt + 1 \in Nat /\ id \in Nat
    <3>1. n \in Nat
      BY <1>12
    <3> QED BY <1>2, <1>3, <1>11, <3>1
  <2> HIDE DEF done
  <2> QED BY <1>11, <2>1 DEF Marks
<1>14. HeadOf(m, g) = OwnHead(6, am, i) /\ FromOf(m, g) = x
  BY <1>1, <1>2, <1>10 DEF HeadOf, FromOf, OwnHead
<1>15. MediaStep(m, g, id, n, g2)
  BY <1>1, <1>10, <1>12 DEF MediaStep
<1>16. NextChunk(ms, g, id, n, g2, c)
  BY <1>1, <1>2, <1>6, <1>12, <1>13, <1>14, <1>15 DEF NextChunk, MarkStep, m
<1>17. g2.send = id /\ g2.ack = g.ack /\ g2.size = sz /\ g2.at = (IF done THEN 0 ELSE x + n)
       /\ g2.cnt = (IF done THEN g.cnt + 1 ELSE g.cnt)
  BY <1>1
<1> HIDE DEF g2
<1>18. CASE done
  <2>1. f[i + 1] = <<>>
    BY <1>2, <1>3, <1>9, <1>12, <1>18
  <2>2. SendRest(ms, sz, g2, f[i + 1], 0)
    BY <1>17, <1>18, <2>1 DEF SendRest
  <2>3. g2.cnt + 0 = g.cnt + 1
    BY <1>11, <1>17, <1>18
  <2>4. SendNext(ms, sz, g, rs, id, c, n, g2, f[i + 1], 0)
    BY <1>1, <1>5, <1>8, <1>16, <1>17, <2>2, <2>3 DEF SendNext
  <2> QED BY <2>4
<1>19. CASE ~done
  <2>1. (i + 1) * sz < m.len /\ g2.at = (i + 1) * sz /\ i + 1 # 0
    <3>1. i + 1 # 0
      BY <1>1
    <3> QED BY <1>3, <1>12, <1>17, <1>19, <3>1
  <2>2. f[i + 1] = Rounds(m.csid, AsSent(m), id, sz)[i + 1]
    BY <1>1 DEF f, am
  <2>3. SendAt(ms, sz, g2, f[i + 1], id, i + 1)
    BY <1>1, <1>8, <1>17, <2>1, <2>2 DEF SendAt, m
  <2>4. SendRest(ms, sz, g2, f[i + 1], 1)
    BY <2>3 DEF SendRest
  <2>5. g2.cnt + 1 = g.cnt + 1
    BY <1>11, <1>17, <1>19
  <2>6. SendNext(ms, sz, g, rs, id, c, n, g2, f[i + 1], 1)
    BY <1>1, <1>5, <1>8, <1>16, <1>17, <2>4, <2>5 DEF SendNext
  <2> QED BY <2>6
<1> QED BY <1>18, <1>19

\* A message of length 1 has one chunk.
LEMMA OneChunk ==
    ASSUME NEW m \in OwnMsgs, m.len = 1, NEW id \in Nat \ {0}, NEW sz \in Nat \ {0}
    PROVE  /\ Rounds(2, m, id, sz)[0] \in Seq(Tokens)
           /\ Chunk(Rounds(2, m, id, sz)[0], OwnHead(2, m, 0), m.ts, id, 0, 1)
<1> DEFINE f == Rounds(2, m, id, sz)
           n == PieceLen(m, sz, 0)
           c == Piece(2, m, id, sz, 0)
<1>1. 0 * sz = 0 /\ 0 + 1 = 1 /\ 1 * sz >= 1
  OBVIOUS
<1>2. ~Ends(m, sz, 0) /\ f[0] = c \o f[1]
  <2>1. RoundIs(f, 2, m, id, sz, 0)
    BY RoundNext
  <2> HIDE DEF f
  <2> QED BY <1>1, <2>1 DEF RoundIs
<1>3. f[1] = <<>>
  <2>1. RoundIs(f, 2, m, id, sz, 1)
    BY RoundNext
  <2> HIDE DEF f
  <2> QED BY <1>1, <2>1 DEF RoundIs
<1>4. n \in 1 .. 1 - 0 /\ Chunk(c, OwnHead(2, m, 0), m.ts, id, 0, n)
  BY <1>1, <1>2, PieceChunk
<1>5. n = 1
  BY <1>4
<1>6. c \in Seq(Tokens)
  BY <1>4 DEF Chunk
<1> HIDE DEF c, f
<1>7. f[0] = c
  BY <1>2, <1>3, <1>6
<1> QED BY <1>4, <1>5, <1>6, <1>7 DEF f

LEMMA ControlChunk ==
    ASSUME NEW ms \in Seq(Sent), NEW sz \in Nat \ {0}, NEW g \in Marks, NEW rs, NEW id, NEW i,
           SendAt(ms, sz, g, rs, id, i), ms[id].type # "media"
    PROVE  \E c, n, g2, rs2, p : SendNext(ms, sz, g, rs, id, c, n, g2, rs2, p)
<1> DEFINE m == ms[id]
           am == AsSent(m)
           c == Rounds(2, am, id, sz)[0]
           g2 == [size |-> IF m.type = "size" THEN m.val ELSE g.size, at |-> 0, send |-> id, ack |-> g.ack, cnt |-> g.cnt + 1]
<1>1. /\ id \in 1 .. Len(ms) /\ i \in Nat /\ m.by = "send" /\ m.csid = 2 /\ m.type # "media" /\ m.len = 1
      /\ i * sz < 1 /\ g.at = i * sz /\ (i = 0 => id > g.send)
      /\ (m.type # "size" => g.size = sz) /\ (m.type = "size" => m.val = sz) /\ rs = Rounds(2, am, id, sz)[i]
  BY DEF SendAt
<1>2. i = 0
  BY <1>1
<1>3. rs = c /\ g.at = 0 /\ id > g.send
  BY <1>1, <1>2
<1>4. am \in OwnMsgs /\ m.ts \in Nat /\ m.len \in Nat /\ m.val \in Nat \ {0} /\ id \in Nat \ {0}
      /\ am.ts = m.ts /\ am.len = m.len /\ am.type = m.type
  BY <1>1, MsgIs
<1> HIDE DEF am, m
<1>5. c \in Seq(Tokens) /\ Chunk(c, OwnHead(2, am, 0), am.ts, id, 0, 1)
  BY <1>1, <1>4, OneChunk
<1> HIDE DEF c
<1>6. g.size \in Nat \ {0} /\ g.ack \in Nat /\ g.cnt \in Nat
  BY DEF Marks
<1>7. g2 \in Marks /\ g2.send = id /\ g2.ack = g.ack /\ g2.at = 0 /\ g2.cnt = g.cnt + 1 /\ g2.size = sz
  BY <1>1, <1>4, <1>6 DEF Marks
<1>8. HeadOf(m, g) = OwnHead(2, am, 0) /\ FromOf(m, g) = 0
  BY <1>1, <1>4 DEF HeadOf, FromOf, OwnHead
<1>9. ControlStep(m, g, id, 1, g2)
  BY <1>1, <1>3 DEF ControlStep
<1> HIDE DEF g2
<1>10. NextChunk(ms, g, id, 1, g2, c)
  BY <1>1, <1>4, <1>5, <1>7, <1>8, <1>9 DEF NextChunk, MarkStep, m
<1>11. SendRest(ms, sz, g2, <<>>, 0) /\ g2.cnt + 0 = g.cnt + 1
  BY <1>6, <1>7 DEF SendRest
<1>12. rs = c \o <<>> /\ <<>> \in Seq(Tokens)
  BY <1>3, <1>5
<1>13. SendNext(ms, sz, g, rs, id, c, 1, g2, <<>>, 0)
  BY <1>7, <1>10, <1>11, <1>12 DEF SendNext
<1> QED BY <1>13

LEMMA AckChunk ==
    ASSUME NEW ms \in Seq(Sent), NEW g \in Marks, NEW ra, NEW id, AckAt(ms, g, ra, id)
    PROVE  \E g2 : /\ ra \in Seq(Tokens) /\ NextChunk(ms, g, id, 1, g2, ra)
                   /\ g2 = [size |-> g.size, at |-> g.at, send |-> g.send, ack |-> id, cnt |-> g.cnt + 1]
<1> DEFINE m == ms[id]
           am == AsSent(m)
           g2 == [size |-> g.size, at |-> g.at, send |-> g.send, ack |-> id, cnt |-> g.cnt + 1]
<1>1. /\ id \in 1 .. Len(ms) /\ m.by = "ack" /\ m.csid = 2 /\ m.type = "media" /\ m.len = 1 /\ id > g.ack
  BY DEF AckAt
<1>2. PICK sz \in Nat \ {0} : ra = Rounds(2, am, id, sz)[0]
  BY DEF AckAt
<1>3. am \in OwnMsgs /\ m.ts \in Nat /\ id \in Nat \ {0} /\ am.ts = m.ts /\ am.len = m.len /\ am.type = m.type
  BY <1>1, MsgIs
<1> HIDE DEF am, m
<1>4. ra \in Seq(Tokens) /\ Chunk(ra, OwnHead(2, am, 0), am.ts, id, 0, 1)
  BY <1>1, <1>2, <1>3, OneChunk
<1>5. g2 \in Marks
  BY <1>3 DEF Marks
<1>6. HeadOf(m, g) = OwnHead(2, am, 0) /\ FromOf(m, g) = 0
  BY <1>1, <1>3 DEF HeadOf, FromOf, OwnHead
<1>7. AckStep(m, g, id, 1, g2)
  BY <1>1 DEF AckStep
<1>8. NextChunk(ms, g, id, 1, g2, ra)
  <2> HIDE DEF g2
  <2> QED BY <1>1, <1>3, <1>4, <1>5, <1>6, <1>7 DEF NextChunk, MarkStep, m
<1> QED BY <1>4, <1>8

---------------------------------------------------------------------------
(* What is on the wire, and what the goroutines have still to write.       *)

\* One token of a sequence.
TakesOne(w, p, r) ==
    /\ p \o r # <<>> /\ Head(p \o r) = p[1] /\ Head(p) = p[1] /\ Tail(p \o r) = Tail(p) \o r
    /\ Append(w, p[1]) \in Seq(Tokens) /\ Tail(p) \in Seq(Tokens) /\ Append(w, p[1]) \o Tail(p) = w \o p
    /\ Len(Tail(p)) = Len(p) - 1 /\ \A j \in 1 .. Len(p) - 1 : Tail(p)[j] = p[j + 1]

LEMMA TakeOne ==
    ASSUME NEW w \in Seq(Tokens), NEW p \in Seq(Tokens), NEW r \in Seq(Tokens), p # <<>>
    PROVE  TakesOne(w, p, r)
<1>1. Len(p) \in Nat \ {0} /\ Head(p) = p[1] /\ Tail(p) \in Seq(Tokens) /\ Len(Tail(p)) = Len(p) - 1
      /\ (\A j \in 1 .. Len(p) - 1 : Tail(p)[j] = p[j + 1]) /\ p[1] \in Tokens
  <2>1. Len(p) \in Nat \ {0}
    BY EmptySeq
  <2>2. p[1] \in Tokens
    BY <2>1, ElementOfSeq
  <2> QED BY <2>1, <2>2
<1> DEFINE t == Tail(p)
           a == p \o r
           b == t \o r
           c == Append(w, p[1])
           d == c \o t
           e == w \o p
           n == Len(p)
           k == Len(r)
           l == Len(w)
<1>2. n \in Nat \ {0} /\ k \in Nat /\ l \in Nat /\ Len(t) = n - 1 /\ t \in Seq(Tokens)
  BY <1>1
<1>3. a \in Seq(Tokens) /\ Len(a) = n + k /\ \A i \in 1 .. n + k : a[i] = IF i <= n THEN p[i] ELSE r[i - n]
  BY TokensJoined
<1>4. b \in Seq(Tokens) /\ Len(b) = (n - 1) + k /\ \A i \in 1 .. (n - 1) + k : b[i] = IF i <= n - 1 THEN t[i] ELSE r[i - (n - 1)]
  <2> HIDE DEF t
  <2>1. /\ t \o r \in Seq(Tokens) /\ Len(t \o r) = Len(t) + Len(r)
        /\ \A i \in 1 .. Len(t) + Len(r) : (t \o r)[i] = IF i <= Len(t) THEN t[i] ELSE r[i - Len(t)]
    BY <1>2, TokensJoined
  <2> QED BY <1>2, <2>1
<1>5. c \in Seq(Tokens) /\ Len(c) = l + 1 /\ c[l + 1] = p[1] /\ \A i \in 1 .. l : c[i] = w[i]
  BY <1>1, AppendProperties
<1>6. e \in Seq(Tokens) /\ Len(e) = l + n /\ \A i \in 1 .. l + n : e[i] = IF i <= l THEN w[i] ELSE p[i - l]
  BY TokensJoined
<1> HIDE DEF t, c
<1>7. d \in Seq(Tokens) /\ Len(d) = (l + 1) + (n - 1) /\ \A i \in 1 .. (l + 1) + (n - 1) : d[i] = IF i <= l + 1 THEN c[i] ELSE t[i - (l + 1)]
  <2>1. /\ c \o t \in Seq(Tokens) /\ Len(c \o t) = Len(c) + Len(t)
        /\ \A i \in 1 .. Len(c) + Len(t) : (c \o t)[i] = IF i <= Len(c) THEN c[i] ELSE t[i - Len(c)]
    BY <1>2, <1>5, TokensJoined
  <2> QED BY <1>2, <1>5, <2>1
<1>8. \A j \in 1 .. n - 1 : t[j] = p[j + 1]
  BY <1>1 DEF t
<1> HIDE DEF a, b, d, e, n, k, l
<1>9. a # <<>> /\ Head(a) = p[1]
  <2>1. Len(a) # 0 /\ 1 \in 1 .. n + k /\ 1 <= n
    BY <1>2, <1>3
  <2>2. a # <<>> /\ Head(a) = a[1]
    BY <1>3, <2>1
  <2> QED BY <1>3, <2>1, <2>2
<1>10. Tail(a) = b
  <2> DEFINE ta == Tail(a)
  <2>1. ta \in Seq(Tokens) /\ Len(ta) = Len(a) - 1 /\ \A j \in 1 .. Len(a) - 1 : ta[j] = a[j + 1]
    BY <1>3, <1>9
  <2> HIDE DEF ta
  <2>2. Len(ta) = Len(b)
    BY <1>2, <1>3, <1>4, <2>1
  <2>3. ASSUME NEW i \in 1 .. Len(ta) PROVE ta[i] = b[i]
    <3>1. i \in 1 .. (n - 1) + k /\ i + 1 \in 1 .. n + k /\ i \in 1 .. Len(a) - 1 /\ (i <= n - 1 <=> i + 1 <= n)
          /\ (i + 1) - n = i - (n - 1) /\ (i <= n - 1 => i \in 1 .. n - 1)
      BY <1>2, <1>3, <1>4, <2>1, <2>2
    <3>2. ta[i] = a[i + 1]
      BY <2>1, <3>1
    <3>3. CASE i <= n - 1
      BY <1>3, <1>4, <1>8, <3>1, <3>2, <3>3
    <3>4. CASE ~(i <= n - 1)
      BY <1>3, <1>4, <3>1, <3>2, <3>4
    <3> QED BY <3>3, <3>4
  <2>4. ta = b
    BY <1>4, <2>1, <2>2, <2>3, SeqEqual
  <2> QED BY <2>4 DEF ta
<1>11. d = e
  <2>1. Len(d) = Len(e)
    BY <1>2, <1>6, <1>7
  <2>2. ASSUME NEW i \in 1 .. Len(d) PROVE d[i] = e[i]
    <3>0. i \in 1 .. l + n /\ i \in 1 .. (l + 1) + (n - 1)
      BY <1>2, <1>7
    <3>1. CASE i <= l
      <4>1. i <= l + 1 /\ i \in 1 .. l
        BY <1>2, <3>0, <3>1
      <4> QED BY <1>5, <1>6, <1>7, <3>0, <3>1, <4>1
    <3>2. CASE i = l + 1
      <4>1. i <= l + 1 /\ ~(i <= l) /\ i - l = 1
        BY <1>2, <3>2
      <4> QED BY <1>5, <1>6, <1>7, <3>0, <3>2, <4>1
    <3>3. CASE i > l + 1
      <4>1. ~(i <= l + 1) /\ ~(i <= l) /\ i - (l + 1) \in 1 .. n - 1 /\ (i - (l + 1)) + 1 = i - l
        BY <1>2, <3>0, <3>3
      <4> QED BY <1>6, <1>7, <1>8, <3>0, <4>1
    <3> QED BY <1>2, <3>0, <3>1, <3>2, <3>3
  <2> QED BY <1>6, <1>7, <2>1, <2>2, SeqEqual
<1> QED BY <1>1, <1>5, <1>9, <1>10, <1>11 DEF TakesOne, a, b, c, d, e, t

NoHeads(p) == \A j \in 1 .. Len(p) : p[j].t # "h"

\* Whole chunks: those on the wire, the last of which is completed by part, and
\* then those of rs and ra.
Flow(ms, sz, w, part, rs, ra, G) ==
    /\ G \in [Nat -> Marks] /\ part \in Seq(Tokens) /\ rs \in Seq(Tokens) /\ ra \in Seq(Tokens) /\ NoHeads(part)
    /\ Laid(ms, w \o part, G) /\ WriterAt(ms, sz, G[Len(w \o part) + 1], rs, ra)

\* After its header a chunk has none.
LEMMA ChunkTail ==
    ASSUME NEW c, NEW h, NEW f, NEW m, NEW from, NEW n \in Nat, Chunk(c, h, f, m, from, n)
    PROVE  c \in Seq(Tokens) /\ c # <<>> /\ NoHeads(Tail(c))
<1> DEFINE e == IF f >= Max24 THEN 1 ELSE 0
<1>1. /\ c \in Seq(Tokens) /\ Len(c) = 1 + e + n /\ c[1] = h /\ c # <<>> /\ (e = 1 => c[2] = Ext(f))
      /\ \A i \in 1 .. n : c[1 + e + i] = Unit(m, from + i)
  BY DEF Chunk
<1>2. e \in {0, 1}
  OBVIOUS
<1> HIDE DEF e
<1>3. Len(Tail(c)) = Len(c) - 1 /\ \A j \in 1 .. Len(c) - 1 : Tail(c)[j] = c[j + 1]
  BY <1>1
<1>4. ASSUME NEW j \in 1 .. e + n PROVE c[j + 1].t # "h"
  <2>1. CASE j <= e
    <3>1. e = 1 /\ j + 1 = 2
      BY <1>2, <2>1
    <3>2. c[j + 1] = Ext(f)
      BY <1>1, <3>1
    <3> QED BY <3>2 DEF Ext
  <2>2. CASE ~(j <= e)
    <3>1. j - e \in 1 .. n /\ 1 + e + (j - e) = j + 1
      BY <1>2, <2>2
    <3>2. c[j + 1] = Unit(m, from + (j - e))
      BY <1>1, <3>1
    <3> QED BY <3>2 DEF Unit
  <2> QED BY <2>1, <2>2
<1>5. Len(c) - 1 = e + n
  BY <1>1, <1>2
<1>6. NoHeads(Tail(c))
  BY <1>3, <1>4, <1>5 DEF NoHeads
<1> QED BY <1>1, <1>6

\* A chunk that the wire takes up.
FlowsOn(ms, w, G, c, g2, G2) ==
    /\ c \in Seq(Tokens) /\ c # <<>> /\ NoHeads(Tail(c)) /\ Tail(c) \in Seq(Tokens)
    /\ G2 \in [Nat -> Marks] /\ G2[1] = G[1] /\ Laid(ms, Append(w, c[1]) \o Tail(c), G2)
    /\ G2[Len(Append(w, c[1]) \o Tail(c)) + 1] = g2

LEMMA FlowChunk ==
    ASSUME NEW ms \in Seq(Sent), NEW w \in Seq(Tokens), NEW G \in [Nat -> Marks], Laid(ms, w, G),
           NEW id, NEW n, NEW g2, NEW c, NEW g, g = G[Len(w) + 1], NextChunk(ms, g, id, n, g2, c)
    PROVE  \E G2 : FlowsOn(ms, w, G, c, g2, G2)
<1>1. /\ id \in 1 .. Len(ms) /\ n \in Nat \ {0} /\ g2 \in Marks /\ ms[id].ts \in Nat
      /\ MarkStep(ms[id], g, id, n, g2) /\ Chunk(c, HeadOf(ms[id], g), ms[id].ts, id, FromOf(ms[id], g), n)
  BY DEF NextChunk
<1>2. c \in Seq(Tokens) /\ c # <<>> /\ NoHeads(Tail(c))
  BY <1>1, ChunkTail
<1>3. Append(w, c[1]) \o Tail(c) = w \o c /\ Tail(c) \in Seq(Tokens)
  <2>1. TakesOne(w, c, <<>>)
    <3>1. <<>> \in Seq(Tokens)
      OBVIOUS
    <3> QED BY <1>2, <3>1, TakeOne
  <2> QED BY <2>1 DEF TakesOne
<1>4. PICK G2 : Extended(ms, w, G, c, g2, G2)
  BY <1>1, LaidExtend
<1>5. G2 \in [Nat -> Marks] /\ G2[Len(w) + Len(c) + 1] = g2 /\ G2[1] = G[1] /\ Laid(ms, w \o c, G2)
  BY <1>4 DEF Extended
<1>6. Len(w \o c) = Len(w) + Len(c)
  BY <1>2, TokensJoined
<1>7. FlowsOn(ms, w, G, c, g2, G2)
  BY <1>2, <1>3, <1>5, <1>6 DEF FlowsOn
<1> QED BY <1>7

LEMMA RestSend ==
    ASSUME NEW ms, NEW sz, NEW g, NEW g2, NEW rs, NEW p, SendRest(ms, sz, g, rs, p),
           g2.at = g.at, g2.size = g.size, g2.send = g.send
    PROVE  SendRest(ms, sz, g2, rs, p)
<1>1. ASSUME NEW id, NEW i, SendAt(ms, sz, g, rs, id, i) PROVE SendAt(ms, sz, g2, rs, id, i)
  BY <1>1 DEF SendAt
<1> QED BY <1>1 DEF SendRest

LEMMA RestAck ==
    ASSUME NEW ms, NEW g, NEW g2, NEW ra, NEW p, AckRest(ms, g, ra, p), g2.ack = g.ack
    PROVE  AckRest(ms, g2, ra, p)
BY DEF AckRest, AckAt

Goes(rest, c, rest2) == c \in Seq(Tokens) /\ c # <<>> /\ rest = c \o rest2

\* The next chunk of the sender ...
LEMMA SendOut ==
    ASSUME NEW ms \in Seq(Sent), NEW sz \in Nat \ {0}, NEW w \in Seq(Tokens), NEW rs, NEW ra, NEW G,
           Flow(ms, sz, w, <<>>, rs, ra, G), rs # <<>>
    PROVE  \E c, rs2, G2 : Goes(rs, c, rs2) /\ G2[1] = G[1] /\ Flow(ms, sz, Append(w, c[1]), Tail(c), rs2, ra, G2)
<1>1. G \in [Nat -> Marks] /\ rs \in Seq(Tokens) /\ ra \in Seq(Tokens)
  BY DEF Flow
<1>2. w \o <<>> = w /\ Len(w) + 1 \in Nat
  OBVIOUS
<1> DEFINE g == G[Len(w) + 1]
<1>3. Laid(ms, w, G) /\ WriterAt(ms, sz, g, rs, ra) /\ g \in Marks
  BY <1>1, <1>2 DEF Flow
<1>4. PICK p, r \in {0, 1} : SendRest(ms, sz, g, rs, p) /\ AckRest(ms, g, ra, r) /\ g.cnt + p + r = Cardinality(WithData(ms))
  BY <1>3 DEF WriterAt
<1>5. p = 1 /\ \E id, i : SendAt(ms, sz, g, rs, id, i)
  BY <1>4 DEF SendRest
<1>6. PICK id, i : SendAt(ms, sz, g, rs, id, i)
  BY <1>5
<1> HIDE DEF g
<1>7. PICK c, n, g2, rs2, p2 : SendNext(ms, sz, g, rs, id, c, n, g2, rs2, p2)
  <2>1. CASE ms[id].type = "media"
    BY <1>3, <1>6, <2>1, MediaChunk
  <2>2. CASE ms[id].type # "media"
    BY <1>3, <1>6, <2>2, ControlChunk
  <2> QED BY <2>1, <2>2
<1>8. /\ rs = c \o rs2 /\ rs2 \in Seq(Tokens) /\ NextChunk(ms, g, id, n, g2, c) /\ p2 \in {0, 1}
      /\ SendRest(ms, sz, g2, rs2, p2) /\ g2.cnt + p2 = g.cnt + 1 /\ g2.send = id /\ g2.ack = g.ack
  BY <1>7 DEF SendNext
<1>9. PICK G2 : FlowsOn(ms, w, G, c, g2, G2)
  <2>1. g = G[Len(w) + 1]
    BY DEF g
  <2> QED BY <1>1, <1>3, <1>8, <2>1, FlowChunk
<1>10. /\ c \in Seq(Tokens) /\ c # <<>> /\ NoHeads(Tail(c)) /\ Tail(c) \in Seq(Tokens)
       /\ G2 \in [Nat -> Marks] /\ G2[1] = G[1] /\ Laid(ms, Append(w, c[1]) \o Tail(c), G2)
       /\ G2[Len(Append(w, c[1]) \o Tail(c)) + 1] = g2
  BY <1>9 DEF FlowsOn
<1>11. WriterAt(ms, sz, g2, rs2, ra)
  <2>1. AckRest(ms, g2, ra, r)
    BY <1>4, <1>8, RestAck
  <2>2. g2 \in Marks /\ id \in 1 .. Len(ms)
    BY <1>8 DEF NextChunk
  <2>3. g2.send <= Len(ms) /\ g2.ack <= Len(ms)
    BY <1>3, <1>8, <2>2 DEF WriterAt
  <2>4. g2.cnt + p2 + r = Cardinality(WithData(ms))
    <3>1. g2.cnt \in Nat /\ g.cnt \in Nat
      BY <1>3, <2>2 DEF Marks
    <3>2. \A a, b, x, y \in Nat : a + x = b + 1 => a + x + y = b + 1 + y
      OBVIOUS
    <3>3. p2 \in Nat /\ r \in Nat
      BY <1>4, <1>8
    <3> QED BY <1>4, <1>5, <1>8, <3>1, <3>2, <3>3
  <2> QED BY <1>4, <1>8, <2>1, <2>3, <2>4 DEF WriterAt
<1>12. Flow(ms, sz, Append(w, c[1]), Tail(c), rs2, ra, G2)
  BY <1>1, <1>8, <1>10, <1>11 DEF Flow
<1> QED BY <1>8, <1>10, <1>12 DEF Goes

\* ... and of ack.
LEMMA AckOut ==
    ASSUME NEW ms \in Seq(Sent), NEW sz \in Nat \ {0}, NEW w \in Seq(Tokens), NEW rs, NEW ra, NEW G,
           Flow(ms, sz, w, <<>>, rs, ra, G), ra # <<>>
    PROVE  \E c, ra2, G2 : Goes(ra, c, ra2) /\ G2[1] = G[1] /\ Flow(ms, sz, Append(w, c[1]), Tail(c), rs, ra2, G2)
<1>1. G \in [Nat -> Marks] /\ rs \in Seq(Tokens) /\ ra \in Seq(Tokens)
  BY DEF Flow
<1>2. w \o <<>> = w /\ Len(w) + 1 \in Nat
  OBVIOUS
<1> DEFINE g == G[Len(w) + 1]
<1>3. Laid(ms, w, G) /\ WriterAt(ms, sz, g, rs, ra) /\ g \in Marks
  BY <1>1, <1>2 DEF Flow
<1>4. PICK p, r \in {0, 1} : SendRest(ms, sz, g, rs, p) /\ AckRest(ms, g, ra, r) /\ g.cnt + p + r = Cardinality(WithData(ms))
  BY <1>3 DEF WriterAt
<1>5. r = 1 /\ \E id : AckAt(ms, g, ra, id)
  BY <1>4 DEF AckRest
<1>6. PICK id : AckAt(ms, g, ra, id)
  BY <1>5
<1> HIDE DEF g
<1>7. PICK g2 : /\ NextChunk(ms, g, id, 1, g2, ra)
                /\ g2 = [size |-> g.size, at |-> g.at, send |-> g.send, ack |-> id, cnt |-> g.cnt + 1]
  BY <1>3, <1>6, AckChunk
<1>8. g2.size = g.size /\ g2.at = g.at /\ g2.send = g.send /\ g2.ack = id /\ g2.cnt = g.cnt + 1
  BY <1>7
<1>9. PICK G2 : FlowsOn(ms, w, G, ra, g2, G2)
  <2>1. g = G[Len(w) + 1]
    BY DEF g
  <2> QED BY <1>1, <1>3, <1>7, <2>1, FlowChunk
<1>10. /\ ra \in Seq(Tokens) /\ ra # <<>> /\ NoHeads(Tail(ra)) /\ Tail(ra) \in Seq(Tokens)
       /\ G2 \in [Nat -> Marks] /\ G2[1] = G[1] /\ Laid(ms, Append(w, ra[1]) \o Tail(ra), G2)
       /\ G2[Len(Append(w, ra[1]) \o Tail(ra)) + 1] = g2
  BY <1>9 DEF FlowsOn
<1>11. WriterAt(ms, sz, g2, rs, <<>>)
  <2>1. AckRest(ms, g2, <<>>, 0)
    BY DEF AckRest
  <2>2. SendRest(ms, sz, g2, rs, p)
    BY <1>4, <1>8, RestSend
  <2>3. g2.send <= Len(ms) /\ g2.ack <= Len(ms)
    BY <1>3, <1>6, <1>8 DEF WriterAt, AckAt
  <2>4. g2.cnt + p + 0 = Cardinality(WithData(ms))
    <3>1. g.cnt \in Nat /\ p \in Nat
      BY <1>3, <1>4 DEF Marks
    <3>2. \A a, b \in Nat : (a + 1) + b + 0 = a + b + 1
      OBVIOUS
    <3> QED BY <1>4, <1>5, <1>8, <3>1, <3>2
  <2> QED BY <1>4, <2>1, <2>2, <2>3, <2>4 DEF WriterAt
<1>12. Flow(ms, sz, Append(w, ra[1]), Tail(ra), rs, <<>>, G2)
  BY <1>1, <1>10, <1>11 DEF Flow
<1>13. Goes(ra, ra, <<>>)
  BY <1>1, <1>10 DEF Goes
<1> QED BY <1>10, <1>12, <1>13

---------------------------------------------------------------------------
(* A message more.                                                         *)

Grown(ms, m, ms2) ==
    /\ ms2 \in Seq(Sent) /\ Len(ms) \in Nat /\ Len(ms2) = Len(ms) + 1 /\ ms2[Len(ms) + 1] = m
    /\ \A i \in 1 .. Len(ms) : ms2[i] = ms[i] /\ i \in 1 .. Len(ms2)

LEMMA GrownIs ==
    ASSUME NEW ms \in Seq(Sent), NEW m \in Sent
    PROVE  Grown(ms, m, Append(ms, m))
<1> DEFINE ms2 == Append(ms, m)
<1>1. ms2 \in Seq(Sent) /\ Len(ms) \in Nat /\ Len(ms2) = Len(ms) + 1 /\ ms2[Len(ms) + 1] = m /\ \A i \in 1 .. Len(ms) : ms2[i] = ms[i]
  BY AppendProperties
<1> HIDE DEF ms2
<1>2. \A i \in 1 .. Len(ms) : i \in 1 .. Len(ms2)
  BY <1>1
<1> QED BY <1>1, <1>2 DEF Grown, ms2

LEMMA SendSome ==
    ASSUME NEW ms \in Seq(Sent), NEW sz \in Nat \ {0}, NEW g \in Marks, NEW rs, NEW id, NEW i, SendAt(ms, sz, g, rs, id, i)
    PROVE  rs # <<>>
<1>0. PICK c, n, g2, rs2, p : SendNext(ms, sz, g, rs, id, c, n, g2, rs2, p)
  <2>1. CASE ms[id].type = "media"
    BY <2>1, MediaChunk
  <2>2. CASE ms[id].type # "media"
    BY <2>2, ControlChunk
  <2> QED BY <2>1, <2>2
<1>1. rs = c \o rs2 /\ rs2 \in Seq(Tokens) /\ NextChunk(ms, g, id, n, g2, c)
  BY <1>0 DEF SendNext
<1>2. n \in Nat /\ Chunk(c, HeadOf(ms[id], g), ms[id].ts, id, FromOf(ms[id], g), n)
  BY <1>1 DEF NextChunk
<1>3. c \in Seq(Tokens) /\ c # <<>>
  BY <1>2, ChunkTail
<1>4. <<>> \in Seq(Tokens)
  OBVIOUS
<1>5. TakesOne(<<>>, c, rs2)
  BY <1>1, <1>3, <1>4, TakeOne
<1> QED BY <1>1, <1>5 DEF TakesOne

LEMMA AckSome ==
    ASSUME NEW ms \in Seq(Sent), NEW g \in Marks, NEW ra, NEW id, AckAt(ms, g, ra, id)
    PROVE  ra # <<>>
<1>1. PICK g2 : NextChunk(ms, g, id, 1, g2, ra)
  BY AckChunk
<1>2. Chunk(ra, HeadOf(ms[id], g), ms[id].ts, id, FromOf(ms[id], g), 1)
  BY <1>1 DEF NextChunk
<1> QED BY <1>2, ChunkTail

LEMMA RestMore ==
    ASSUME NEW ms, NEW m, NEW ms2, Grown(ms, m, ms2), NEW g
    PROVE  /\ \A sz, rs, p : SendRest(ms, sz, g, rs, p) => SendRest(ms2, sz, g, rs, p)
           /\ \A ra, p : AckRest(ms, g, ra, p) => AckRest(ms2, g, ra, p)
<1>1. ASSUME NEW sz, NEW rs, NEW id, NEW i, SendAt(ms, sz, g, rs, id, i) PROVE SendAt(ms2, sz, g, rs, id, i)
  <2>1. id \in 1 .. Len(ms2) /\ ms2[id] = ms[id]
    BY <1>1 DEF SendAt, Grown
  <2> QED BY <1>1, <2>1 DEF SendAt
<1>2. ASSUME NEW ra, NEW id, AckAt(ms, g, ra, id) PROVE AckAt(ms2, g, ra, id)
  <2>1. id \in 1 .. Len(ms2) /\ ms2[id] = ms[id]
    BY <1>2 DEF AckAt, Grown
  <2> QED BY <1>2, <2>1 DEF AckAt
<1> QED BY <1>1, <1>2 DEF SendRest, AckRest

LEMMA DataMore ==
    ASSUME NEW ms, NEW m \in Sent, NEW ms2, Grown(ms, m, ms2)
    PROVE  /\ Cardinality(WithData(ms)) \in Nat
           /\ Cardinality(WithData(ms2)) = Cardinality(WithData(ms)) + (IF m.len > 0 THEN 1 ELSE 0)
<1> DEFINE n == Len(ms)
           S == WithData(ms)
<1>1. n \in Nat /\ Len(ms2) = n + 1 /\ ms2[n + 1] = m /\ \A i \in 1 .. n : ms2[i] = ms[i]
  BY DEF Grown
<1>2. m.len \in Nat
  BY DEF Sent
<1>3. S \subseteq 1 .. n
  BY DEF WithData
<1> HIDE DEF n
<1>4. IsFiniteSet(S) /\ Cardinality(S) \in Nat
  <2>1. IsFiniteSet(1 .. n)
    BY <1>1, FS_Interval
  <2>2. IsFiniteSet(S)
    BY <1>3, <2>1, FS_Subset
  <2> QED BY <2>2, FS_CardinalityType
<1>5. WithData(ms2) = IF m.len > 0 THEN S \cup {n + 1} ELSE S
  <2>1. \A i : i \in 1 .. n + 1 <=> i \in 1 .. n \/ i = n + 1
    BY <1>1
  <2>2. \A i : i \in WithData(ms2) <=> (i \in 1 .. n \/ i = n + 1) /\ ms2[i].len > 0
    BY <1>1, <2>1 DEF WithData
  <2>3. \A i : i \in S <=> i \in 1 .. n /\ ms[i].len > 0
    BY DEF WithData, n
  <2> HIDE DEF S
  <2>4. CASE m.len > 0
    BY <1>1, <2>2, <2>3, <2>4
  <2>5. CASE ~(m.len > 0)
    BY <1>1, <2>2, <2>3, <2>5
  <2> QED BY <2>4, <2>5
<1>6. n + 1 \notin S
  BY <1>1, <1>3
<1> HIDE DEF S
<1>7. CASE m.len > 0
  <2>1. Cardinality(S \cup {n + 1}) = Cardinality(S) + 1
    BY <1>4, <1>6, FS_AddElement
  <2> QED BY <1>4, <1>5, <1>7, <2>1 DEF S
<1>8. CASE ~(m.len > 0)
  <2>1. Cardinality(S) + 0 = Cardinality(S)
    BY <1>4
  <2> QED BY <1>4, <1>5, <1>8, <2>1 DEF S
<1> QED BY <1>7, <1>8

\* Write is called with a message ...
LEMMA WriterSend ==
    ASSUME NEW ms \in Seq(Sent), NEW m \in Sent, NEW ms2, Grown(ms, m, ms2), NEW sz \in Nat \ {0}, NEW sz2 \in Nat \ {0},
           NEW g \in Marks, NEW ra, WriterAt(ms, sz, g, <<>>, ra),
           m.by = "send", m.csid = (IF m.type = "media" THEN 6 ELSE 2), m.type # "media" => m.len = 1,
           m.type # "size" => sz2 = sz, m.type = "size" => m.val = sz2,
           NEW rs, rs = Rounds(m.csid, AsSent(m), Len(ms) + 1, sz2)[0]
    PROVE  WriterAt(ms2, sz2, g, rs, ra)
<1> DEFINE id == Len(ms) + 1
           am == AsSent(m)
<1>1. PICK p, r \in {0, 1} : SendRest(ms, sz, g, <<>>, p) /\ AckRest(ms, g, ra, r) /\ g.cnt + p + r = Cardinality(WithData(ms))
  BY DEF WriterAt
<1>2. p = 0 /\ g.at = 0 /\ g.size = sz
  <2>1. ~\E k, i : SendAt(ms, sz, g, <<>>, k, i)
    BY SendSome
  <2> QED BY <1>1, <2>1 DEF SendRest
<1>3. AckRest(ms2, g, ra, r)
  BY <1>1, RestMore
<1>4. Len(ms) \in Nat /\ Len(ms2) = id /\ ms2[id] = m /\ ms2 \in Seq(Sent)
  BY DEF Grown
<1>5. id \in 1 .. Len(ms2) /\ id \in Nat \ {0} /\ id > Len(ms)
  BY <1>4
<1>6. g.send <= Len(ms) /\ g.ack <= Len(ms) /\ g.send \in Nat /\ g.ack \in Nat /\ g.cnt \in Nat
  BY DEF WriterAt, Marks
<1>7. g.send <= Len(ms2) /\ g.ack <= Len(ms2) /\ id > g.send
  BY <1>4, <1>5, <1>6
<1>8. am \in OwnMsgs /\ am.len = m.len /\ am.type = m.type /\ m.len \in Nat /\ 0 * sz2 = 0
  <2>1. AsSent(ms2[id]) \in OwnMsgs /\ ms2[id].len \in Nat
    BY <1>4, <1>5, MsgIs
  <2>2. am.len = m.len /\ am.type = m.type
    BY DEF AsSent
  <2> QED BY <1>4, <2>1, <2>2
<1>9. Cardinality(WithData(ms)) \in Nat /\ Cardinality(WithData(ms2)) = Cardinality(WithData(ms)) + (IF m.len > 0 THEN 1 ELSE 0)
  BY DataMore
<1> HIDE DEF id, am
<1>10. CASE m.len = 0
  <2>1. RoundIs(Rounds(m.csid, am, id, sz2), m.csid, am, id, sz2, 0)
    BY <1>5, <1>8, RoundNext
  <2>2. rs = <<>>
    BY <1>8, <1>10, <2>1 DEF RoundIs, id, am
  <2>3. m.type = "media" /\ sz2 = sz
    BY <1>10
  <2>4. SendRest(ms2, sz2, g, rs, 0)
    BY <1>2, <2>2, <2>3 DEF SendRest
  <2>5. g.cnt + 0 + r = Cardinality(WithData(ms2))
    <3>1. Cardinality(WithData(ms2)) = Cardinality(WithData(ms)) + 0
      BY <1>9, <1>10
    <3> QED BY <1>1, <1>2, <1>9, <3>1
  <2> QED BY <1>1, <1>3, <1>7, <2>4, <2>5 DEF WriterAt
<1>11. CASE m.len # 0
  <2>1. SendAt(ms2, sz2, g, rs, id, 0)
    <3>1. 0 * sz2 < m.len /\ g.at = 0 * sz2
      BY <1>2, <1>8, <1>11
    <3>2. m.type # "size" => g.size = sz2
      BY <1>2
    <3> QED BY <1>4, <1>5, <1>7, <3>1, <3>2 DEF SendAt, am, id
  <2>2. SendRest(ms2, sz2, g, rs, 1)
    BY <2>1 DEF SendRest
  <2>3. g.cnt + 1 + r = Cardinality(WithData(ms2))
    <3>1. Cardinality(WithData(ms2)) = Cardinality(WithData(ms)) + 1
      BY <1>8, <1>9, <1>11
    <3>2. \A a, b \in Nat : a + 1 + b = (a + 0 + b) + 1
      OBVIOUS
    <3> QED BY <1>1, <1>2, <1>6, <3>1, <3>2
  <2> QED BY <1>1, <1>3, <1>7, <2>2, <2>3 DEF WriterAt
<1> QED BY <1>10, <1>11

\* ... or ack is.
LEMMA WriterAck ==
    ASSUME NEW ms \in Seq(Sent), NEW m \in Sent, NEW ms2, Grown(ms, m, ms2), NEW sz \in Nat \ {0},
           NEW g \in Marks, NEW rs, WriterAt(ms, sz, g, rs, <<>>),
           m.by = "ack", m.csid = 2, m.type = "media", m.len = 1,
           NEW ra, ra = Rounds(2, AsSent(m), Len(ms) + 1, sz)[0]
    PROVE  WriterAt(ms2, sz, g, rs, ra)
<1> DEFINE id == Len(ms) + 1
<1>1. PICK p, r \in {0, 1} : SendRest(ms, sz, g, rs, p) /\ AckRest(ms, g, <<>>, r) /\ g.cnt + p + r = Cardinality(WithData(ms))
  BY DEF WriterAt
<1>2. r = 0
  <2>1. ~\E k : AckAt(ms, g, <<>>, k)
    BY AckSome
  <2> QED BY <1>1, <2>1 DEF AckRest
<1>3. SendRest(ms2, sz, g, rs, p)
  BY <1>1, RestMore
<1>4. Len(ms) \in Nat /\ Len(ms2) = id /\ ms2[id] = m
  BY DEF Grown
<1>5. id \in 1 .. Len(ms2) /\ id > Len(ms)
  BY <1>4
<1>6. g.send <= Len(ms) /\ g.ack <= Len(ms) /\ g.send \in Nat /\ g.ack \in Nat /\ g.cnt \in Nat
  BY DEF WriterAt, Marks
<1>7. g.send <= Len(ms2) /\ g.ack <= Len(ms2) /\ id > g.ack
  BY <1>4, <1>5, <1>6
<1>8. AckAt(ms2, g, ra, id)
  BY <1>4, <1>5, <1>7 DEF AckAt
<1>9. AckRest(ms2, g, ra, 1)
  BY <1>8 DEF AckRest
<1>10. g.cnt + p + 1 = Cardinality(WithData(ms2))
  <2>1. Cardinality(WithData(ms2)) = Cardinality(WithData(ms)) + (IF m.len > 0 THEN 1 ELSE 0)
    BY DataMore
  <2>2. Cardinality(WithData(ms2)) = Cardinality(WithData(ms)) + 1
    BY <2>1
  <2>3. \A a, b \in Nat : a + b + 1 = (a + b + 0) + 1
    OBVIOUS
  <2> QED BY <1>1, <1>2, <1>6, <2>2, <2>3
<1> QED BY <1>1, <1>3, <1>7, <1>9, <1>10 DEF WriterAt

---------------------------------------------------------------------------
(* What Read has made of the chunks up to a mark.                          *)

OwnAgrees(cs, m, id, n) ==
    /\ cs.ts = m.ts /\ cs.len = m.len /\ cs.type = m.type /\ cs.remain = m.len - n
    /\ cs.ext <=> m.ts >= Max24
    /\ cs.data = Units(id, 0, n)

IsMsg(ms, r, id) ==
    /\ id \in 1 .. Len(ms)
    /\ r.csid = ms[id].csid /\ r.ts = ms[id].ts /\ r.len = ms[id].len /\ r.type = ms[id].type
    /\ r.data = Units(id, 0, ms[id].len)

\* The first k messages read, if they are of goroutine by, come before id.
SeenBefore(ms, r, k, by, id) ==
    \A j \in 1 .. k : \A d \in 1 .. Len(r[j].data) : ms[r[j].data[d].csid].by = by => r[j].data[d].csid < id

ReadsOf(ms, r) == \A i \in 1 .. Len(r) : \E id : IsMsg(ms, r[i], id) /\ SeenBefore(ms, r, i - 1, ms[id].by, id)

NextSend(g) == IF g.at = 0 THEN g.send + 1 ELSE g.send

ReaderAt(ms, ch, r, g) ==
    /\ ch[2].remain = 0
    /\ g.at = 0 => ch[6].remain = 0
    /\ g.at # 0 => g.send \in 1 .. Len(ms) /\ g.at <= ms[g.send].len /\ OwnAgrees(ch[6], ms[g.send], g.send, g.at)
    /\ g.cnt = Len(r) /\ ReadsOf(ms, r)
    /\ SeenBefore(ms, r, Len(r), "ack", g.ack + 1) /\ SeenBefore(ms, r, Len(r), "send", NextSend(g))

\* The units in what was read belong to messages sent.
LEMMA IdsRead ==
    ASSUME NEW ms \in Seq(Sent), NEW r, ReadsOf(ms, r), NEW j \in 1 .. Len(r), NEW d \in 1 .. Len(r[j].data)
    PROVE  r[j].data[d].csid \in 1 .. Len(ms)
<1>1. PICK id : IsMsg(ms, r[j], id)
  BY DEF ReadsOf
<1>2. id \in 1 .. Len(ms) /\ r[j].data = Units(id, 0, ms[id].len)
  BY <1>1 DEF IsMsg
<1> DEFINE l == ms[id].len
           u == Units(id, 0, l)
<1>3. l \in Nat /\ d \in 1 .. Len(u) /\ r[j].data[d] = u[d]
  BY <1>2, MsgIs
<1> HIDE DEF l
<1>4. Len(u) = l /\ \A i \in 1 .. l : u[i] = Unit(id, 0 + i)
  BY <1>3 DEF Units
<1>5. u[d] = Unit(id, 0 + d)
  BY <1>3, <1>4
<1> QED BY <1>2, <1>3, <1>5 DEF Unit

LEMMA SeenMore ==
    ASSUME NEW ms \in Seq(Sent), NEW m, NEW ms2, Grown(ms, m, ms2), NEW r, Len(r) \in Nat, ReadsOf(ms, r),
           NEW k \in 0 .. Len(r), NEW by, NEW id, SeenBefore(ms, r, k, by, id)
    PROVE  SeenBefore(ms2, r, k, by, id)
<1> SUFFICES ASSUME NEW j \in 1 .. k, NEW d \in 1 .. Len(r[j].data), ms2[r[j].data[d].csid].by = by
             PROVE  r[j].data[d].csid < id
  BY DEF SeenBefore
<1>1. j \in 1 .. Len(r)
  OBVIOUS
<1>2. r[j].data[d].csid \in 1 .. Len(ms)
  BY <1>1, IdsRead
<1>3. ms2[r[j].data[d].csid] = ms[r[j].data[d].csid]
  BY <1>2 DEF Grown
<1> QED BY <1>3 DEF SeenBefore

LEMMA ReaderMore ==
    ASSUME NEW ms \in Seq(Sent), NEW m, NEW ms2, Grown(ms, m, ms2), NEW ch, NEW r, Len(r) \in Nat, NEW g,
           ReaderAt(ms, ch, r, g)
    PROVE  ReaderAt(ms2, ch, r, g)
<1>1. ReadsOf(ms, r) /\ Len(r) \in 0 .. Len(r)
  BY DEF ReaderAt
<1>2. SeenBefore(ms2, r, Len(r), "ack", g.ack + 1) /\ SeenBefore(ms2, r, Len(r), "send", NextSend(g))
  BY <1>1, SeenMore DEF ReaderAt
<1>3. ReadsOf(ms2, r)
  <2> SUFFICES ASSUME NEW i \in 1 .. Len(r) PROVE \E id : IsMsg(ms2, r[i], id) /\ SeenBefore(ms2, r, i - 1, ms2[id].by, id)
    BY DEF ReadsOf
  <2>1. PICK id : IsMsg(ms, r[i], id) /\ SeenBefore(ms, r, i - 1, ms[id].by, id)
    BY <1>1 DEF ReadsOf
  <2>2. id \in 1 .. Len(ms) /\ id \in 1 .. Len(ms2) /\ ms2[id] = ms[id]
    BY <2>1 DEF IsMsg, Grown
  <2>3. i - 1 \in 0 .. Len(r)
    OBVIOUS
  <2>4. SeenBefore(ms2, r, i - 1, ms[id].by, id)
    BY <1>1, <2>1, <2>3, SeenMore
  <2>5. IsMsg(ms2, r[i], id)
    BY <2>1, <2>2 DEF IsMsg
  <2> QED BY <2>2, <2>4, <2>5
<1>4. g.at # 0 => g.send \in 1 .. Len(ms2) /\ ms2[g.send] = ms[g.send]
  BY DEF ReaderAt, Grown
<1> QED BY <1>2, <1>3, <1>4 DEF ReaderAt

---------------------------------------------------------------------------
(* The two ends agree, but for torn chunks.                                *)

Owes(o, part, rs, ra) ==
    \/ o["send"] = part \o rs /\ o["ack"] = ra
    \/ o["send"] = rs /\ o["ack"] = part \o ra

OwnWith(G, part, rs, ra) ==
    /\ Flow(msgs, outSize, wire, part, rs, ra, G) /\ Owes(out, part, rs, ra)
    /\ inSize = G[1].size /\ ReaderAt(msgs, chunks, read, G[1])

OwnSynced == ~broken /\ \E G, part, rs, ra : OwnWith(G, part, rs, ra)

OwnShape == ChunkShape /\ AckedOnce /\ out \in [Goroutines -> SoundSeqs(Len(msgs))]

\* Inside a chunk.
LEMMA EmitPart ==
    ASSUME NEW w \in Seq(Tokens), NEW ms, NEW sz, NEW part, NEW rs, NEW ra, NEW G, Flow(ms, sz, w, part, rs, ra, G),
           part # <<>>
    PROVE  Flow(ms, sz, Append(w, part[1]), Tail(part), rs, ra, G)
<1>1. G \in [Nat -> Marks] /\ part \in Seq(Tokens) /\ rs \in Seq(Tokens) /\ ra \in Seq(Tokens) /\ NoHeads(part)
  BY DEF Flow
<1>2. TakesOne(w, part, rs)
  BY <1>1, TakeOne
<1>3. Append(w, part[1]) \o Tail(part) = w \o part /\ Tail(part) \in Seq(Tokens)
  BY <1>2 DEF TakesOne
<1>4. NoHeads(Tail(part))
  <2>1. Len(Tail(part)) = Len(part) - 1 /\ \A j \in 1 .. Len(part) - 1 : Tail(part)[j] = part[j + 1]
    BY <1>2 DEF TakesOne
  <2>2. \A j \in 1 .. Len(part) - 1 : j + 1 \in 1 .. Len(part)
    BY <1>1
  <2> QED BY <1>1, <2>1, <2>2 DEF NoHeads
<1> QED BY <1>1, <1>3, <1>4 DEF Flow

\* The write of a token that is no part of a chunk begun is that of a header;
\* it is the goroutine's own chunk, or else the other's is torn.
LEMMA EmitSync ==
    ASSUME OwnShape, OwnSynced, NEW g \in Goroutines, Emit(g), ~torn'
    PROVE  OwnSynced'
<1> DEFINE h == IF g = "send" THEN "ack" ELSE "send"
<1>1. /\ out[g] # <<>> /\ wire' = Append(wire, Head(out[g])) /\ out' = [out EXCEPT ![g] = Tail(out[g])]
      /\ UNCHANGED <<mode, msgs, sending, outSize, chunks, inSize, window, ackReceived, acked, read, broken>>
      /\ torn' = (torn \/ \E k \in Goroutines \ {g} : out[k] # <<>> /\ (Head(out[k]).t # "h" \/ Head(out[k]).type = "size"))
  BY DEF Emit, readerVars
<1>2. h \in Goroutines \ {g} /\ out'[g] = Tail(out[g]) /\ out'[h] = out[h] /\ Goroutines = {"send", "ack"}
  BY <1>1 DEF Goroutines, OwnShape
<1>3. ~(out[h] # <<>> /\ Head(out[h]).t # "h")
  BY <1>1, <1>2
<1>4. PICK G, part, rs, ra : OwnWith(G, part, rs, ra)
  BY DEF OwnSynced
<1>5. /\ Flow(msgs, outSize, wire, part, rs, ra, G) /\ Owes(out, part, rs, ra)
      /\ inSize = G[1].size /\ ReaderAt(msgs, chunks, read, G[1])
  BY <1>4 DEF OwnWith
<1>6. part \in Seq(Tokens) /\ rs \in Seq(Tokens) /\ ra \in Seq(Tokens) /\ NoHeads(part)
  BY <1>5 DEF Flow
<1>7. msgs \in Seq(Sent) /\ outSize \in Nat \ {0} /\ wire \in Seq(Tokens)
  BY DEF OwnShape, ChunkShape, ChunkTypes
<1>8. ASSUME NEW G2, NEW part2, NEW rs2, NEW ra2, Flow(msgs, outSize, wire', part2, rs2, ra2, G2), G2[1] = G[1],
             Owes(out', part2, rs2, ra2)
      PROVE  OwnSynced'
  <2>1. OwnWith(G2, part2, rs2, ra2)'
    BY <1>1, <1>5, <1>8 DEF OwnWith
  <2>2. ~broken'
    BY <1>1 DEF OwnSynced
  <2> QED BY <2>1, <2>2 DEF OwnSynced
<1>9. CASE part # <<>>
  <2>1. \A r \in Seq(Tokens) : TakesOne(wire, part, r)
    BY <1>6, <1>7, <1>9, TakeOne
  <2>2. part[1].t # "h"
    <3>1. 1 \in 1 .. Len(part)
      BY <1>6, <1>9, EmptySeq
    <3> QED BY <1>6, <3>1 DEF NoHeads
  <2>3. \A r \in Seq(Tokens) : out[h] # part \o r
    <3> SUFFICES ASSUME NEW r \in Seq(Tokens), out[h] = part \o r PROVE FALSE
      OBVIOUS
    <3>1. TakesOne(wire, part, r)
      BY <2>1
    <3>2. part \o r # <<>> /\ Head(part \o r) = part[1]
      BY <3>1 DEF TakesOne
    <3> QED BY <1>3, <2>2, <3>2
  <2>4. Flow(msgs, outSize, Append(wire, part[1]), Tail(part), rs, ra, G)
    BY <1>5, <1>7, <1>9, EmitPart
  <2>5. CASE g = "send"
    <3>1. out["send"] = part \o rs /\ out["ack"] = ra
      BY <1>5, <1>6, <2>3, <2>5 DEF Owes
    <3>2. Head(part \o rs) = part[1] /\ Tail(part \o rs) = Tail(part) \o rs
      BY <1>6, <2>1 DEF TakesOne
    <3>3. Owes(out', Tail(part), rs, ra) /\ wire' = Append(wire, part[1])
      BY <1>1, <1>2, <2>5, <3>1, <3>2 DEF Owes
    <3> QED BY <1>8, <2>4, <3>3
  <2>6. CASE g = "ack"
    <3>1. out["ack"] = part \o ra /\ out["send"] = rs
      BY <1>5, <1>6, <2>3, <2>6 DEF Owes
    <3>2. Head(part \o ra) = part[1] /\ Tail(part \o ra) = Tail(part) \o ra
      BY <1>6, <2>1 DEF TakesOne
    <3>3. Owes(out', Tail(part), rs, ra) /\ wire' = Append(wire, part[1])
      BY <1>1, <1>2, <2>6, <3>1, <3>2 DEF Owes
    <3> QED BY <1>8, <2>4, <3>3
  <2> QED BY <1>2, <2>5, <2>6
<1>10. CASE part = <<>>
  <2>1. out["send"] = rs /\ out["ack"] = ra
    <3>1. part \o rs = rs /\ part \o ra = ra
      BY <1>6, <1>10
    <3> QED BY <1>5, <3>1 DEF Owes
  <2>2. CASE g = "send"
    <3>1. PICK c, rs2, G2 : Goes(rs, c, rs2) /\ G2[1] = G[1] /\ Flow(msgs, outSize, Append(wire, c[1]), Tail(c), rs2, ra, G2)
      BY <1>1, <1>5, <1>7, <1>10, <2>1, <2>2, SendOut
    <3>2. c \in Seq(Tokens) /\ c # <<>> /\ rs = c \o rs2 /\ rs2 \in Seq(Tokens)
      BY <3>1 DEF Goes, Flow
    <3>3. TakesOne(wire, c, rs2)
      BY <1>7, <3>2, TakeOne
    <3>4. Head(rs) = c[1] /\ Tail(rs) = Tail(c) \o rs2
      BY <3>2, <3>3 DEF TakesOne
    <3>5. Owes(out', Tail(c), rs2, ra) /\ wire' = Append(wire, c[1])
      BY <1>1, <1>2, <2>1, <2>2, <3>4 DEF Owes
    <3> QED BY <1>8, <3>1, <3>5
  <2>3. CASE g = "ack"
    <3>1. PICK c, ra2, G2 : Goes(ra, c, ra2) /\ G2[1] = G[1] /\ Flow(msgs, outSize, Append(wire, c[1]), Tail(c), rs, ra2, G2)
      BY <1>1, <1>5, <1>7, <1>10, <2>1, <2>3, AckOut
    <3>2. c \in Seq(Tokens) /\ c # <<>> /\ ra = c \o ra2 /\ ra2 \in Seq(Tokens)
      BY <3>1 DEF Goes, Flow
    <3>3. TakesOne(wire, c, ra2)
      BY <1>7, <3>2, TakeOne
    <3>4. Head(ra) = c[1] /\ Tail(ra) = Tail(c) \o ra2
      BY <3>2, <3>3 DEF TakesOne
    <3>5. Owes(out', Tail(c), rs, ra2) /\ wire' = Append(wire, c[1])
      BY <1>1, <1>2, <2>1, <2>3, <3>4 DEF Owes
    <3> QED BY <1>8, <3>1, <3>5
  <2> QED BY <1>2, <2>2, <2>3
<1> QED BY <1>9, <1>10

\* The parts of WriteMsg, whose message is mm in msgs.
Written(g, mm) ==
    /\ out[g] = <<>> /\ mm \in Sent /\ mm.by = g /\ mm.csid = (IF mm.type = "media" /\ g = "send" THEN 6 ELSE 2)
    /\ mm.type # "media" => mm.len = 1
    /\ g = "ack" => mm.type = "media" /\ mm.len = 1
    /\ outSize' \in Nat \ {0} /\ (mm.type # "size" => outSize' = outSize) /\ (mm.type = "size" => mm.val = outSize')
    /\ AsSent(mm) \in OwnMsgs /\ AsSent(mm).type = mm.type /\ AsSent(mm).len = mm.len /\ Grown(msgs, mm, msgs')
    /\ out' = [out EXCEPT ![g] = Rounds(mm.csid, AsSent(mm), Len(msgs) + 1, outSize')[0]]
    /\ UNCHANGED <<mode, wire, sending, readerVars, mixed, longDelta, torn>>

LEMMA WriteIs ==
    ASSUME ChunkShape, NEW g \in Goroutines, NEW m \in OwnSends, WriteMsg(g, m)
    PROVE  \E mm : Written(g, mm)
<1> USE ChunkAssumption
<1> DEFINE csid == IF m.type = "media" /\ g = "send" THEN 6 ELSE 2
<1>1. /\ out[g] = <<>> /\ (g = "ack" => m.type = "media" /\ m.len = 1)
      /\ outSize' \in (IF m.type = "size" THEN ChunkSizes ELSE {outSize})
      /\ out' = [out EXCEPT ![g] = WriteChunk(csid, m, Len(msgs) + 1, outSize')]
      /\ UNCHANGED <<mode, wire, sending, readerVars, mixed, longDelta, torn>>
  BY DEF WriteMsg
<1>2. PICK val \in (IF m.type = "window" THEN Windows ELSE {outSize'}) :
        msgs' = Append(msgs, [by |-> g, csid |-> csid, ts |-> m.ts, len |-> m.len, type |-> m.type, val |-> val])
  BY DEF WriteMsg
<1> DEFINE mm == [by |-> g, csid |-> csid, ts |-> m.ts, len |-> m.len, type |-> m.type, val |-> val]
<1>3. m \in OwnMsgs /\ (m.type # "media" => m.len = 1)
  BY OwnSendsTyped
<1>4. m.ts \in Stamps /\ m.len \in Nat /\ m.type \in Types /\ m = [ts |-> m.ts, len |-> m.len, type |-> m.type]
  BY <1>3 DEF OwnMsgs
<1>5. outSize \in Nat \ {0} /\ msgs \in Seq(Sent)
  BY DEF ChunkShape, ChunkTypes
<1>6. outSize' \in Nat \ {0} /\ (m.type # "size" => outSize' = outSize)
  BY <1>1, <1>5
<1>7. val \in Nat \ {0} /\ (m.type = "size" => val = outSize')
  BY <1>2, <1>6
<1>8. csid \in Csids
  BY DEF Csids
<1> HIDE DEF csid
<1>9. mm \in Sent
  BY <1>4, <1>7, <1>8 DEF Sent
<1>10. mm.by = g /\ mm.csid = csid /\ mm.ts = m.ts /\ mm.len = m.len /\ mm.type = m.type /\ mm.val = val
  OBVIOUS
<1> HIDE DEF mm
<1>11. AsSent(mm) = m
  BY <1>4, <1>10 DEF AsSent
<1>12. msgs' = Append(msgs, mm)
  BY <1>2 DEF mm
<1>13. Grown(msgs, mm, msgs')
  BY <1>5, <1>9, <1>12, GrownIs
<1>14. WriteChunk(csid, m, Len(msgs) + 1, outSize') = Rounds(mm.csid, AsSent(mm), Len(msgs) + 1, outSize')[0]
  BY <1>10, <1>11 DEF WriteChunk
<1>15. mm.csid = (IF mm.type = "media" /\ g = "send" THEN 6 ELSE 2)
  BY <1>10 DEF csid
<1>16. Written(g, mm)
  BY <1>1, <1>3, <1>6, <1>7, <1>9, <1>10, <1>11, <1>13, <1>14, <1>15 DEF Written
<1> QED BY <1>16

LEMMA WriteSync ==
    ASSUME OwnShape, OwnSynced, NEW g \in Goroutines, NEW mm, Written(g, mm)
    PROVE  OwnSynced'
<1>1. PICK G, part, rs, ra : OwnWith(G, part, rs, ra)
  BY DEF OwnSynced
<1>2. /\ Flow(msgs, outSize, wire, part, rs, ra, G) /\ Owes(out, part, rs, ra)
      /\ inSize = G[1].size /\ ReaderAt(msgs, chunks, read, G[1])
  BY <1>1 DEF OwnWith
<1> DEFINE e == G[Len(wire \o part) + 1]
<1>3. G \in [Nat -> Marks] /\ part \in Seq(Tokens) /\ rs \in Seq(Tokens) /\ ra \in Seq(Tokens) /\ NoHeads(part)
      /\ Laid(msgs, wire \o part, G) /\ WriterAt(msgs, outSize, e, rs, ra)
  BY <1>2 DEF Flow
<1>4. msgs \in Seq(Sent) /\ outSize \in Nat \ {0} /\ wire \in Seq(Tokens) /\ Len(read) \in Nat
  BY DEF OwnShape, ChunkShape, ChunkTypes
<1>5. e \in Marks
  <2>1. Len(wire \o part) + 1 \in Nat
    BY <1>3, <1>4
  <2> QED BY <1>3, <2>1
<1>6. /\ out[g] = <<>> /\ mm \in Sent /\ mm.by = g /\ mm.csid = (IF mm.type = "media" /\ g = "send" THEN 6 ELSE 2)
      /\ (mm.type # "media" => mm.len = 1) /\ (g = "ack" => mm.type = "media" /\ mm.len = 1)
      /\ outSize' \in Nat \ {0} /\ (mm.type # "size" => outSize' = outSize) /\ (mm.type = "size" => mm.val = outSize')
      /\ Grown(msgs, mm, msgs') /\ UNCHANGED <<wire, chunks, inSize, read, broken>>
  BY DEF Written, readerVars
<1>7. PICK new : new = Rounds(mm.csid, AsSent(mm), Len(msgs) + 1, outSize')[0]
  OBVIOUS
<1>8. out' = [out EXCEPT ![g] = new] /\ out'[g] = new /\ \A h \in Goroutines \ {g} : out'[h] = out[h]
  BY <1>7 DEF Written, OwnShape
<1>9. Laid(msgs', wire \o part, G)
  <2>1. Len(msgs) \in Nat /\ Len(msgs') \in Nat /\ Len(msgs) <= Len(msgs') /\ \A i \in 1 .. Len(msgs) : msgs'[i] = msgs[i]
    BY <1>6 DEF Grown
  <2> QED BY <1>3, <2>1, LaidMore
<1>10. ReaderAt(msgs', chunks, read, G[1])
  BY <1>2, <1>4, <1>6, ReaderMore
<1>11. new \in Seq(Tokens)
  <2>1. AsSent(mm) \in OwnMsgs /\ AsSent(mm).type = mm.type /\ AsSent(mm).len = mm.len
    BY DEF Written
  <2>2. Len(msgs) + 1 \in Nat \ {0} /\ mm.csid \in {2, 6}
    BY <1>4, <1>6
  <2>3. new \in SoundSeqs(Len(msgs) + 1)
    BY <1>6, <1>7, <2>1, <2>2, RoundsSound
  <2> QED BY <2>3 DEF SoundSeqs
<1>12. ASSUME NEW rs2 \in Seq(Tokens), NEW ra2 \in Seq(Tokens), WriterAt(msgs', outSize', e, rs2, ra2), Owes(out', part, rs2, ra2)
       PROVE  OwnSynced'
  <2>1. Flow(msgs', outSize', wire', part, rs2, ra2, G)
    BY <1>3, <1>6, <1>9, <1>12 DEF Flow
  <2>2. OwnWith(G, part, rs2, ra2)'
    BY <1>2, <1>6, <1>10, <1>12, <2>1 DEF OwnWith
  <2>3. ~broken'
    BY <1>6 DEF OwnSynced
  <2> QED BY <2>2, <2>3 DEF OwnSynced
<1> HIDE DEF e
\* The goroutine has nothing to write: if a chunk is begun it is the other's.
<1>13. \A r \in Seq(Tokens) : part \o r = <<>> => part = <<>> /\ r = <<>>
  <2> SUFFICES ASSUME NEW r \in Seq(Tokens), part \o r = <<>> PROVE part = <<>> /\ r = <<>>
    OBVIOUS
  <2>1. part = <<>>
    <3>1. part # <<>> => TakesOne(wire, part, r)
      BY <1>3, <1>4, TakeOne
    <3> QED BY <3>1 DEF TakesOne
  <2>2. part \o r = r
    BY <2>1
  <2> QED BY <2>1, <2>2
<1>14. part = <<>> => \A r \in Seq(Tokens) : part \o r = r
  OBVIOUS
<1>15. CASE g = "send"
  <2>1. rs = <<>> /\ out["send"] = <<>> /\ out["ack"] = part \o ra
    BY <1>2, <1>3, <1>6, <1>13, <1>14, <1>15 DEF Owes
  <2>2. out'["ack"] = out["ack"] /\ out'["send"] = new
    BY <1>8, <1>15 DEF Goroutines
  <2>3. WriterAt(msgs', outSize', e, new, ra)
    <3>1. mm.csid = IF mm.type = "media" THEN 6 ELSE 2
      BY <1>6, <1>15
    <3>2. WriterAt(msgs, outSize, e, <<>>, ra)
      BY <1>3, <2>1 DEF e
    <3> QED BY <1>4, <1>5, <1>6, <1>7, <1>15, <3>1, <3>2, WriterSend
  <2> QED BY <1>3, <1>11, <1>12, <2>1, <2>2, <2>3 DEF Owes
<1>16. CASE g = "ack"
  <2>1. ra = <<>> /\ out["ack"] = <<>> /\ out["send"] = part \o rs
    BY <1>2, <1>3, <1>6, <1>13, <1>14, <1>16 DEF Owes
  <2>2. out'["send"] = out["send"] /\ out'["ack"] = new
    BY <1>8, <1>16 DEF Goroutines
  <2>3. WriterAt(msgs', outSize', e, rs, new)
    <3>1. mm.csid = 2 /\ mm.type = "media" /\ mm.len = 1 /\ outSize' = outSize
      BY <1>6, <1>16
    <3>2. WriterAt(msgs, outSize, e, rs, <<>>)
      BY <1>3, <2>1 DEF e
    <3>3. new = Rounds(2, AsSent(mm), Len(msgs) + 1, outSize)[0]
      BY <1>7, <3>1
    <3>4. WriterAt(msgs', outSize, e, rs, new)
      BY <1>4, <1>5, <1>6, <1>16, <3>1, <3>2, <3>3, WriterAck
    <3> QED BY <3>1, <3>4
  <2> QED BY <1>3, <1>11, <1>12, <2>1, <2>2, <2>3 DEF Owes
<1> QED BY <1>15, <1>16 DEF Goroutines

\* The shape of it all stays.
LEMMA SoundMore == ASSUME NEW n \in Nat, NEW s \in SoundSeqs(n) PROVE s \in SoundSeqs(n + 1)
BY DEF SoundSeqs, Sound

LEMMA WriteShape ==
    ASSUME OwnShape, NEW g \in Goroutines, NEW mm, Written(g, mm)
    PROVE  OwnShape'
<1> DEFINE n == Len(msgs)
<1>1. ChunkShape /\ AckedOnce /\ out \in [Goroutines -> SoundSeqs(n)]
  BY DEF OwnShape
<1>2. /\ mm \in Sent /\ (mm.csid \in {2, 6}) /\ (mm.type # "media" => mm.len = 1) /\ outSize' \in Nat \ {0}
      /\ AsSent(mm) \in OwnMsgs /\ AsSent(mm).type = mm.type /\ AsSent(mm).len = mm.len
      /\ msgs' \in Seq(Sent) /\ Len(msgs') = n + 1 /\ n \in Nat
      /\ out' = [out EXCEPT ![g] = Rounds(mm.csid, AsSent(mm), n + 1, outSize')[0]]
      /\ UNCHANGED <<mode, wire, sending, readerVars, mixed, longDelta, torn>>
  BY DEF Written, Grown
<1> HIDE DEF n
<1>3. Rounds(mm.csid, AsSent(mm), n + 1, outSize')[0] \in SoundSeqs(n + 1)
  <2>1. n + 1 \in Nat \ {0}
    BY <1>2
  <2> QED BY <1>2, <2>1, RoundsSound
<1>4. out' \in [Goroutines -> SoundSeqs(n + 1)]
  <2>1. \A h \in Goroutines : out[h] \in SoundSeqs(n + 1)
    BY <1>1, <1>2, SoundMore
  <2> QED BY <1>1, <1>2, <1>3, <2>1
<1>5. wire' \in Seq(Tokens) /\ \A i \in 1 .. Len(wire') : Sound(wire'[i], Len(msgs'))
  <2>1. wire \in SoundSeqs(n)
    BY <1>1 DEF ChunkShape, ChunkTypes, SoundSeqs, n
  <2>2. wire \in SoundSeqs(n + 1)
    BY <1>2, <2>1, SoundMore
  <2> QED BY <1>2, <2>2 DEF SoundSeqs
<1>6. \A j \in Keys : Filled(chunks'[j], Len(msgs'))
  <2>1. \A j \in Keys : chunks[j] \in Streams /\ Filled(chunks[j], n)
    BY <1>1 DEF ChunkShape, ChunkTypes, n
  <2>2. \A j \in Keys : Filled(chunks[j], n + 1)
    BY <1>2, <2>1, FilledMore
  <2> QED BY <1>2, <2>2 DEF readerVars
<1>7. ChunkTypes'
  BY <1>1, <1>2, <1>5 DEF ChunkShape, ChunkTypes, readerVars
<1>8. AckedOnce'
  BY <1>1, <1>2 DEF AckedOnce, readerVars
<1> QED BY <1>2, <1>4, <1>5, <1>6, <1>7, <1>8 DEF OwnShape, ChunkShape

LEMMA EmitShape ==
    ASSUME OwnShape, NEW g \in Goroutines, Emit(g)
    PROVE  OwnShape'
<1> DEFINE n == Len(msgs)
           o == out[g]
<1>1. ChunkShape /\ AckedOnce /\ out \in [Goroutines -> SoundSeqs(n)]
  BY DEF OwnShape
<1>2. o # <<>> /\ wire' = Append(wire, Head(o)) /\ out' = [out EXCEPT ![g] = Tail(o)]
      /\ UNCHANGED <<mode, msgs, sending, outSize, readerVars, mixed, longDelta>>
  BY DEF Emit
<1>3. o \in Seq(Tokens) /\ \A j \in 1 .. Len(o) : Sound(o[j], n)
  BY <1>1 DEF SoundSeqs
<1>4. wire \in Seq(Tokens) /\ \A i \in 1 .. Len(wire) : Sound(wire[i], n)
  BY <1>1 DEF ChunkShape, ChunkTypes
<1> HIDE DEF n, o
<1>5. Head(o) \in Tokens /\ Sound(Head(o), n) /\ Tail(o) \in SoundSeqs(n)
  <2>1. Len(o) \in Nat \ {0} /\ Head(o) = o[1] /\ Tail(o) \in Seq(Tokens) /\ Len(Tail(o)) = Len(o) - 1
        /\ \A j \in 1 .. Len(o) - 1 : Tail(o)[j] = o[j + 1]
    <3>1. Len(o) \in Nat \ {0}
      BY <1>2, <1>3, EmptySeq
    <3> QED BY <1>2, <1>3, <3>1
  <2>2. o[1] \in Tokens /\ Sound(o[1], n)
    BY <1>3, <2>1, ElementOfSeq
  <2>3. \A j \in 1 .. Len(o) - 1 : j + 1 \in 1 .. Len(o)
    BY <2>1
  <2>4. \A j \in 1 .. Len(Tail(o)) : Sound(Tail(o)[j], n)
    BY <1>3, <2>1, <2>3
  <2> QED BY <2>1, <2>2, <2>4 DEF SoundSeqs
<1>6. wire' \in Seq(Tokens) /\ \A i \in 1 .. Len(wire') : Sound(wire'[i], n)
  <2>1. wire' \in Seq(Tokens) /\ Len(wire) \in Nat /\ Len(wire') = Len(wire) + 1 /\ wire'[Len(wire) + 1] = Head(o)
        /\ \A i \in 1 .. Len(wire) : wire'[i] = wire[i]
    BY <1>2, <1>4, <1>5, AppendProperties
  <2>2. \A i \in 1 .. Len(wire') : i \in 1 .. Len(wire) \/ i = Len(wire) + 1
    BY <2>1
  <2> QED BY <1>4, <1>5, <2>1, <2>2
<1>7. out' \in [Goroutines -> SoundSeqs(n)]
  BY <1>1, <1>2, <1>5
<1>8. ChunkTypes'
  BY <1>1, <1>2, <1>6 DEF ChunkShape, ChunkTypes, readerVars
<1>9. AckedOnce'
  BY <1>1, <1>2 DEF AckedOnce, readerVars
<1>10. \A k \in Keys : Filled(chunks'[k], Len(msgs'))
  BY <1>1, <1>2 DEF ChunkShape, readerVars
<1> QED BY <1>2, <1>6, <1>7, <1>8, <1>9, <1>10 DEF OwnShape, ChunkShape, n

---------------------------------------------------------------------------
(* ReadChunk.                                                              *)

LEMMA DropJoin ==
    ASSUME NEW w \in Seq(Tokens), NEW p \in Seq(Tokens), NEW k \in Nat, k <= Len(w)
    PROVE  /\ SubSeq(w, k + 1, Len(w)) \in Seq(Tokens)
           /\ SubSeq(w, k + 1, Len(w)) \o p = SubSeq(w \o p, k + 1, Len(w \o p))
           /\ Len(SubSeq(w, k + 1, Len(w)) \o p) + k = Len(w \o p)
<1> DEFINE a == SubSeq(w, k + 1, Len(w))
           q == w \o p
           b == SubSeq(q, k + 1, Len(q))
           c == a \o p
           l == Len(w)
           n == Len(p)
<1>1. l \in Nat /\ n \in Nat /\ k \in 0 .. l
  OBVIOUS
<1>2. a \in Seq(Tokens) /\ Len(a) = l - k /\ \A i \in 1 .. l - k : a[i] = w[i + k]
  <2>1. a \in Seq(Tokens) /\ Len(a) = l - k
    BY <1>1
  <2>2. \A i \in 1 .. l - k : a[i] = w[i + k]
    BY <1>1
  <2> QED BY <2>1, <2>2
<1>3. q \in Seq(Tokens) /\ Len(q) = l + n /\ \A i \in 1 .. l + n : q[i] = IF i <= l THEN w[i] ELSE p[i - l]
  BY TokensJoined
<1> HIDE DEF a, q
<1>4. b \in Seq(Tokens) /\ Len(b) = (l + n) - k /\ \A i \in 1 .. (l + n) - k : b[i] = q[i + k]
  <2>1. b \in Seq(Tokens) /\ Len(b) = (l + n) - k
    BY <1>1, <1>3
  <2>2. \A i \in 1 .. (l + n) - k : b[i] = q[i + k]
    BY <1>1, <1>3
  <2> QED BY <2>1, <2>2
<1>5. c \in Seq(Tokens) /\ Len(c) = (l - k) + n /\ \A i \in 1 .. (l - k) + n : c[i] = IF i <= l - k THEN a[i] ELSE p[i - (l - k)]
  <2>1. /\ a \o p \in Seq(Tokens) /\ Len(a \o p) = Len(a) + Len(p)
        /\ \A i \in 1 .. Len(a) + Len(p) : (a \o p)[i] = IF i <= Len(a) THEN a[i] ELSE p[i - Len(a)]
    BY <1>2, TokensJoined
  <2> QED BY <1>2, <2>1
<1> HIDE DEF b, c, l, n
<1>6. Len(c) = Len(b) /\ Len(c) + k = Len(q)
  BY <1>1, <1>3, <1>4, <1>5
<1>7. ASSUME NEW i \in 1 .. Len(c) PROVE c[i] = b[i]
  <2>1. i \in 1 .. (l - k) + n /\ i \in 1 .. (l + n) - k /\ i + k \in 1 .. l + n /\ (i <= l - k <=> i + k <= l)
        /\ (i <= l - k => i \in 1 .. l - k) /\ i - (l - k) = (i + k) - l
    BY <1>1, <1>5
  <2>2. b[i] = q[i + k]
    BY <1>4, <2>1
  <2>3. CASE i <= l - k
    BY <1>2, <1>3, <1>5, <2>1, <2>2, <2>3
  <2>4. CASE ~(i <= l - k)
    BY <1>3, <1>5, <2>1, <2>2, <2>4
  <2> QED BY <2>3, <2>4
<1>8. c = b
  BY <1>4, <1>5, <1>6, <1>7, SeqEqual
<1> QED BY <1>2, <1>6, <1>8 DEF a, b, c, q, l

\* The chunk that is next on the wire, as the reader meets it.
Meets(m, id, n, e, from, cs, k, q) ==
    /\ id \in 1 .. Len(msgs) /\ m = msgs[id] /\ n \in Nat \ {0} /\ e = ExOf(m) /\ from \in Nat /\ from + n <= m.len
    /\ m.csid \in {2, 6} /\ cs = chunks[m.csid] /\ n = Min2(m.len - from, inSize) /\ k = 1 + e + n
    /\ from = 0 => cs.remain = 0
    /\ from # 0 => OwnAgrees(cs, m, id, from)
    /\ q[1] = Header(IF from = 0 THEN 0 ELSE 3, m.csid, IF from = 0 THEN Field(m.ts) ELSE 0, m.len, m.type)
    /\ k <= Len(q)
    /\ e = 1 => q[2] = Ext(m.ts)
    /\ \A j \in 1 .. n : q[1 + e + j] = Unit(id, from + j)

LEMMA MeetsIs ==
    ASSUME ChunkShape, NEW q, NEW G \in [Nat -> Marks], NEW id, NEW n, LayWith(msgs, q, G, 1, id, n),
           ReaderAt(msgs, chunks, read, G[1]), inSize = G[1].size
    PROVE  Meets(msgs[id], id, n, ExOf(msgs[id]), FromOf(msgs[id], G[1]), chunks[msgs[id].csid], 1 + ExOf(msgs[id]) + n, q)
<1> DEFINE m == msgs[id]
           g == G[1]
           e == ExOf(m)
           from == FromOf(m, g)
           h == HeadOf(m, g)
           g2 == G[1 + 1 + e + n]
<1>1. id \in 1 .. Len(msgs) /\ n \in Nat \ {0} /\ MarkStep(m, g, id, n, g2) /\ SegAt(q, 1, h, m, id, from, n)
  BY DEF LayWith
<1>2. msgs \in Seq(Sent) /\ inSize \in Nat \ {0}
  BY DEF ChunkShape, ChunkTypes
<1>3. m.len \in Nat /\ m.ts \in Nat
  BY <1>1, <1>2, MsgIs
<1>4. g \in Marks /\ g.at \in Nat /\ g.send \in Nat /\ g.ack \in Nat /\ g.size = inSize
  <2>1. g \in Marks
    OBVIOUS
  <2> HIDE DEF g
  <2>2. g.at \in Nat /\ g.send \in Nat /\ g.ack \in Nat
    BY <2>1 DEF Marks
  <2> QED BY <2>1, <2>2 DEF g
<1>5. /\ 1 + e + n <= Len(q) /\ q[1] = h /\ (e = 1 => q[1 + 1] = Ext(m.ts))
      /\ \A j \in 1 .. n : q[1 + e + j] = Unit(id, from + j)
  BY <1>1 DEF SegAt
<1>6. h = Header(IF from = 0 THEN 0 ELSE 3, m.csid, IF from = 0 THEN Field(m.ts) ELSE 0, m.len, m.type)
  BY DEF HeadOf
<1>7. /\ chunks[2].remain = 0 /\ (g.at = 0 => chunks[6].remain = 0)
      /\ (g.at # 0 => OwnAgrees(chunks[6], msgs[g.send], g.send, g.at))
  BY DEF ReaderAt
<1> HIDE DEF g, h, e, m, g2
<1>8. /\ from \in Nat /\ from + n <= m.len /\ m.csid \in {2, 6} /\ n = Min2(m.len - from, inSize)
      /\ (from = 0 => chunks[m.csid].remain = 0) /\ (from # 0 => OwnAgrees(chunks[m.csid], m, id, from))
  <2>1. CASE MediaStep(m, g, id, n, g2)
    <3>1. m.csid = 6 /\ g.at < m.len /\ n = Min2(m.len - g.at, g.size) /\ (g.at # 0 => id = g.send)
      BY <2>1 DEF MediaStep
    <3>2. from = g.at
      BY <3>1 DEF FromOf
    <3>3. from + n <= m.len
      BY <1>2, <1>3, <1>4, <3>1, <3>2 DEF Min2
    <3> HIDE DEF from
    <3>4. from # 0 => OwnAgrees(chunks[m.csid], m, id, from)
      BY <1>7, <3>1, <3>2 DEF m
    <3> QED BY <1>4, <1>7, <3>1, <3>2, <3>3, <3>4
  <2>2. CASE ControlStep(m, g, id, n, g2) \/ AckStep(m, g, id, n, g2)
    <3>1. m.csid = 2 /\ m.len = 1 /\ n = 1
      BY <2>2 DEF ControlStep, AckStep
    <3>2. from = 0
      BY <3>1 DEF FromOf
    <3> HIDE DEF from
    <3>3. n = Min2(m.len - from, inSize) /\ from + n <= m.len
      BY <1>2, <3>1, <3>2 DEF Min2
    <3> QED BY <1>7, <3>1, <3>2, <3>3
  <2> QED BY <1>1, <2>1, <2>2 DEF MarkStep
<1>9. 1 + 1 = 2
  OBVIOUS
<1> HIDE DEF from
<1>10. Meets(m, id, n, e, from, chunks[m.csid], 1 + e + n, q)
  BY <1>1, <1>5, <1>6, <1>8, <1>9 DEF Meets, e, m
<1> QED BY <1>10 DEF m, e, from, g

\* Its header, with the extended timestamp or without, gives the message up to
\* there; as long as the timestamp is missing there is nothing to read.
LEMMA MeetsHeader ==
    ASSUME ChunkShape, wire # <<>>, NEW m, NEW id, NEW n, NEW e, NEW from, NEW cs, NEW k, NEW q, Meets(m, id, n, e, from, cs, k, q),
           \A i \in 1 .. Len(wire) : wire[i] = q[i]
    PROVE  /\ Head(wire) = q[1] /\ Head(wire).t = "h" /\ Head(wire).csid = m.csid /\ KeyOf(Head(wire).csid) = m.csid
           /\ cs.remain # 0 => Head(wire).fmt = 3
           /\ RdHdr.cs.remain = m.len - from /\ RdSize = n
           /\ (e = 0 \/ Len(wire) >= 2) => RdHdr.used = e /\ OwnAgrees(RdHdr.cs, m, id, from)
<1> USE ChunkAssumption
<1> DEFINE h == Head(wire)
           rest == Tail(wire)
           ext == ExtOf(cs, h, rest)
           t == TimeOf(h, rest, ext)
           full == e = 0 \/ Len(wire) >= 2
           r == RdHdr
<1>1. /\ id \in 1 .. Len(msgs) /\ m = msgs[id] /\ n \in Nat \ {0} /\ e = ExOf(m) /\ from \in Nat /\ from + n <= m.len
      /\ m.csid \in {2, 6} /\ cs = chunks[m.csid] /\ n = Min2(m.len - from, inSize)
      /\ (from = 0 => cs.remain = 0) /\ (from # 0 => OwnAgrees(cs, m, id, from))
      /\ q[1] = Header(IF from = 0 THEN 0 ELSE 3, m.csid, IF from = 0 THEN Field(m.ts) ELSE 0, m.len, m.type)
      /\ (e = 1 => q[2] = Ext(m.ts))
  BY DEF Meets
<1>2. msgs \in Seq(Sent) /\ chunks \in [Keys -> Streams] /\ inSize \in Nat \ {0}
  BY DEF ChunkShape, ChunkTypes
<1>3. m.len \in Nat /\ m.ts \in Nat
  BY <1>1, <1>2, MsgIs
<1>4. h \in Tokens /\ rest \in Seq(Tokens) /\ Len(wire) \in Nat \ {0} /\ Len(rest) = Len(wire) - 1 /\ h = wire[1]
      /\ \A i \in 1 .. Len(wire) - 1 : rest[i] = wire[i + 1]
  BY WireParts
<1>5. h = q[1]
  <2>1. 1 \in 1 .. Len(wire)
    BY <1>4
  <2> QED BY <1>4, <2>1
<1>6. /\ h.t = "h" /\ h.csid = m.csid /\ h.len = m.len /\ h.type = m.type
      /\ h.fmt = (IF from = 0 THEN 0 ELSE 3) /\ h.ts = (IF from = 0 THEN Field(m.ts) ELSE 0)
  BY <1>1, <1>5 DEF Header
<1>7. KeyOf(h.csid) = m.csid /\ cs \in Streams
  <2>1. KeyOf(h.csid) = m.csid
    BY <1>1, <1>6 DEF KeyOf
  <2>2. m.csid \in Keys
    BY <1>1 DEF Keys
  <2> QED BY <1>1, <1>2, <2>1, <2>2
<1>8. r = ReadHeader(cs, h, rest)
  BY <1>1, <1>7 DEF RdHdr
<1> HIDE DEF h, rest, r
<1>9. HeaderGives(cs, h, r, ext, t)
  BY <1>4, <1>7, <1>8, HeaderRead
<1>10. e \in {0, 1} /\ (e = 1 <=> m.ts >= Max24)
  BY <1>1 DEF ExOf
<1>11. full /\ e = 1 => rest # <<>> /\ rest[1] = Ext(m.ts)
  <2> SUFFICES ASSUME full, e = 1 PROVE rest # <<>> /\ rest[1] = Ext(m.ts)
    OBVIOUS
  <2>1. Len(wire) >= 2 /\ Len(rest) # 0 /\ 1 \in 1 .. Len(wire) - 1 /\ 1 + 1 = 2 /\ 2 \in 1 .. Len(wire)
    BY <1>4
  <2>2. rest[1] = wire[2] /\ wire[2] = q[2]
    BY <1>4, <2>1
  <2>3. rest # <<>>
    BY <2>1
  <2> QED BY <1>1, <2>2, <2>3
<1> HIDE DEF full
<1>12. Ext(m.ts).ts = m.ts /\ Ext(m.ts).t = "x"
  BY DEF Ext
<1>13. /\ r.cs.remain = m.len - from
       /\ full => r.used = e /\ OwnAgrees(r.cs, m, id, from)
  <2>1. CASE from = 0
    <3>1. h.fmt = 0 /\ h.ts = Field(m.ts)
      BY <1>6, <2>1
    <3>2. ext <=> e = 1
      BY <1>3, <1>10, <3>1 DEF ExtOf, Field, Min2
    <3>3. full => t = m.ts
      <4>1. CASE e = 1
        BY <1>11, <1>12, <3>2, <4>1 DEF TimeOf
      <4>2. CASE e = 0
        BY <1>3, <1>10, <3>1, <3>2, <4>2 DEF TimeOf, Field, Min2
      <4> QED BY <1>10, <4>1, <4>2
    <3> HIDE DEF ext, t
    <3>4. r.used = e
      BY <1>9, <1>10, <3>2 DEF HeaderGives
    <3>5. r.cs = [fmt |-> h.fmt, ts |-> NewTime(cs, t, h.fmt), delta |-> IF h.fmt = 0 THEN cs.delta ELSE t,
                 ext |-> ext, len |-> IF h.fmt < 2 THEN h.len ELSE cs.len,
                 type |-> IF h.fmt < 2 THEN h.type ELSE cs.type,
                 remain |-> IF h.fmt < 2 THEN h.len ELSE cs.len, got |-> FALSE, data |-> <<>>]
      BY <1>9, <3>1 DEF HeaderGives
    <3>6. r.cs.ts = t /\ r.cs.ext = ext /\ r.cs.len = m.len /\ r.cs.type = m.type /\ r.cs.remain = m.len /\ r.cs.data = <<>>
      BY <1>6, <3>1, <3>5 DEF NewTime
    <3>7. Units(id, 0, 0) = <<>>
      BY DEF Units
    <3>8. m.len - from = m.len
      BY <1>3, <2>1
    <3>9. (r.cs.ext <=> m.ts >= Max24)
      BY <1>10, <3>2, <3>6, Zenon
    <3>10. full => OwnAgrees(r.cs, m, id, from)
      BY <2>1, <3>3, <3>6, <3>7, <3>8, <3>9 DEF OwnAgrees
    <3> QED BY <3>4, <3>6, <3>8, <3>10
  <2>2. CASE from # 0
    <3>1. h.fmt = 3 /\ OwnAgrees(cs, m, id, from)
      BY <1>1, <1>6, <2>2
    <3>2. cs.remain = m.len - from /\ cs.ts = m.ts /\ (cs.ext <=> m.ts >= Max24)
      BY <3>1 DEF OwnAgrees
    <3>3. cs.remain # 0
      BY <1>1, <1>3, <3>2
    <3>4. full => (ext <=> e = 1)
      <4>1. CASE e = 1
        BY <1>10, <1>11, <1>12, <3>1, <3>2, <3>3, <4>1 DEF ExtOf
      <4>2. CASE e = 0
        BY <1>10, <3>1, <3>2, <3>3, <4>2 DEF ExtOf
      <4> QED BY <1>10, <4>1, <4>2
    <3> HIDE DEF ext, t
    <3>5. r.cs = cs /\ (full => r.used = e)
      BY <1>9, <1>10, <3>1, <3>3, <3>4 DEF HeaderGives
    <3> QED BY <3>1, <3>2, <3>5
  <2> QED BY <2>1, <2>2
<1>14. RdSize = n
  BY <1>1, <1>13 DEF RdSize, r
<1>15. cs.remain # 0 => h.fmt = 3
  BY <1>1, <1>6
<1> QED BY <1>5, <1>6, <1>7, <1>13, <1>14, <1>15 DEF h, r, full

\* It is not read before it is whole, and then the message is as far.
LEMMA MeetsRead ==
    ASSUME ChunkShape, wire # <<>>, NEW m, NEW id, NEW n, NEW e, NEW from, NEW cs, NEW k, NEW q, Meets(m, id, n, e, from, cs, k, q),
           \A i \in 1 .. Len(wire) : wire[i] = q[i]
    PROVE  /\ ~RdBad
           /\ Len(wire) >= 1 + RdHdr.used + RdSize =>
                /\ k <= Len(wire) /\ RdHdr.used + RdSize + 1 = k /\ RdNew \in Streams /\ OwnAgrees(RdNew, m, id, from + n)
                /\ RdNew.got <=> from + n = m.len
<1> DEFINE h == Head(wire)
           u == RdHdr.used
           b == RdBody
           l == Len(wire)
           top == Min2(1 + u + n, l)
<1>1. /\ id \in 1 .. Len(msgs) /\ m = msgs[id] /\ n \in Nat \ {0} /\ from \in Nat /\ from + n <= m.len
      /\ cs = chunks[m.csid] /\ k = 1 + e + n /\ k <= Len(q) /\ (e = 1 => q[2] = Ext(m.ts)) /\ e = ExOf(m)
      /\ \A j \in 1 .. n : q[1 + e + j] = Unit(id, from + j)
  BY DEF Meets
<1>2. /\ h = q[1] /\ h.t = "h" /\ h.csid = m.csid /\ KeyOf(h.csid) = m.csid /\ (cs.remain # 0 => h.fmt = 3)
      /\ RdHdr.cs.remain = m.len - from /\ RdSize = n
      /\ ((e = 0 \/ l >= 2) => u = e /\ OwnAgrees(RdHdr.cs, m, id, from))
  BY MeetsHeader
<1>3. u \in {0, 1} /\ RdHdr.cs \in Streams
  BY <1>2, HdrShape
<1>4. l \in Nat \ {0} /\ wire \in Seq(Tokens) /\ m.len \in Nat /\ id \in Nat
  <2>1. msgs \in Seq(Sent) /\ wire \in Seq(Tokens)
    BY DEF ChunkShape, ChunkTypes
  <2> QED BY <1>1, <2>1, WireParts, MsgIs
<1>5. e \in {0, 1}
  BY <1>1 DEF ExOf
<1>6. b = SubSeq(wire, 2 + u, top)
  BY <1>2 DEF RdBody
<1> HIDE DEF h, u, b, l
<1>7. top \in Nat /\ top <= l /\ top <= 1 + u + n
  BY <1>1, <1>3, <1>4 DEF Min2
<1> HIDE DEF top
<1>8. \A i \in 1 .. Len(b) : b[i] = wire[1 + u + i] /\ 1 + u + i <= top
  <2>1. CASE top < 2 + u
    <3>1. b = <<>>
      BY <1>3, <1>4, <1>6, <1>7, <2>1 DEF l
    <3> QED BY <3>1
  <2>2. CASE ~(top < 2 + u)
    <3>1. Len(b) = top - (1 + u) /\ \A i \in 1 .. top - (1 + u) : b[i] = wire[(2 + u) + i - 1]
      BY <1>3, <1>4, <1>6, <1>7, <2>2 DEF l
    <3>2. \A i \in 1 .. top - (1 + u) : (2 + u) + i - 1 = 1 + u + i /\ 1 + u + i <= top
      BY <1>3, <1>7, <2>2
    <3> QED BY <3>1, <3>2
  <2> QED BY <2>1, <2>2
<1>9. ASSUME NEW i \in 1 .. Len(b) PROVE b[i].t = "d"
  <2>0. Len(b) \in Nat
    BY <1>3, <1>4, <1>6, <1>7 DEF l
  <2>1. b[i] = wire[1 + u + i] /\ 1 + u + i <= top
    BY <1>8
  <2>2. l >= 2 /\ 1 + u + i \in 1 .. l /\ i \in 1 .. n
    <3>1. \A a, y, s, v, j \in Nat : j # 0 /\ s <= y /\ s <= 1 + v + a /\ 1 + v + j <= s =>
            y >= 2 /\ 1 + v + j \in 1 .. y /\ j \in 1 .. a
      OBVIOUS
    <3>2. i \in Nat /\ i # 0
      BY <2>0
    <3>3. n \in Nat /\ l \in Nat /\ u \in Nat /\ top \in Nat
      BY <1>1, <1>3, <1>4, <1>7
    <3> QED BY <1>7, <2>1, <3>1, <3>2, <3>3
  <2>3. u = e
    BY <1>2, <2>2
  <2>4. b[i] = q[1 + e + i]
    BY <2>1, <2>2, <2>3 DEF l
  <2>5. b[i] = Unit(id, from + i)
    BY <1>1, <2>2, <2>4
  <2> QED BY <2>5 DEF Unit
<1>10. ASSUME u = 1, l > 1 PROVE wire[2].t = "x"
  <2>1. l >= 2 /\ 2 \in 1 .. l
    BY <1>4, <1>10
  <2>2. e = 1 /\ wire[2] = q[2]
    BY <1>2, <1>10, <2>1 DEF l
  <2>3. wire[2] = Ext(m.ts)
    BY <1>1, <2>2
  <2> QED BY <2>3 DEF Ext
<1>11. ~RdBad
  <2>1. chunks[KeyOf(h.csid)] = cs
    BY <1>1, <1>2
  <2> QED BY <1>2, <1>9, <1>10, <2>1 DEF RdBad, h, u, b, l
<1>12. ASSUME l >= 1 + u + n
       PROVE  /\ k <= l /\ u + n + 1 = k /\ RdNew \in Streams /\ OwnAgrees(RdNew, m, id, from + n)
              /\ RdNew.got <=> from + n = m.len
  <2>1. l >= 2
    BY <1>1, <1>3, <1>4, <1>12
  <2>2. u = e /\ OwnAgrees(RdHdr.cs, m, id, from)
    BY <1>2, <2>1
  <2>3. k <= l /\ u + n + 1 = k
    BY <1>1, <1>3, <1>5, <1>12, <2>2
  <2>4. /\ RdNew \in Streams
        /\ RdNew = [RdHdr.cs EXCEPT !.remain = RdHdr.cs.remain - n, !.got = (RdHdr.cs.remain = n),
                                    !.data = RdHdr.cs.data \o b]
        /\ b \in Seq(Tokens) /\ Len(b) = n /\ \A i \in 1 .. n : b[i] = wire[1 + u + i]
    BY <1>2, <1>11, <1>12, RdShape DEF u, b, l
  <2> DEFINE r == RdHdr.cs
  <2>5. r.ts = m.ts /\ r.len = m.len /\ r.type = m.type /\ r.remain = m.len - from /\ (r.ext <=> m.ts >= Max24) /\ r.data = Units(id, 0, from)
    BY <2>2 DEF OwnAgrees
  <2>6. UnitsFrom(b, id, from, n)
    <3>1. \A i \in 1 .. n : 1 + u + i \in 1 .. l
      BY <1>1, <1>3, <1>4, <1>12
    <3>2. \A i \in 1 .. n : b[i] = Unit(id, from + i)
      BY <1>1, <2>2, <2>4, <3>1 DEF l
    <3> QED BY <2>4, <3>2 DEF UnitsFrom
  <2>7. Units(id, 0, from) \o b = Units(id, 0, from + n)
    <3>1. Joins(b, id, from, n)
      BY <1>1, <1>4, <2>6, UnitsJoin
    <3> QED BY <3>1 DEF Joins
  <2>8. RdNew.ts = r.ts /\ RdNew.len = r.len /\ RdNew.type = r.type /\ RdNew.ext = r.ext /\ RdNew.remain = r.remain - n
        /\ RdNew.got = (r.remain = n) /\ RdNew.data = r.data \o b
    BY <1>3, <2>4 DEF Streams
  <2> HIDE DEF r
  <2>9. r.remain - n = m.len - (from + n) /\ (r.remain = n <=> from + n = m.len)
    <3>1. \A a, x, y \in Nat : (a - x) - y = a - (x + y) /\ (a - x = y <=> x + y = a)
      OBVIOUS
    <3>2. m.len \in Nat /\ from \in Nat /\ n \in Nat /\ r.remain = m.len - from
      BY <1>1, <1>4, <2>5
    <3> QED BY <3>1, <3>2
  <2>10. RdNew.ext <=> m.ts >= Max24
    BY <2>5, <2>8, Zenon
  <2>11. RdNew.got <=> from + n = m.len
    BY <2>8, <2>9, Zenon
  <2>12. OwnAgrees(RdNew, m, id, from + n)
    BY <2>5, <2>7, <2>8, <2>9, <2>10 DEF OwnAgrees
  <2> QED BY <2>3, <2>4, <2>11, <2>12
<1> QED BY <1>2, <1>11, <1>12 DEF u, l

\* One message more that was read.
LEMMA SeenLater ==
    ASSUME NEW ms \in Seq(Sent), NEW r, ReadsOf(ms, r), NEW by, NEW a \in Nat, NEW b \in Nat, a <= b, SeenBefore(ms, r, Len(r), by, a)
    PROVE  SeenBefore(ms, r, Len(r), by, b)
<1> SUFFICES ASSUME NEW j \in 1 .. Len(r), NEW d \in 1 .. Len(r[j].data), ms[r[j].data[d].csid].by = by
             PROVE  r[j].data[d].csid < b
  BY DEF SeenBefore
<1> DEFINE x == r[j].data[d].csid
<1>1. x \in 1 .. Len(ms) /\ Len(ms) \in Nat
  BY IdsRead
<1>2. x < a
  BY DEF SeenBefore
<1> HIDE DEF x
<1>3. x < b
  BY <1>1, <1>2
<1> QED BY <1>3 DEF x

ReadAdds(ms, r, r2, id) ==
    /\ ReadsOf(ms, r2) /\ SeenBefore(ms, r2, Len(r2), ms[id].by, id + 1)
    /\ \A by, b : by # ms[id].by /\ SeenBefore(ms, r, Len(r), by, b) => SeenBefore(ms, r2, Len(r2), by, b)

LEMMA ReadMore ==
    ASSUME NEW ms \in Seq(Sent), NEW r \in Seq(Reads), NEW x \in Reads, NEW id, IsMsg(ms, x, id), ReadsOf(ms, r),
           SeenBefore(ms, r, Len(r), ms[id].by, id), NEW r2, r2 = Append(r, x)
    PROVE  ReadAdds(ms, r, r2, id)
<1> DEFINE l == Len(r)
<1>1. l \in Nat /\ Len(r2) = l + 1 /\ r2[l + 1] = x /\ \A i \in 1 .. l : r2[i] = r[i]
  BY AppendProperties
<1>2. id \in 1 .. Len(ms) /\ id \in Nat /\ x.data = Units(id, 0, ms[id].len) /\ ms[id].len \in Nat
  BY MsgIs DEF IsMsg
<1>3. \A d \in 1 .. Len(x.data) : x.data[d].csid = id
  <2> DEFINE n == ms[id].len
             u == Units(id, 0, n)
  <2>1. n \in Nat /\ x.data = u
    BY <1>2
  <2> HIDE DEF n
  <2>2. Len(u) = n /\ \A i \in 1 .. n : u[i] = Unit(id, 0 + i)
    BY <2>1 DEF Units
  <2> HIDE DEF u
  <2> QED BY <2>1, <2>2 DEF Unit
<1>4. \A j \in 1 .. l + 1 : j \in 1 .. l \/ j = l + 1
  BY <1>1
<1>5. ASSUME NEW by, NEW b, NEW c \in Nat, c \in 0 .. l, SeenBefore(ms, r, c, by, b) PROVE SeenBefore(ms, r2, c, by, b)
  <2>1. \A j \in 1 .. c : j \in 1 .. l
    BY <1>1, <1>5
  <2> QED BY <1>1, <1>5, <2>1 DEF SeenBefore
<1>6. l \in 0 .. l
  BY <1>1
<1>7. \A by, b : by # ms[id].by /\ SeenBefore(ms, r, Len(r), by, b) => SeenBefore(ms, r2, Len(r2), by, b)
  <2> SUFFICES ASSUME NEW by, NEW b, by # ms[id].by, SeenBefore(ms, r, Len(r), by, b) PROVE SeenBefore(ms, r2, Len(r2), by, b)
    OBVIOUS
  <2>1. SeenBefore(ms, r2, l, by, b)
    BY <1>1, <1>5, <1>6
  <2> HIDE DEF l
  <2> QED BY <1>1, <1>3, <1>4, <2>1 DEF SeenBefore
<1>8. SeenBefore(ms, r2, Len(r2), ms[id].by, id + 1)
  <2>1. SeenBefore(ms, r, Len(r), ms[id].by, id + 1)
    <3>1. id + 1 \in Nat /\ id <= id + 1
      BY <1>2
    <3> QED BY <1>2, <3>1, SeenLater
  <2>2. SeenBefore(ms, r2, l, ms[id].by, id + 1)
    BY <1>1, <1>5, <1>6, <2>1
  <2>3. id < id + 1
    BY <1>2
  <2> HIDE DEF l
  <2> SUFFICES ASSUME NEW j \in 1 .. l + 1, NEW d \in 1 .. Len(r2[j].data), ms[r2[j].data[d].csid].by = ms[id].by
               PROVE  r2[j].data[d].csid < id + 1
    BY <1>1 DEF SeenBefore
  <2>4. CASE j \in 1 .. l
    BY <2>2, <2>4 DEF SeenBefore
  <2>5. CASE j = l + 1
    <3>1. r2[j].data[d].csid = id
      BY <1>1, <1>3, <2>5
    <3> QED BY <2>3, <3>1
  <2> QED BY <1>4, <2>4, <2>5
<1>9. ReadsOf(ms, r2)
  <2> SUFFICES ASSUME NEW i \in 1 .. l + 1 PROVE \E d : IsMsg(ms, r2[i], d) /\ SeenBefore(ms, r2, i - 1, ms[d].by, d)
    BY <1>1 DEF ReadsOf
  <2>1. CASE i \in 1 .. l
    <3>1. PICK d : IsMsg(ms, r[i], d) /\ SeenBefore(ms, r, i - 1, ms[d].by, d)
      BY <2>1 DEF ReadsOf
    <3>2. i - 1 \in 0 .. l /\ i - 1 \in Nat
      BY <1>1, <2>1
    <3>3. SeenBefore(ms, r2, i - 1, ms[d].by, d)
      BY <1>5, <3>1, <3>2
    <3> QED BY <1>1, <2>1, <3>1, <3>3
  <2>2. CASE i = l + 1
    <3>1. i - 1 = l
      BY <1>1, <2>2
    <3>2. SeenBefore(ms, r2, l, ms[id].by, id)
      BY <1>1, <1>5, <1>6
    <3> HIDE DEF l
    <3> QED BY <1>1, <2>2, <3>1, <3>2
  <2> QED BY <1>4, <2>1, <2>2
<1> QED BY <1>7, <1>8, <1>9 DEF ReadAdds

\* What a chunk that is read does to the streams and to what was read.
ReadsOn(ms, ch, r, g, id, m, n, g2, from, new, ch2, r2, x) ==
    /\ ms \in Seq(Sent) /\ ch \in [Keys -> Streams] /\ r \in Seq(Reads) /\ g \in Marks /\ ReaderAt(ms, ch, r, g)
    /\ id \in 1 .. Len(ms) /\ m = ms[id] /\ n \in Nat \ {0} /\ MarkStep(m, g, id, n, g2)
    /\ from \in Nat /\ from = FromOf(m, g) /\ from + n <= m.len /\ new \in Streams /\ OwnAgrees(new, m, id, from + n)
    /\ ch2 = [ch EXCEPT ![m.csid] = new] /\ x \in Reads
    /\ from + n = m.len => IsMsg(ms, x, id) /\ r2 = Append(r, x)
    /\ from + n # m.len => r2 = r

\* The chunk takes the reader to the next mark.
LEMMA ReaderStep ==
    ASSUME NEW ms, NEW ch, NEW r, NEW g, NEW id, NEW m, NEW n, NEW g2, NEW from, NEW new, NEW ch2, NEW r2, NEW x,
           ReadsOn(ms, ch, r, g, id, m, n, g2, from, new, ch2, r2, x)
    PROVE  ReaderAt(ms, ch2, r2, g2)
<1>0. /\ ms \in Seq(Sent) /\ ch \in [Keys -> Streams] /\ r \in Seq(Reads) /\ g \in Marks /\ ReaderAt(ms, ch, r, g)
      /\ id \in 1 .. Len(ms) /\ m = ms[id] /\ n \in Nat \ {0} /\ MarkStep(m, g, id, n, g2)
      /\ from \in Nat /\ from = FromOf(m, g) /\ from + n <= m.len /\ new \in Streams /\ OwnAgrees(new, m, id, from + n)
      /\ ch2 = [ch EXCEPT ![m.csid] = new] /\ x \in Reads
      /\ from + n = m.len => IsMsg(ms, x, id) /\ r2 = Append(r, x)
      /\ from + n # m.len => r2 = r
  BY DEF ReadsOn
<1> USE <1>0
<1> DEFINE done == from + n = m.len
<1>1. /\ ch[2].remain = 0 /\ (g.at = 0 => ch[6].remain = 0)
      /\ (g.at # 0 => g.send \in 1 .. Len(ms) /\ g.at <= ms[g.send].len /\ OwnAgrees(ch[6], ms[g.send], g.send, g.at))
      /\ g.cnt = Len(r) /\ ReadsOf(ms, r)
      /\ SeenBefore(ms, r, Len(r), "ack", g.ack + 1) /\ SeenBefore(ms, r, Len(r), "send", NextSend(g))
  BY DEF ReaderAt
<1>2. g.at \in Nat /\ g.send \in Nat /\ g.ack \in Nat /\ g.cnt \in Nat /\ id \in Nat /\ m.len \in Nat
  BY MsgIs DEF Marks
<1>3. 2 \in Keys /\ 6 \in Keys
  BY DEF Keys
<1>4. new.remain = m.len - (from + n)
  BY DEF OwnAgrees
<1>5. done => new.remain = 0
  BY <1>2, <1>4
<1>6. Len(r) \in Nat /\ (done => Len(r2) = Len(r) + 1)
  BY AppendProperties
<1>7. SeenBefore(ms, r, Len(r), m.by, id) /\ done => ReadAdds(ms, r, r2, id)
  BY <1>1, ReadMore
<1>8. NextSend(g) \in Nat
  BY <1>2 DEF NextSend
<1>9. CASE MediaStep(m, g, id, n, g2)
  <2>1. /\ m.by = "send" /\ m.csid = 6 /\ (g.at = 0 => id > g.send) /\ (g.at # 0 => id = g.send)
        /\ g2 = [size |-> g.size, at |-> IF g.at + n = m.len THEN 0 ELSE g.at + n, send |-> id, ack |-> g.ack,
                 cnt |-> IF g.at + n = m.len THEN g.cnt + 1 ELSE g.cnt]
    BY <1>9 DEF MediaStep
  <2>2. from = g.at
    BY <2>1 DEF FromOf
  <2>3. g2.at = (IF done THEN 0 ELSE from + n) /\ g2.send = id /\ g2.ack = g.ack /\ g2.cnt = (IF done THEN g.cnt + 1 ELSE g.cnt)
    BY <2>1, <2>2
  <2>4. ch2[6] = new /\ ch2[2] = ch[2]
    BY <1>3, <2>1
  <2>5. NextSend(g) <= id
    BY <1>2, <2>1 DEF NextSend
  <2>6. SeenBefore(ms, r, Len(r), "send", id)
    BY <1>1, <1>2, <1>8, <2>5, SeenLater
  <2> HIDE DEF done
  <2>7. CASE done
    <3>1. ReadAdds(ms, r, r2, id)
      BY <1>7, <2>1, <2>6, <2>7
    <3>2. NextSend(g2) = id + 1
      BY <2>3, <2>7 DEF NextSend
    <3>3. ReadsOf(ms, r2) /\ SeenBefore(ms, r2, Len(r2), "send", id + 1) /\ SeenBefore(ms, r2, Len(r2), "ack", g.ack + 1)
      BY <1>1, <2>1, <3>1 DEF ReadAdds
    <3>4. g2.at = 0 /\ g2.cnt = Len(r2)
      BY <1>1, <1>6, <2>3, <2>7
    <3> QED BY <1>1, <1>5, <2>3, <2>4, <2>7, <3>2, <3>3, <3>4 DEF ReaderAt
  <2>8. CASE ~done
    <3>1. r2 = r
      BY <2>8 DEF done
    <3>2. g2.at = from + n /\ g2.at # 0 /\ g2.cnt = Len(r2)
      BY <1>1, <2>3, <2>8, <3>1
    <3>3. NextSend(g2) = id
      BY <2>3, <3>2 DEF NextSend
    <3> QED BY <1>1, <2>3, <2>4, <2>6, <3>1, <3>2, <3>3 DEF ReaderAt
  <2> QED BY <2>7, <2>8
<1>10. CASE ControlStep(m, g, id, n, g2)
  <2>1. /\ m.by = "send" /\ m.csid = 2 /\ m.len = 1 /\ n = 1 /\ g.at = 0 /\ id > g.send
        /\ g2 = [size |-> IF m.type = "size" THEN m.val ELSE g.size, at |-> 0, send |-> id, ack |-> g.ack, cnt |-> g.cnt + 1]
    BY <1>10 DEF ControlStep
  <2>2. from = 0 /\ done
    BY <2>1 DEF FromOf
  <2>3. g2.at = 0 /\ g2.send = id /\ g2.ack = g.ack /\ g2.cnt = g.cnt + 1
    BY <2>1
  <2>4. ch2[2] = new /\ ch2[6] = ch[6]
    BY <1>3, <2>1
  <2>5. NextSend(g) <= id /\ NextSend(g2) = id + 1
    BY <1>2, <2>1, <2>3 DEF NextSend
  <2>6. SeenBefore(ms, r, Len(r), "send", id)
    BY <1>1, <1>2, <1>8, <2>5, SeenLater
  <2>7. ReadAdds(ms, r, r2, id)
    BY <1>7, <2>1, <2>2, <2>6
  <2>8. ReadsOf(ms, r2) /\ SeenBefore(ms, r2, Len(r2), "send", id + 1) /\ SeenBefore(ms, r2, Len(r2), "ack", g.ack + 1)
    BY <1>1, <2>1, <2>7 DEF ReadAdds
  <2>9. g2.cnt = Len(r2)
    BY <1>1, <1>6, <2>2, <2>3
  <2> QED BY <1>1, <1>5, <2>1, <2>2, <2>3, <2>4, <2>5, <2>8, <2>9 DEF ReaderAt
<1>11. CASE AckStep(m, g, id, n, g2)
  <2>1. /\ m.by = "ack" /\ m.csid = 2 /\ m.len = 1 /\ n = 1 /\ id > g.ack
        /\ g2 = [size |-> g.size, at |-> g.at, send |-> g.send, ack |-> id, cnt |-> g.cnt + 1]
    BY <1>11 DEF AckStep
  <2>2. from = 0 /\ done
    BY <2>1 DEF FromOf
  <2>3. g2.at = g.at /\ g2.send = g.send /\ g2.ack = id /\ g2.cnt = g.cnt + 1
    BY <2>1
  <2>4. ch2[2] = new /\ ch2[6] = ch[6]
    BY <1>3, <2>1
  <2>5. g.ack + 1 <= id /\ g.ack + 1 \in Nat /\ NextSend(g2) = NextSend(g)
    BY <1>2, <2>1, <2>3 DEF NextSend
  <2>6. SeenBefore(ms, r, Len(r), "ack", id)
    BY <1>1, <1>2, <2>5, SeenLater
  <2>7. ReadAdds(ms, r, r2, id)
    BY <1>7, <2>1, <2>2, <2>6
  <2>8. ReadsOf(ms, r2) /\ SeenBefore(ms, r2, Len(r2), "ack", id + 1) /\ SeenBefore(ms, r2, Len(r2), "send", NextSend(g))
    BY <1>1, <2>1, <2>7 DEF ReadAdds
  <2>9. g2.cnt = Len(r2)
    BY <1>1, <1>6, <2>2, <2>3
  <2> QED BY <1>1, <1>5, <2>2, <2>3, <2>4, <2>5, <2>8, <2>9 DEF ReaderAt
<1> QED BY <1>9, <1>10, <1>11 DEF MarkStep

\* What is left of the stream when its first chunk has been read.
Dropped(ms, q, G, k) ==
    /\ k \in Nat /\ k <= Len(q) /\ SubSeq(q, k + 1, Len(q)) \in Seq(Tokens)
    /\ Laid(ms, SubSeq(q, k + 1, Len(q)), [i \in Nat |-> G[i + k]])

LEMMA DropLaid ==
    ASSUME NEW ms, NEW q \in Seq(Tokens), NEW G \in [Nat -> Marks], Laid(ms, q, G), NEW id, NEW n,
           LayWith(ms, q, G, 1, id, n), NEW k, k = 1 + ExOf(ms[id]) + n
    PROVE  Dropped(ms, q, G, k)
<1>1. /\ k \in Nat /\ k <= Len(q) /\ SubSeq(q, k + 1, Len(q)) \in Seq(Tokens)
      /\ Laid(ms, SubSeq(q, k + 1, Len(q)), [i \in Nat |-> G[i + k]])
  BY LaidDrop, Zenon
<1> QED BY <1>1 DEF Dropped

\* The chunk size at the next mark.
LEMMA SizeStep ==
    ASSUME NEW m, NEW g, NEW id, NEW n, NEW g2, MarkStep(m, g, id, n, g2)
    PROVE  /\ g2.size = IF m.type = "size" THEN m.val ELSE g.size
           /\ m.type = "size" => FromOf(m, g) + n = m.len /\ m.len = 1
<1>1. CASE MediaStep(m, g, id, n, g2)
  BY <1>1 DEF MediaStep
<1>2. CASE ControlStep(m, g, id, n, g2)
  BY <1>2 DEF ControlStep, FromOf
<1>3. CASE AckStep(m, g, id, n, g2)
  BY <1>3 DEF AckStep
<1> QED BY <1>1, <1>2, <1>3 DEF MarkStep

\* What ReadChunk does with the next chunk.
OwnReads(m, id, n, from, k) ==
    /\ k <= Len(wire) /\ wire' = SubSeq(wire, k + 1, Len(wire)) /\ broken' = broken
    /\ RdNew \in Streams /\ OwnAgrees(RdNew, m, id, from + n) /\ chunks' = [chunks EXCEPT ![m.csid] = RdNew]
    /\ Head(wire).csid = m.csid
    /\ from + n = m.len => HandleControlMsg(RdNew) /\ read' = Append(read, RdMsg)
    /\ from + n # m.len => UNCHANGED <<inSize, read>>
    /\ UNCHANGED <<mode, msgs, sending, outSize, out, mixed, longDelta, torn>>

LEMMA OwnReadIs ==
    ASSUME ChunkShape, ReadChunk, NEW m, NEW id, NEW n, NEW e, NEW from, NEW cs, NEW k \in Nat, NEW q,
           Meets(m, id, n, e, from, cs, k, q), \A i \in 1 .. Len(wire) : wire[i] = q[i]
    PROVE  OwnReads(m, id, n, from, k)
<1>1. wire # <<>>
  BY ReadChunkIs
<1>2. /\ ~RdBad
      /\ Len(wire) >= 1 + RdHdr.used + RdSize =>
                /\ k <= Len(wire) /\ RdHdr.used + RdSize + 1 = k /\ RdNew \in Streams /\ OwnAgrees(RdNew, m, id, from + n)
                /\ RdNew.got <=> from + n = m.len
  BY <1>1, MeetsRead
<1>3. Head(wire).csid = m.csid /\ KeyOf(Head(wire).csid) = m.csid /\ Head(wire).t = "h"
  BY <1>1, MeetsHeader
<1>4. /\ Len(wire) >= 1 + RdHdr.used + RdSize
      /\ wire' = SubSeq(wire, 2 + RdHdr.used + RdSize, Len(wire))
      /\ chunks' = [chunks EXCEPT ![KeyOf(Head(wire).csid)] = RdNew]
      /\ \/ RdNew.got /\ HandleControlMsg(RdNew) /\ Ack(RdNew.len) /\ read' = Append(read, RdMsg)
         \/ ~RdNew.got /\ UNCHANGED <<inSize, window, ackReceived, acked, read>>
      /\ UNCHANGED broken
      /\ UNCHANGED <<mode, msgs, sending, outSize, out, mixed, longDelta, torn>>
  BY <1>2, ReadChunkIs
<1>5. 2 + RdHdr.used + RdSize = k + 1
  <2>1. RdHdr.used \in Nat /\ RdSize \in Nat
    BY <1>1, <1>3, HdrShape
  <2>2. RdHdr.used + RdSize + 1 = k
    BY <1>2, <1>4
  <2>3. \A a, b \in Nat : 2 + a + b = (a + b + 1) + 1
    OBVIOUS
  <2> QED BY <2>1, <2>2, <2>3
<1> QED BY <1>2, <1>3, <1>4, <1>5 DEF OwnReads

LEMMA ReadSync ==
    ASSUME OwnShape, OwnSynced, ReadChunk
    PROVE  OwnSynced'
<1>1. PICK G, part, rs, ra : OwnWith(G, part, rs, ra)
  BY DEF OwnSynced
<1>2. /\ Flow(msgs, outSize, wire, part, rs, ra, G) /\ Owes(out, part, rs, ra)
      /\ inSize = G[1].size /\ ReaderAt(msgs, chunks, read, G[1])
  BY <1>1 DEF OwnWith
<1>3. PICK q : q = wire \o part
  OBVIOUS
<1>4. G \in [Nat -> Marks] /\ part \in Seq(Tokens) /\ rs \in Seq(Tokens) /\ ra \in Seq(Tokens) /\ NoHeads(part)
      /\ Laid(msgs, q, G) /\ WriterAt(msgs, outSize, G[Len(q) + 1], rs, ra)
  BY <1>2, <1>3 DEF Flow
<1>5. ChunkShape /\ msgs \in Seq(Sent) /\ wire \in Seq(Tokens) /\ read \in Seq(Reads) /\ chunks \in [Keys -> Streams]
  BY DEF OwnShape, ChunkShape, ChunkTypes
<1>6. wire # <<>> /\ Len(wire) \in Nat \ {0}
  BY <1>5, EmptySeq, ReadChunkIs
<1>7. q \in Seq(Tokens) /\ Len(q) = Len(wire) + Len(part) /\ Len(part) \in Nat /\ \A i \in 1 .. Len(wire) : wire[i] = q[i]
  <2>1. q \in Seq(Tokens) /\ Len(q) = Len(wire) + Len(part)
        /\ \A i \in 1 .. Len(wire) + Len(part) : q[i] = IF i <= Len(wire) THEN wire[i] ELSE part[i - Len(wire)]
    BY <1>3, <1>4, <1>5, TokensJoined
  <2>2. Len(part) \in Nat
    BY <1>4
  <2>3. \A i \in 1 .. Len(wire) : i \in 1 .. Len(wire) + Len(part) /\ i <= Len(wire)
    BY <1>6, <2>2
  <2> QED BY <2>1, <2>2, <2>3
<1>8. PICK id, n : LayWith(msgs, q, G, 1, id, n)
  <2>1. 1 \in 1 .. Len(q) /\ Len(q) # 0
    BY <1>6, <1>7
  <2>2. q # <<>>
    BY <2>1
  <2> QED BY <1>4, <2>1, <2>2 DEF Laid
<1>9. PICK m, g, e, from : m = msgs[id] /\ g = G[1] /\ e = ExOf(m) /\ from = FromOf(m, g)
  OBVIOUS
<1>10. PICK k : k = 1 + e + n
  OBVIOUS
<1>11. Meets(m, id, n, e, from, chunks[m.csid], k, q)
  <2>1. Meets(msgs[id], id, n, ExOf(msgs[id]), FromOf(msgs[id], G[1]), chunks[msgs[id].csid], 1 + ExOf(msgs[id]) + n, q)
    BY <1>2, <1>4, <1>5, <1>8, MeetsIs
  <2> QED BY <1>9, <1>10, <2>1
<1>12. id \in 1 .. Len(msgs) /\ n \in Nat \ {0} /\ from \in Nat /\ from + n <= m.len /\ m.csid \in {2, 6}
  BY <1>11 DEF Meets
<1>13. /\ k \in Nat /\ k <= Len(q) /\ SubSeq(q, k + 1, Len(q)) \in Seq(Tokens)
       /\ Laid(msgs, SubSeq(q, k + 1, Len(q)), [i \in Nat |-> G[i + k]])
  <2>1. k = 1 + ExOf(msgs[id]) + n
    BY <1>9, <1>10
  <2>2. Dropped(msgs, q, G, k)
    BY <1>4, <1>7, <1>8, <2>1, DropLaid
  <2> QED BY <2>2 DEF Dropped
<1>14. OwnReads(m, id, n, from, k)
  BY <1>5, <1>7, <1>11, <1>13, OwnReadIs
<1>15. /\ k <= Len(wire) /\ wire' = SubSeq(wire, k + 1, Len(wire)) /\ broken' = broken
       /\ RdNew \in Streams /\ OwnAgrees(RdNew, m, id, from + n) /\ chunks' = [chunks EXCEPT ![m.csid] = RdNew]
       /\ Head(wire).csid = m.csid
       /\ (from + n = m.len => HandleControlMsg(RdNew) /\ read' = Append(read, RdMsg))
       /\ (from + n # m.len => UNCHANGED <<inSize, read>>)
       /\ UNCHANGED <<msgs, outSize, out>>
  BY <1>14 DEF OwnReads
<1>16. PICK G2, g2 : G2 = [i \in Nat |-> G[i + k]] /\ g2 = G[1 + 1 + e + n]
  OBVIOUS
<1>17. MarkStep(m, g, id, n, g2)
  BY <1>8, <1>9, <1>16 DEF LayWith
<1>18. G2 \in [Nat -> Marks] /\ G2[1] = g2 /\ g \in Marks
  <2>1. \A i \in Nat : i + k \in Nat
    BY <1>13
  <2>2. 1 + k = 1 + 1 + e + n
    <3>1. e \in {0, 1}
      BY <1>9 DEF ExOf
    <3> QED BY <1>10, <1>12, <3>1
  <2>3. G2[1] = G[1 + k]
    BY <1>16
  <2> QED BY <1>4, <1>9, <1>16, <2>1, <2>2, <2>3
<1>19. Flow(msgs', outSize', wire', part, rs, ra, G2)
  <2>1. wire' \o part = SubSeq(q, k + 1, Len(q)) /\ Len(wire' \o part) + k = Len(q) /\ wire' \in Seq(Tokens)
    BY <1>3, <1>4, <1>5, <1>13, <1>15, DropJoin
  <2>2. Laid(msgs', wire' \o part, G2)
    BY <1>13, <1>15, <1>16, <2>1
  <2>3. PICK a : a = Len(wire' \o part) /\ a \in Nat
    <3>1. PICK w2 : w2 = SubSeq(q, k + 1, Len(q)) /\ w2 \in Seq(Tokens)
      BY <1>13
    <3>2. Len(w2) \in Nat
      BY <3>1
    <3> QED BY <2>1, <3>1, <3>2
  <2>4. G2[a + 1] = G[Len(q) + 1]
    <3>1. PICK l : l = Len(q) /\ a + k = l
      BY <2>1, <2>3
    <3>2. a + 1 \in Nat /\ (a + 1) + k = Len(q) + 1
      <4>1. \A x, y \in Nat : x + 1 \in Nat /\ (x + 1) + y = (x + y) + 1
        OBVIOUS
      <4>2. k \in Nat /\ a \in Nat
        BY <1>13, <2>3
      <4>3. (a + 1) + k = l + 1 /\ a + 1 \in Nat
        BY <3>1, <4>1, <4>2
      <4> QED BY <3>1, <4>3
    <3>3. G2[a + 1] = G[(a + 1) + k]
      BY <1>16, <3>2
    <3> QED BY <3>2, <3>3
  <2> QED BY <1>4, <1>15, <1>18, <2>2, <2>3, <2>4 DEF Flow
<1>20. from + n = m.len => IsMsg(msgs, RdMsg, id)
  <2> SUFFICES ASSUME from + n = m.len PROVE IsMsg(msgs, RdMsg, id)
    OBVIOUS
  <2>1. RdMsg.csid = m.csid /\ RdMsg.ts = RdNew.ts /\ RdMsg.len = RdNew.len /\ RdMsg.type = RdNew.type /\ RdMsg.data = RdNew.data
    BY <1>15 DEF RdMsg
  <2>2. RdNew.ts = m.ts /\ RdNew.len = m.len /\ RdNew.type = m.type /\ RdNew.data = Units(id, 0, m.len)
    BY <1>15 DEF OwnAgrees
  <2> QED BY <1>9, <1>12, <2>1, <2>2 DEF IsMsg
<1>21. RdMsg \in Reads
  BY <1>12, <1>15 DEF RdMsg, Reads, Streams, Csids
<1>22. ReaderAt(msgs', chunks', read', g2)
  <2>1. PICK new, x, ch2, r2 : new = RdNew /\ x = RdMsg /\ ch2 = chunks' /\ r2 = read'
    OBVIOUS
  <2>2. /\ new \in Streams /\ OwnAgrees(new, m, id, from + n) /\ ch2 = [chunks EXCEPT ![m.csid] = new] /\ x \in Reads
        /\ (from + n = m.len => IsMsg(msgs, x, id) /\ r2 = Append(read, x)) /\ (from + n # m.len => r2 = read)
    BY <1>15, <1>20, <1>21, <2>1
  <2>3. ReaderAt(msgs, chunks, read, g)
    BY <1>2, <1>9
  <2>4. ReadsOn(msgs, chunks, read, g, id, m, n, g2, from, new, ch2, r2, x)
    BY <1>5, <1>9, <1>12, <1>17, <1>18, <2>2, <2>3 DEF ReadsOn
  <2>5. ReaderAt(msgs, ch2, r2, g2)
    BY <2>4, ReaderStep
  <2> QED BY <1>15, <2>1, <2>5
<1>23. inSize' = g2.size
  <2>1. /\ g2.size = (IF m.type = "size" THEN m.val ELSE g.size)
        /\ (m.type = "size" => from + n = m.len /\ m.len = 1)
    BY <1>9, <1>17, SizeStep
  <2>2. RdNew.type = m.type /\ RdNew.data = Units(id, 0, from + n)
    BY <1>15 DEF OwnAgrees
  <2>3. CASE m.type = "size"
    <3>1. inSize' = msgs[RdNew.data[1].csid].val
      BY <1>15, <2>1, <2>2, <2>3 DEF HandleControlMsg
    <3>2. from + n = 1
      BY <2>1, <2>3
    <3>3. RdNew.data[1] = Unit(id, 0 + 1)
      BY <2>2, <3>2 DEF Units
    <3>4. RdNew.data[1].csid = id
      BY <3>3 DEF Unit
    <3> QED BY <1>9, <2>1, <2>3, <3>1, <3>4
  <2>4. CASE m.type # "size"
    <3>1. inSize' = inSize
      BY <1>15, <2>2, <2>4 DEF HandleControlMsg
    <3> QED BY <1>2, <1>9, <2>1, <2>4, <3>1
  <2> QED BY <2>3, <2>4
<1>24. OwnWith(G2, part, rs, ra)'
  BY <1>2, <1>15, <1>18, <1>19, <1>22, <1>23 DEF OwnWith
<1>25. ~broken'
  BY <1>15 DEF OwnSynced
<1> QED BY <1>24, <1>25 DEF OwnSynced

---------------------------------------------------------------------------
(* The invariant of Conn.Write's two goroutines.                           *)

OwnInv == OwnShape /\ torn \in BOOLEAN /\ (~torn => OwnSynced)

LEMMA OwnInit == ASSUME ChunkInit PROVE OwnInv
<1> USE ChunkAssumption
<1> DEFINE g0 == [size |-> Size0, at |-> 0, send |-> 0, ack |-> 0, cnt |-> 0]
           G == [i \in Nat |-> g0]
<1>1. /\ wire = <<>> /\ msgs = <<>> /\ read = <<>> /\ broken = FALSE /\ torn = FALSE
      /\ outSize = Size0 /\ inSize = Size0 /\ out = [g \in Goroutines |-> <<>>]
      /\ \A k \in Keys : chunks[k] = NoStream
  BY DEF ChunkInit, Keys
<1>2. Len(<<>>) = 0 /\ <<>> \in Seq(Tokens) /\ <<>> \o <<>> = <<>>
  OBVIOUS
<1>3. OwnShape
  <2>1. ChunkShape /\ AckedOnce
    BY PeerInit DEF PeerInv
  <2>2. <<>> \in SoundSeqs(Len(msgs))
    BY <1>2 DEF SoundSeqs
  <2> QED BY <1>1, <2>1, <2>2 DEF OwnShape
<1>4. g0 \in Marks /\ G \in [Nat -> Marks] /\ G[1] = g0
  BY DEF Marks
<1>5. g0.size = Size0 /\ g0.at = 0 /\ g0.send = 0 /\ g0.ack = 0 /\ g0.cnt = 0
  OBVIOUS
<1> HIDE DEF g0, G
<1>6. Cardinality(WithData(<<>>)) = 0
  <2>1. WithData(<<>>) = {}
    BY <1>2 DEF WithData
  <2> QED BY <2>1, FS_EmptySet
<1>7. WriterAt(<<>>, Size0, g0, <<>>, <<>>)
  <2>1. SendRest(<<>>, Size0, g0, <<>>, 0) /\ AckRest(<<>>, g0, <<>>, 0)
    BY <1>5 DEF SendRest, AckRest
  <2>2. g0.cnt + 0 + 0 = Cardinality(WithData(<<>>))
    BY <1>5, <1>6
  <2>3. g0.send <= Len(<<>>) /\ g0.ack <= Len(<<>>)
    BY <1>2, <1>5
  <2> QED BY <2>1, <2>2, <2>3 DEF WriterAt
<1>8. Laid(<<>>, <<>>, G)
  BY <1>2 DEF Laid
<1>9. NoHeads(<<>>)
  BY <1>2 DEF NoHeads
<1>10. Flow(<<>>, Size0, <<>>, <<>>, <<>>, <<>>, G)
  <2>1. G[Len(<<>> \o <<>>) + 1] = g0
    <3>1. Len(<<>> \o <<>>) + 1 = 1
      BY <1>2
    <3> QED BY <1>4, <3>1
  <2>2. Laid(<<>>, <<>> \o <<>>, G)
    BY <1>2, <1>8
  <2> QED BY <1>2, <1>4, <1>7, <1>9, <2>1, <2>2 DEF Flow
<1>11. Owes(out, <<>>, <<>>, <<>>)
  BY <1>1, <1>2 DEF Owes, Goroutines
<1>12. ReaderAt(<<>>, chunks, <<>>, g0)
  <2>1. chunks[2].remain = 0 /\ chunks[6].remain = 0
    BY <1>1 DEF Keys, NoStream
  <2>2. ReadsOf(<<>>, <<>>)
    BY <1>2 DEF ReadsOf
  <2>3. \A by, id : SeenBefore(<<>>, <<>>, Len(<<>>), by, id)
    BY <1>2 DEF SeenBefore
  <2> QED BY <1>2, <1>5, <2>1, <2>2, <2>3 DEF ReaderAt
<1>13. OwnWith(G, <<>>, <<>>, <<>>)
  BY <1>1, <1>4, <1>5, <1>10, <1>11, <1>12 DEF OwnWith
<1> QED BY <1>1, <1>3, <1>13 DEF OwnInv, OwnSynced

LEMMA OwnSteps ==
    ASSUME mode = "own", OwnInv, [ChunkNext]_chunkVars
    PROVE  OwnInv'
<1>0. OwnShape /\ torn \in BOOLEAN /\ (~torn => OwnSynced) /\ ChunkShape /\ AckedOnce
  BY DEF OwnInv, OwnShape
<1>1. CASE UNCHANGED chunkVars
  <2>1. UNCHANGED <<mode, wire, msgs, sending, outSize, out, chunks, inSize, window, ackReceived, acked, read, broken,
                    mixed, longDelta, torn>>
    BY <1>1 DEF chunkVars
  <2>2. OwnShape'
    BY <1>0, <2>1 DEF OwnShape, ChunkShape, ChunkTypes, AckedOnce
  <2>3. OwnSynced' <=> OwnSynced
    BY <2>1 DEF OwnSynced, OwnWith
  <2> QED BY <1>0, <2>1, <2>2, <2>3 DEF OwnInv
<1>2. ASSUME NEW c \in PeerCsids, NEW fmt \in 0 .. 3, NEW t \in Times, NEW n \in Lengths, NEW type \in Types,
             PeerStart(c, fmt, t, n, type)
      PROVE  FALSE
  <2>1. Starts(c, fmt, t, n, type)
    BY <1>2, StartIs
  <2> QED BY <2>1 DEF Starts
<1>3. ASSUME NEW c \in PeerCsids, PeerContinue(c) PROVE FALSE
  <2>1. Continues(c)
    BY <1>3, ContinueIs
  <2> QED BY <2>1 DEF Continues
<1>4. ASSUME NEW g \in Goroutines, Emit(g) PROVE OwnInv'
  <2>1. OwnShape'
    BY <1>0, <1>4, EmitShape
  <2>2. torn' = (torn \/ \E h \in Goroutines \ {g} : out[h] # <<>> /\ (Head(out[h]).t # "h" \/ Head(out[h]).type = "size"))
    BY <1>4 DEF Emit
  <2>3. torn' \in BOOLEAN /\ (~torn' => ~torn)
    BY <1>0, <2>2, Zenon
  <2>4. ~torn' => OwnSynced'
    BY <1>0, <1>4, <2>3, EmitSync
  <2> QED BY <2>1, <2>3, <2>4 DEF OwnInv
<1>5. ASSUME NEW g \in Goroutines, NEW m \in OwnSends, WriteMsg(g, m) PROVE OwnInv'
  <2>1. PICK mm : Written(g, mm)
    BY <1>0, <1>5, WriteIs
  <2>2. OwnShape'
    BY <1>0, <2>1, WriteShape
  <2>3. torn' = torn
    BY <2>1 DEF Written
  <2>4. OwnSynced => OwnSynced'
    BY <1>0, <2>1, WriteSync
  <2> QED BY <1>0, <2>2, <2>3, <2>4 DEF OwnInv
<1>6. ASSUME ReadChunk PROVE OwnInv'
  <2>1. UNCHANGED <<msgs, out, torn>>
    BY <1>6, ReadChunkIs
  <2>2. ChunkShape' /\ AckedOnce'
    BY <1>0, <1>6, ReadShape
  <2>3. OwnShape'
    BY <1>0, <2>1, <2>2 DEF OwnShape
  <2>4. OwnSynced => OwnSynced'
    BY <1>0, <1>6, ReadSync
  <2> QED BY <1>0, <2>1, <2>3, <2>4 DEF OwnInv
<1> QED BY <1>1, <1>2, <1>3, <1>4, <1>5, <1>6 DEF ChunkNext

\* What is still to be written is nothing.
LEMMA NothingOwed ==
    ASSUME NEW part \in Seq(Tokens), NEW rs \in Seq(Tokens), NEW ra \in Seq(Tokens), NEW o, Owes(o, part, rs, ra),
           o["send"] = <<>>, o["ack"] = <<>>
    PROVE  part = <<>> /\ rs = <<>> /\ ra = <<>>
<1>1. part = <<>>
  <2>1. part # <<>> => part \o rs # <<>> /\ part \o ra # <<>>
    <3> SUFFICES ASSUME part # <<>> PROVE part \o rs # <<>> /\ part \o ra # <<>>
      OBVIOUS
    <3>1. TakesOne(part, part, rs) /\ TakesOne(part, part, ra)
      BY TakeOne
    <3> QED BY <3>1 DEF TakesOne
  <2> QED BY <2>1 DEF Owes
<1>2. <<>> \o rs = rs /\ <<>> \o ra = ra
  OBVIOUS
<1> QED BY <1>1, <1>2 DEF Owes

LEMMA OwnArrives ==
    ASSUME mode = "own", OwnInv
    PROVE  ChunksArrive
<1>1. ChunkShape /\ AckedOnce /\ (~torn => OwnSynced)
  BY DEF OwnInv, OwnShape
<1>2. msgs \in Seq(Sent) /\ read \in Seq(Reads) /\ wire \in Seq(Tokens) /\ outSize \in Nat \ {0}
      /\ Len(msgs) \in Nat /\ Len(read) \in Nat /\ DOMAIN msgs = 1 .. Len(msgs) /\ DOMAIN read = 1 .. Len(read)
  BY <1>1 DEF ChunkShape, ChunkTypes
<1>3. ReadAsSent
  <2> SUFFICES ASSUME ~torn
               PROVE  /\ ~broken
                      /\ \A i \in DOMAIN read :
                           \E id \in DOMAIN msgs :
                              /\ \A f \in {"csid", "ts", "len", "type"} : read[i][f] = msgs[id][f]
                              /\ read[i].data = Units(id, 0, msgs[id].len)
                              /\ \A j \in 1 .. i - 1 : \A d \in DOMAIN read[j].data :
                                   LET other == read[j].data[d].csid IN
                                   read[j].csid = read[i].csid /\ msgs[other].by = msgs[id].by => other < id
    BY DEF ReadAsSent
  <2>1. ~broken /\ ReadsOf(msgs, read)
    BY <1>1 DEF OwnSynced, OwnWith, ReaderAt
  <2>2. ASSUME NEW i \in 1 .. Len(read)
        PROVE  \E id \in 1 .. Len(msgs) :
                  /\ \A f \in {"csid", "ts", "len", "type"} : read[i][f] = msgs[id][f]
                  /\ read[i].data = Units(id, 0, msgs[id].len)
                  /\ \A j \in 1 .. i - 1 : \A d \in DOMAIN read[j].data :
                       msgs[read[j].data[d].csid].by = msgs[id].by => read[j].data[d].csid < id
    <3>1. PICK id : IsMsg(msgs, read[i], id) /\ SeenBefore(msgs, read, i - 1, msgs[id].by, id)
      BY <2>1 DEF ReadsOf
    <3>2. id \in 1 .. Len(msgs) /\ read[i].data = Units(id, 0, msgs[id].len)
          /\ read[i].csid = msgs[id].csid /\ read[i].ts = msgs[id].ts /\ read[i].len = msgs[id].len
          /\ read[i].type = msgs[id].type
      BY <3>1 DEF IsMsg
    <3>3. \A j \in 1 .. i - 1 : j \in 1 .. Len(read)
      BY <1>2
    <3>4. \A j \in 1 .. i - 1 : DOMAIN read[j].data = 1 .. Len(read[j].data)
      <4> SUFFICES ASSUME NEW j \in 1 .. i - 1 PROVE DOMAIN read[j].data = 1 .. Len(read[j].data)
        OBVIOUS
      <4>1. read[j] \in Reads
        BY <1>2, <3>3, ElementOfSeq
      <4>2. read[j].data \in Seq(Tokens)
        BY <4>1 DEF Reads
      <4> QED BY <4>2
    <3>5. \A j \in 1 .. i - 1 : \A d \in DOMAIN read[j].data :
            msgs[read[j].data[d].csid].by = msgs[id].by => read[j].data[d].csid < id
      BY <3>1, <3>4 DEF SeenBefore
    <3>6. \A f \in {"csid", "ts", "len", "type"} : read[i][f] = msgs[id][f]
      BY <3>2
    <3> QED BY <3>2, <3>5, <3>6, Zenon
  <2> QED BY <1>2, <2>1, <2>2, SMTT(20)
<1>4. AllRead
  <2> SUFFICES ASSUME ~torn, wire = <<>>, \A g \in Goroutines : out[g] = <<>>
               PROVE  Len(read) = Cardinality({id \in DOMAIN msgs : mode = "peer" \/ msgs[id].len > 0})
    BY DEF AllRead
  <2>1. PICK G, part, rs, ra : OwnWith(G, part, rs, ra)
    BY <1>1 DEF OwnSynced
  <2>2. /\ G \in [Nat -> Marks] /\ part \in Seq(Tokens) /\ rs \in Seq(Tokens) /\ ra \in Seq(Tokens)
        /\ WriterAt(msgs, outSize, G[Len(wire \o part) + 1], rs, ra) /\ Owes(out, part, rs, ra)
        /\ G[1].cnt = Len(read)
    BY <2>1 DEF OwnWith, Flow, ReaderAt
  <2>3. out["send"] = <<>> /\ out["ack"] = <<>>
    BY DEF Goroutines
  <2>4. part = <<>> /\ rs = <<>> /\ ra = <<>>
    BY <2>2, <2>3, NothingOwed
  <2>5. Len(wire \o part) + 1 = 1
    <3>1. <<>> \o <<>> = <<>> /\ Len(<<>>) = 0
      OBVIOUS
    <3> QED BY <2>4, <3>1
  <2> DEFINE g == G[1]
  <2>6. g \in Marks /\ g.cnt \in Nat /\ g.cnt = Len(read) /\ WriterAt(msgs, outSize, g, <<>>, <<>>)
    <3>1. g \in Marks
      BY <2>2
    <3>2. g.cnt \in Nat
      BY <3>1 DEF Marks
    <3> QED BY <2>2, <2>4, <2>5, <3>1, <3>2
  <2> HIDE DEF g
  <2>7. PICK p \in {0, 1}, r \in {0, 1} : SendRest(msgs, outSize, g, <<>>, p) /\ AckRest(msgs, g, <<>>, r)
                                          /\ g.cnt + p + r = Cardinality(WithData(msgs))
    BY <2>6 DEF WriterAt
  <2>8. p = 0
    <3>1. \A id, i : ~SendAt(msgs, outSize, g, <<>>, id, i)
      BY <1>2, <2>6, SendSome
    <3> QED BY <2>7, <3>1 DEF SendRest
  <2>9. r = 0
    <3>1. \A id : ~AckAt(msgs, g, <<>>, id)
      BY <1>2, <2>6, AckSome
    <3> QED BY <2>7, <3>1 DEF AckRest
  <2>10. g.cnt = Cardinality(WithData(msgs))
    <3>1. \A k \in Nat : k + 0 + 0 = k
      OBVIOUS
    <3> QED BY <2>6, <2>7, <2>8, <2>9, <3>1
  <2>11. {id \in DOMAIN msgs : mode = "peer" \/ msgs[id].len > 0} = WithData(msgs)
    BY <1>2 DEF WithData
  <2> QED BY <2>6, <2>10, <2>11
<1> QED BY <1>1, <1>3, <1>4 DEF ChunksArrive

\* What a peer or another connection of this program sends Conn.Read returns:
\* for a peer with any number of chunk streams, any interleaving of their
\* chunks, any lengths, timestamps and changes of the chunk size, and for the
\* two goroutines of Conn.Write that share a buffered writer without a lock, in
\* any order of their writes that tears no chunk: every message once and
\* unaltered, in order, and acknowledged once.
THEOREM ChunksArriveHolds == ChunkSpec => []ChunksArrive
<1> DEFINE Inv == /\ mode \in {"peer", "own"}
                  /\ mode = "peer" => PeerInv
                  /\ mode = "own" => OwnInv
<1>1. ChunkInit => Inv
  <2>1. ChunkInit => mode \in {"peer", "own"}
    BY DEF ChunkInit
  <2> QED BY <2>1, PeerInit, OwnInit
<1>2. Inv /\ [ChunkNext]_chunkVars => Inv'
  BY PeerSteps, OwnSteps, ModeStays
<1>3. Inv => ChunksArrive
  BY PeerArrives, OwnArrives
<1> QED BY <1>1, <1>2, <1>3, PTL DEF ChunkSpec
=============================================================================
