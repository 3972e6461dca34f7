------------------------------- MODULE MCWire -------------------------------
(***************************************************************************)
(* The protocols and formats under the streams, each on its own: the RTMP  *)
(* chunk stream and the start of a session, AMF, the codecs and MPEG-TS.   *)
(***************************************************************************)
EXTENDS ChunkStream, Session, Amf, Codecs, TsMux

VARIABLE part

MCOwnSends ==
    {[ts |-> t, len |-> n, type |-> "media"] : t \in {1}, n \in {0, 1}}
    \cup {[ts |-> 4, len |-> 3, type |-> "media"]}
    \cup {[ts |-> 0, len |-> 1, type |-> type] : type \in {"size", "window"}}

MCPeerCommands ==
    {C2, [C2 EXCEPT !.k = "media"], C0C1(3, "at8"), C0C1(3, "at772"), C0C1(3, "bad"), C0C1(2, "plain")}
    \cup {Cmd("connect", 1, app, "none") : app \in {"live", "other", "none"}}
    \cup {Cmd("connect", 2, "live", "none"), Cmd("createStream", 2, "none", "none"),
          Cmd("publish", 3, "none", "key"), Cmd("publish", 3, "none", "room"),
          Cmd("play", 0, "none", "room"), Cmd("FCPublish", 4, "none", "room")}

MCPeerAnswers ==
    {Control, Answer("onBWDone", 0, "none", NoSid), Answer("_error", 2, "none", NoSid),
     Answer("_result", 1, "connectSuccess", NoSid), Answer("_result", 1, "rejected", NoSid),
     Answer("_result", 1, "none", 7), Answer("_result", 2, "none", 5),
     Answer("_result", 2, "none", NoSid)}
    \cup {Answer("onStatus", 0, code, NoSid) : code \in {"publishStart", "badName"}}

---------------------------------------------------------------------------
(* AMF: lengths of strings around StringMax, integers around the lengths   *)
(* of U29 and the sign, nested and empty arrays and objects.               *)

S(s) == V("str", 0, s, <<>>)
N(n) == V("int", n, <<>>, <<>>)
Scalars ==
    {V("null", 0, <<>>, <<>>), V("bool", 0, <<>>, <<>>), V("bool", 1, <<>>, <<>>), V("float", 7, <<>>, <<>>)}
    \cup {S(s) : s \in {<<>>, <<1>>, SetDataFrame, <<1, 2, 3>>, <<1, 2, 3, 4>>}}
    \cup {N(n) : n \in {-1, 0} \cup UNION {{2^i - 1, 2^i} : i \in {7, 14, 21, 28, 29}} \cup {2^22 - 1}}
Small == {V("null", 0, <<>>, <<>>), S(<<>>), S(<<1>>), N(300)}
Empty == {V(t, 0, <<>>, <<>>) : t \in {"arr", "obj"}}
Nest ==
    Empty
    \cup {V("arr", 0, <<>>, <<<<<<>>, a>>, <<<<>>, b>>>>) : a, b \in Small}
    \cup {V("obj", 0, <<>>, <<<<k, a>>>>) : k \in {<<>>, <<1>>, <<2>>, <<3, 1, 1, 1>>}, a \in Small \cup Empty}
    \cup {V("obj", 0, <<>>, <<<<<<2>>, a>>, <<<<1>>, b>>>>) : a, b \in Small}
Values ==
    Scalars \cup Nest \cup {V("arr", 0, <<>>, <<<<<<>>, a>>>>) : a \in Nest}
    \cup {V("obj", 0, <<>>, <<<<<<1>>, a>>>>) : a \in Nest}
MCBatches ==
    {<<a>> : a \in Values} \cup {<<S(s), a>> : s \in {<<1>>, SetDataFrame}, a \in Values}
    \cup {<<a, S(<<>>), b>> : a, b \in Scalars} \cup {<<S(SetDataFrame), S(<<1>>), a>> : a \in Nest}

---------------------------------------------------------------------------
(* Frames: two headers, any three units; the lengths around one and two    *)
(* TS packets.                                                             *)

U(t, id) == [t |-> t, id |-> id, ok |-> TRUE]
MCVideo ==
    {[t |-> t, units |-> <<>>] : t \in {"short", "end"}}
    \cup {[t |-> "seq", units |-> u] :
              u \in {<<U("sps", 1), U("pps", 1)>>, <<U("sps", 2), U("pps", 2)>>, <<U("sps", 1)>>}}
    \cup {[t |-> "nalus", units |-> u] :
              u \in UNION {[1 .. n -> {U("idr", 1), U("slice", 1), U("sps", 3), U("pps", 3), U("aud", 1)}] : n \in 0 .. 3}
                    \cup {<<U("slice", 1), [U("idr", 1) EXCEPT !.ok = FALSE], U("slice", 2)>>}}
    \cup {[t |-> "annexb", units |-> u] : u \in {<<U("idr", 1)>>, <<U("sps", 3), U("pps", 3), U("idr", 1)>>}}
MCConfigs ==
    {[obj |-> 2, rate |-> 4, ch |-> 2], [obj |-> 2, rate |-> 11, ch |-> 1],
     [obj |-> 5, rate |-> 13, ch |-> 2], [obj |-> 2, rate |-> 3, ch |-> 6]}

FrameLens == 0 .. 3 \cup 150 .. 185 \cup 335 .. 372 \cup {3000}
MCFrames ==
    [video : {TRUE}, key : BOOLEAN, dts : BOOLEAN, len : FrameLens]
    \cup [video : {FALSE}, key : {FALSE}, dts : {FALSE}, len : FrameLens]

---------------------------------------------------------------------------

Parts == {"chunks", "session", "amf", "video", "audio", "ts"}
vars  == <<chunkVars, sessionVars, amfVars, codecVars, tsVars, part>>

\* The parts that a behaviour is not about stay at one initial state.
Init ==
    /\ part \in Parts
    /\ ChunkInit /\ SessionInit /\ AmfInit /\ CodecInit /\ TsInit
    /\ part # "chunks" => mode = "peer"
    /\ part # "session" => smode = "server" /\ ~noauth /\ cl.method = "play"
    /\ part # "amf" => ver = 0 /\ batch = <<S(<<1>>)>>

\* Two chunk streams that share an entry are of no interest once they do.
ChunkPart   == part = "chunks" /\ ChunkNext /\ (mixed' => Len(msgs') <= 2)
               /\ UNCHANGED <<sessionVars, amfVars, codecVars, tsVars, part>>
SessionPart == part = "session" /\ SessionNext /\ UNCHANGED <<chunkVars, amfVars, codecVars, tsVars, part>>
AmfPart     == part = "amf" /\ AmfNext /\ UNCHANGED <<chunkVars, sessionVars, codecVars, tsVars, part>>
\* The audio and the video of a stream have parsers of their own.
CodecPart   == /\ (part = "video" /\ VideoNext) \/ (part = "audio" /\ AudioNext)
               /\ UNCHANGED <<chunkVars, sessionVars, amfVars, tsVars, part>>
\* A second frame follows a short one; the tables are counted on their own.
TsPart      == /\ part = "ts" /\ TsNext
               /\ tables' # tables => calls = 0
               /\ calls' > calls => patCc = 0
               /\ calls' = 2 => frame.len \in {1, 171}
               /\ UNCHANGED <<chunkVars, sessionVars, amfVars, codecVars, part>>

Next == ChunkPart \/ SessionPart \/ AmfPart \/ CodecPart \/ TsPart

\* The goroutines of both ends of a session run, while a foreign peer does what
\* it likes; the other parts promise nothing of the kind.
Spec == /\ Init /\ [][Next]_vars
        /\ WF_sessionVars(part = "session" /\ ClientSteps)
        /\ WF_sessionVars(part = "session" /\ ServerSteps)
=============================================================================
