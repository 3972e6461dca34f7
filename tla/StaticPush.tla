----------------------------- MODULE StaticPush -----------------------------
(***************************************************************************)
(* Static push: a published stream is copied to other servers.  The        *)
(* TransStart loop of a stream (src/protocol/rtmp/stream.go) starts a      *)
(* StaticPush for every configured URL, gives it every packet and stops it *)
(* at the end; the object (src/protocol/rtmp/rtmprelay/staticrelay.go)     *)
(* sends from a goroutine of its own, HandleAvPacket.  Objects are shared  *)
(* by URL through a map.  The map is locked, startflag and connectClient   *)
(* are not: each step has at most one access others can interfere with.    *)
(***************************************************************************)
EXTENDS Integers, Sequences, FiniteSets

CONSTANTS
    Loops,        \* TransStart loops, all of streams of the same name
    App,          \* the application of each loop
    StaticPushOf, \* per application: its configured push URLs, a sequence
    ChanCap,      \* capacity of packet_chan
    MaxPackets    \* bound: packets each loop reads

VARIABLES
    listOf,    \* the application whose list G_PushUrlList is
    objects,   \* G_StaticPushMap: from URLs to objects
    nobj,      \* number of objects made
    startflag, chan, client,  \* the fields of each object
    open,      \* connections to remote servers that are open
    pc, todo, obj, npkt,      \* per loop: its place, URLs left, object, packets
    hpc, hobj, hpkt,          \* per connection: HandleAvPacket
    remote,    \* history: packets each connection has carried
    early,     \* history: a HandleAvPacket came before startflag was set
    overlap,   \* history: two loops were starting or stopping at once
    shared,    \* history: two loops were alive at once
    pushCrashed  \* a nil dereference has killed the process

Urls    == UNION {{StaticPushOf[a][i] : i \in DOMAIN StaticPushOf[a]} : a \in DOMAIN StaticPushOf}
Objects == 1 .. Cardinality(Loops) * Cardinality(Urls)
\* A connection is made by one Start, for one loop and one URL.
Conns   == Loops \X Urls
Nil     == 0
NoPkt   == <<>>
NoConn  == <<>>
Unread  == "nil"   \* no application: G_PushUrlList is nil

\* An application that pushes nowhere has an empty list.  No list names a URL
\* twice: nothing rules it out, but the configuration means one push to each
\* server, and SendStaticPush would give such a URL every packet twice.
ASSUME PushAssumption ==
    /\ IsFiniteSet(Loops) /\ IsFiniteSet(Urls) /\ ChanCap \in Nat /\ MaxPackets \in Nat
    /\ Unread \notin DOMAIN StaticPushOf /\ App \in [Loops -> DOMAIN StaticPushOf]
    /\ \A a \in DOMAIN StaticPushOf :
        /\ StaticPushOf[a] \in Seq(Urls)
        /\ \A i, j \in DOMAIN StaticPushOf[a] : StaticPushOf[a][i] = StaticPushOf[a][j] => i = j

mapPVars  == <<listOf, objects, nobj>>
objVars   == <<startflag, chan, client, open>>
loopVars  == <<pc, todo, obj, npkt>>
handVars  == <<hpc, hobj, hpkt, remote>>
histPVars == <<early, overlap, shared, pushCrashed>>
pushVars  == <<mapPVars, objVars, loopVars, handVars, histPVars>>

PushInit ==
    /\ listOf = Unread /\ objects = [u \in Urls |-> Nil] /\ nobj = 0
    /\ startflag = [o \in Objects |-> FALSE] /\ chan = [o \in Objects |-> <<>>]
    /\ client = [o \in Objects |-> NoConn] /\ open = {}
    /\ pc = [l \in Loops |-> "idle"] /\ todo = [l \in Loops |-> <<>>]
    /\ obj = [l \in Loops |-> Nil] /\ npkt = [l \in Loops |-> 0]
    /\ hpc = [c \in Conns |-> "none"] /\ hobj = [c \in Conns |-> Nil]
    /\ hpkt = [c \in Conns |-> NoPkt] /\ remote = [c \in Conns |-> <<>>]
    /\ early = FALSE /\ overlap = FALSE /\ shared = FALSE /\ pushCrashed = FALSE

Set(f, x, v) == [f EXCEPT ![x] = v]
At(l, place) == ~pushCrashed /\ pc[l] = place

\* GetStaticPushList: the list of the application that asks first is kept.
GetStaticPushList(a) == IF listOf = Unread THEN a ELSE listOf

\* A loop over the list of URLs begins in place `first`, or has nothing to do.
BeginUrls(l, first, none) ==
    LET list == StaticPushOf[GetStaticPushList(App[l])] IN
    /\ listOf' = GetStaticPushList(App[l])
    /\ todo' = Set(todo, l, list)
    /\ pc' = Set(pc, l, IF list = <<>> THEN none ELSE first)

\* The next URL, or what follows the loop over the URLs.
NextUrl(l, first, after) ==
    /\ obj' = Set(obj, l, Nil)
    /\ todo' = Set(todo, l, Tail(todo[l]))
    /\ pc' = Set(pc, l, IF Len(todo[l]) > 1 THEN first ELSE after)

Starting == {"get", "create", "begin", "dial", "flag"}
Stopping == {"stopget", "ctrl", "unset", "release"}
Others(l, S) == \E k \in Loops \ {l} : pc[k] \in S

---------------------------------------------------------------------------
(* StartStaticPush                                                         *)

StartStaticPush(l) ==
    /\ At(l, "idle")
    /\ BeginUrls(l, "get", "read")
    /\ shared' = (shared \/ \E k \in Loops \ {l} : pc[k] \notin {"idle", "ended"})
    /\ overlap' = (overlap \/ Others(l, Starting \cup Stopping))
    /\ UNCHANGED <<objects, nobj, objVars, obj, npkt, handVars, early, pushCrashed>>

\* GetAndCreateStaticPushObject looks under the read lock ...
GetObject(l) ==
    /\ At(l, "get")
    /\ LET o == objects[Head(todo[l])] IN
       /\ obj' = Set(obj, l, o)
       /\ pc' = Set(pc, l, IF o = Nil THEN "create" ELSE "begin")
    /\ UNCHANGED <<mapPVars, objVars, todo, npkt, handVars, histPVars>>

\* ... and stores a new object under the write lock, over whatever is there.
CreateObject(l) ==
    /\ At(l, "create")
    /\ nobj' = nobj + 1
    /\ objects' = Set(objects, Head(todo[l]), nobj + 1)
    /\ obj' = Set(obj, l, nobj + 1)
    /\ pc' = Set(pc, l, "begin")
    /\ UNCHANGED <<listOf, objVars, todo, npkt, handVars, histPVars>>

\* Mutant: an object that has been started is started again.
StartBeginAgain(l) ==
    /\ At(l, "begin")
    /\ client' = Set(client, obj[l], <<l, Head(todo[l])>>)
    /\ pc' = Set(pc, l, "dial")
    /\ UNCHANGED <<mapPVars, startflag, chan, open, todo, obj, npkt, handVars, histPVars>>

\* Start: an object that has been started is left alone; else it gets a new
\* client, which is not connected yet.
StartBegin(l) ==
    /\ At(l, "begin")
    /\ \/ startflag[obj[l]] /\ NextUrl(l, "get", "read") /\ UNCHANGED client
       \/ /\ ~startflag[obj[l]]
          /\ client' = Set(client, obj[l], <<l, Head(todo[l])>>)
          /\ pc' = Set(pc, l, "dial") /\ UNCHANGED <<todo, obj>>
    /\ UNCHANGED <<mapPVars, startflag, chan, open, npkt, handVars, histPVars>>

\* connectClient.Start fails, or the goroutine is started.
StartDial(l) ==
    /\ At(l, "dial")
    /\ LET c == <<l, Head(todo[l])>> IN
       \/ NextUrl(l, "get", "read") /\ UNCHANGED <<open, hpc, hobj>>
       \/ /\ open' = open \cup {c}
          /\ hpc' = Set(hpc, c, "check") /\ hobj' = Set(hobj, c, obj[l])
          /\ pc' = Set(pc, l, "flag") /\ UNCHANGED <<todo, obj>>
    /\ UNCHANGED <<mapPVars, startflag, chan, client, npkt, hpkt, remote, histPVars>>

StartFlag(l) ==
    /\ At(l, "flag")
    /\ startflag' = Set(startflag, obj[l], TRUE)
    /\ NextUrl(l, "get", "read")
    /\ UNCHANGED <<mapPVars, chan, client, open, npkt, handVars, histPVars>>

---------------------------------------------------------------------------
(* A packet of the loop: IsSendStaticPush and SendStaticPush               *)

ReadPkt(l) ==
    /\ At(l, "read") /\ npkt[l] < MaxPackets
    /\ npkt' = Set(npkt, l, npkt[l] + 1)
    /\ BeginUrls(l, "send", "read")
    /\ UNCHANGED <<objects, nobj, objVars, obj, handVars, histPVars>>

\* WriteAvPacket on the object of the URL, if there is one that is started.
SendStaticPush(l) ==
    /\ At(l, "send")
    /\ LET o == objects[Head(todo[l])] IN
       \/ o # Nil /\ startflag[o] /\ obj' = Set(obj, l, o) /\ pc' = Set(pc, l, "put") /\ UNCHANGED todo
       \/ ~(o # Nil /\ startflag[o]) /\ NextUrl(l, "send", "read")
    /\ UNCHANGED <<mapPVars, objVars, npkt, handVars, histPVars>>

\* packet_chan <- packet waits while the channel is full.
PutPkt(l) ==
    /\ At(l, "put") /\ Len(chan[obj[l]]) < ChanCap
    /\ chan' = Set(chan, obj[l], Append(chan[obj[l]], <<l, npkt[l]>>))
    /\ NextUrl(l, "send", "read")
    /\ UNCHANGED <<mapPVars, startflag, client, open, npkt, handVars, histPVars>>

---------------------------------------------------------------------------
(* StopStaticPush, when the loop ends                                      *)

StopStaticPush(l) ==
    /\ At(l, "read")
    /\ BeginUrls(l, "stopget", "ended")
    /\ overlap' = (overlap \/ Others(l, Starting \cup Stopping))
    /\ UNCHANGED <<objects, nobj, objVars, obj, npkt, handVars, early, shared, pushCrashed>>

\* GetStaticPushObject, and the test of Stop.
StopGet(l) ==
    /\ At(l, "stopget")
    /\ LET o == objects[Head(todo[l])] IN
       \/ o = Nil /\ NextUrl(l, "stopget", "ended")
       \/ /\ o # Nil /\ obj' = Set(obj, l, o)
          /\ pc' = Set(pc, l, IF startflag[o] THEN "ctrl" ELSE "release") /\ UNCHANGED todo
    /\ UNCHANGED <<mapPVars, objVars, npkt, handVars, histPVars>>

\* connectClient.Close: the client that the object has now.
CloseClient(c) == open' = open \ {client[hobj[c]]}

\* A client without a connection is dereferenced.  One that is being started
\* by another loop may or may not have its connection already.
UseClient(k) == pushCrashed' \in {FALSE, hpc[k] = "none"}

\* sndctrl_chan is not buffered: the send waits for a HandleAvPacket that
\* receives.  It closes the connection and returns.
StopCtrl(l, c) ==
    /\ At(l, "ctrl")
    /\ hpc[c] = "loop" /\ hobj[c] = obj[l]
    /\ UseClient(client[obj[l]]) /\ CloseClient(c)
    /\ hpc' = Set(hpc, c, "done")
    /\ pc' = Set(pc, l, "unset")
    /\ UNCHANGED <<mapPVars, startflag, chan, client, todo, obj, npkt, hobj, hpkt, remote,
                   early, overlap, shared>>

StopUnset(l) ==
    /\ At(l, "unset")
    /\ startflag' = Set(startflag, obj[l], FALSE)
    /\ pc' = Set(pc, l, "release")
    /\ UNCHANGED <<mapPVars, chan, client, open, todo, obj, npkt, handVars, histPVars>>

\* Mutant: the object stays in the map.
ReleaseNot(l) ==
    /\ At(l, "release")
    /\ NextUrl(l, "stopget", "ended")
    /\ UNCHANGED <<mapPVars, objVars, npkt, handVars, histPVars>>

\* ReleaseStaticPushObject deletes whatever object the URL has.
Release(l) ==
    /\ At(l, "release")
    /\ objects' = Set(objects, Head(todo[l]), Nil)
    /\ NextUrl(l, "stopget", "ended")
    /\ UNCHANGED <<listOf, nobj, objVars, npkt, handVars, histPVars>>

---------------------------------------------------------------------------
(* HandleAvPacket                                                          *)

\* if !self.IsStart(): the goroutine may run before Start has set the flag.
HandleCheck(c) ==
    /\ ~pushCrashed /\ hpc[c] = "check"
    /\ hpc' = Set(hpc, c, IF startflag[hobj[c]] THEN "loop" ELSE "done")
    /\ early' = (early \/ ~startflag[hobj[c]])
    /\ UNCHANGED <<mapPVars, objVars, loopVars, hobj, hpkt, remote, overlap, shared, pushCrashed>>

\* packet := <-packet_chan, and the test of sendPacket.
HandleRecv(c) ==
    /\ ~pushCrashed /\ hpc[c] = "loop" /\ chan[hobj[c]] # <<>>
    /\ chan' = Set(chan, hobj[c], Tail(chan[hobj[c]]))
    /\ \/ startflag[hobj[c]] /\ hpc' = Set(hpc, c, "send") /\ hpkt' = Set(hpkt, c, Head(chan[hobj[c]]))
       \/ ~startflag[hobj[c]] /\ UNCHANGED <<hpc, hpkt>>
    /\ UNCHANGED <<mapPVars, startflag, client, open, loopVars, hobj, remote, histPVars>>

\* Mutant: the goroutine ends when the remote server has gone.
HandleSendReturn(c) ==
    /\ ~pushCrashed /\ hpc[c] = "send"
    /\ hpc' = Set(hpc, c, IF client[hobj[c]] \in open THEN "loop" ELSE "done")
    /\ hpkt' = Set(hpkt, c, NoPkt)
    /\ UNCHANGED <<mapPVars, objVars, loopVars, hobj, remote, histPVars>>

\* connectClient.Write through the client the object has now; its error is
\* ignored.
HandleSend(c) ==
    /\ ~pushCrashed /\ hpc[c] = "send"
    /\ LET k == client[hobj[c]] IN
       /\ UseClient(k)
       /\ remote' = IF k \in open THEN Set(remote, k, Append(remote[k], hpkt[c])) ELSE remote
    /\ hpc' = Set(hpc, c, "loop") /\ hpkt' = Set(hpkt, c, NoPkt)
    /\ UNCHANGED <<mapPVars, objVars, loopVars, hobj, early, overlap, shared>>

\* The remote server closes the connection.
RemoteGone(c) ==
    /\ c \in open /\ open' = open \ {c}
    /\ UNCHANGED <<mapPVars, startflag, chan, client, loopVars, handVars, histPVars>>

Loop(l) ==
    \/ GetObject(l) \/ CreateObject(l) \/ StartBegin(l) \/ StartDial(l) \/ StartFlag(l)
    \/ SendStaticPush(l) \/ PutPkt(l)
    \/ StopGet(l) \/ (\E c \in Conns : StopCtrl(l, c)) \/ StopUnset(l) \/ Release(l)
Handle(c) == HandleCheck(c) \/ HandleRecv(c) \/ HandleSend(c)

PushNext ==
    \/ \E l \in Loops : StartStaticPush(l) \/ ReadPkt(l) \/ StopStaticPush(l) \/ Loop(l)
    \/ \E c \in Conns : Handle(c) \/ RemoteGone(c)

PushSpec == PushInit /\ [][PushNext]_pushVars

\* Goroutines that can step do, a connection is made or refused, and a remote
\* server reads or goes away.  No loop has to start, to read or to end.
PushFairness ==
    /\ \A l \in Loops : WF_pushVars(Loop(l))
    /\ \A c \in Conns : WF_pushVars(Handle(c))

---------------------------------------------------------------------------
(* Properties                                                              *)

\* The type invariant.  Of an object there is at most one per Start, and the
\* channel never holds more than its capacity.
PushTypeOK ==
    /\ listOf \in DOMAIN StaticPushOf \cup {Unread}
    /\ nobj \in Objects \cup {0} /\ objects \in [Urls -> 0 .. nobj]
    /\ startflag \in [Objects -> BOOLEAN] /\ client \in [Objects -> Conns \cup {NoConn}]
    /\ \A o \in Objects : chan[o] \in Seq(Loops \X (1 .. MaxPackets)) /\ Len(chan[o]) <= ChanCap
    /\ pc \in [Loops -> Starting \cup Stopping \cup {"idle", "read", "send", "put", "ended"}]
    /\ hpc \in [Conns -> {"none", "check", "loop", "send", "done"}] /\ open \subseteq Conns

\* The process dies of a client that is not connected only if one loop starts
\* or stops a push while another one does: startflag is tested (line 104) long
\* before it is set.
CrashNeedsOverlap == pushCrashed => overlap

\* As long as starts and stops have not overlapped, a remote server gets the
\* packets of a stream in order and without a gap on each connection.
PushedInOrder ==
    ~overlap => \A c \in Conns : \A i, j \in DOMAIN remote[c] :
        LET p == remote[c][i]
            q == remote[c][j]
        IN i < j /\ p[1] = q[1] =>
            p[2] < q[2] /\ \A n \in p[2] .. q[2] : \E k \in i .. j : remote[c][k] = <<p[1], n>>

\* As long as starts and stops have not overlapped, nothing is left when all
\* loops are over: no object in the map and no connection.
NothingLeft ==
    ~overlap /\ (\A l \in Loops : pc[l] \in {"idle", "ended"})
        => open = {} /\ \A u \in Urls : objects[u] = Nil

\* The loop of a stream comes back from starting, feeding and stopping its
\* pushes - unless HandleAvPacket ran before startflag was set (line 117) and
\* has gone, so that nobody receives what Stop (line 129) and, once the channel
\* is full, WriteAvPacket send; or another stream shares the object and has
\* stopped it.
PushReturns ==
    \A l \in Loops :
        pc[l] \in Starting \cup Stopping \cup {"send", "put"}
            ~> (pc[l] \in {"read", "ended"} \/ early \/ shared)

\* Pushes that start and stop one after the other neither crash nor disorder
\* what they send (Start, SendStaticPush, HandleAvPacket).
PushSafe == PushTypeOK /\ CrashNeedsOverlap /\ PushedInOrder
=============================================================================
