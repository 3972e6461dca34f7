---------------------------- MODULE RelayProofs ----------------------------
(***************************************************************************)
(* What is proved of the two ways to copy a stream to another server, the  *)
(* relay (module Relay) and the static push (module StaticPush).           *)
(*                                                                         *)
(* For any number of requests to start and to stop: a relay whose stop is  *)
(* answered publishes nothing more, and as long as requests come one after *)
(* the other every started relay can be found again.                       *)
(*                                                                         *)
(* startflag is not locked, so the argument rests on the order in which    *)
(* Stop works: it clears the flag before it meets the sender, and whoever  *)
(* finds the flag cleared finds the sender gone or somebody about to meet  *)
(* it.                                                                     *)
(*                                                                         *)
(* For any streams, lists of URLs and capacity of the channels: as long as *)
(* no two loops start or stop pushes at once, static pushes do not crash,  *)
(* deliver in order and without a gap, and leave nothing behind.  The      *)
(* argument follows the packets of a connection, PushInv below.            *)
(***************************************************************************)
EXTENDS Relay, StaticPush, TLAPS, FiniteSetTheorems, SequenceTheorems

\* What RelayTypeOK says, and the shape of the functions it leaves open.
Typed ==
    /\ session \in Relays \cup {NoRelay} /\ qrelay \in [Requests -> Relays \cup {NoRelay}]
    /\ rflag \in [Relays -> BOOLEAN]
    /\ play \in [Relays -> {"none", "open", "closed"}]
    /\ publish \in [Relays -> {"none", "open", "closed"}]
    /\ csChan \in [Relays -> Seq(Nat)] /\ nchunks \in [Relays -> Nat]
    /\ \A x \in Relays : Len(csChan[x]) <= CsCap
    /\ qpc \in [Requests -> {"idle", "dialPlay", "dialPublish", "store", "test", "unset",
                             "ctrl", "delete", "done"}]
    /\ rcv \in [Relays -> {"none", "check", "read", "put", "eof", "done"}]
    /\ snd \in [Relays -> {"none", "select", "write", "done"}]
    /\ twice \in BOOLEAN

\* The places of NewRtmpRelay and Start, and those of Stop.
StartPlaces == {"dialPlay", "dialPublish", "store"}
StopPlaces == {"test", "unset", "ctrl", "delete"}

\* Requests are at places of their kind.
Roles ==
    \A q \in Requests :
        /\ qpc[q] \in StartPlaces => Oper[q] = "start"
        /\ qpc[q] \in StopPlaces => Oper[q] = "stop" /\ qrelay[q] # NoRelay

\* Only a relay that was started is in the map or stopped; one that was not
\* holds at most the connection that its request is about to close.
Started ==
    /\ \A x \in Relays : qpc[x] = "store" => snd[x] # "none"
    /\ session # NoRelay => snd[session] # "none"
    /\ \A q \in Requests : Oper[q] = "stop" /\ qrelay[q] # NoRelay => snd[qrelay[q]] # "none"
    /\ \A x \in Relays : qpc[x] \in {"idle", "dialPlay", "dialPublish"} => snd[x] = "none"
    /\ \A x \in Relays : qpc[x] \in {"idle", "dialPlay"} => play[x] = "none"
    /\ \A x \in Relays : snd[x] = "none" => publish[x] = "none" /\ ~rflag[x] /\ rcv[x] = "none"
    /\ \A x \in Relays : qpc[x] = "done" /\ snd[x] = "none" => play[x] # "open"

\* Stop: the flag is cleared first; the sender that is still there then has
\* somebody who is about to meet it.
Cleared ==
    /\ \A q \in Requests :
        Oper[q] = "stop" /\ qrelay[q] # NoRelay /\ qpc[q] \in {"ctrl", "delete", "done"} =>
            ~rflag[qrelay[q]]
    /\ \A x \in Relays : snd[x] = "done" => publish[x] = "closed" /\ ~rflag[x]
    /\ \A x \in Relays : snd[x] \in {"select", "write"} /\ ~rflag[x] =>
        \E p \in Requests : qpc[p] = "ctrl" /\ qrelay[p] = x

\* Requests come in the order of their numbers.
InOrder == \A p, q \in Requests : p < q /\ qpc[q] # "idle" => qpc[p] # "idle"

\* As long as no two requests have run at a time, one that runs is the last
\* that came, and one that stops a relay has the relay of the map.
OneByOne ==
    \A q \in Requests : Running(q) =>
        /\ \A p \in Requests : p # q => ~Running(p)
        /\ \A p \in Requests : p > q => qpc[p] = "idle"
        /\ Oper[q] = "stop" => session = qrelay[q]

\* A relay whose flag is set is in the map, is about to be, or was pushed out.
Found ==
    \A x \in Relays : rflag[x] =>
        \/ session = x
        \/ qpc[x] = "store"
        \/ \E y \in Relays : y > x /\ snd[y] # "none"

RelayInv ==
    Typed /\ Roles /\ Started /\ Cleared /\ InOrder /\ (~twice => OneByOne /\ Found)

---------------------------------------------------------------------------
LEMMA RelayFacts ==
    /\ Relays \subseteq Requests /\ Relays \subseteq Nat /\ Requests \subseteq Nat
    /\ NoRelay \notin Relays /\ NoRelay \notin Requests
    /\ \A q \in Requests : Oper[q] = "start" <=> q \in Relays
    /\ \A q \in Requests : Oper[q] = "stop" <=> q \notin Relays
  BY RelayAssumption DEF Relays, NoRelay

LEMMA InitRelayInv == RelayInit => RelayInv
<1> SUFFICES ASSUME RelayInit PROVE RelayInv
  OBVIOUS
<1> USE RelayFacts
<1>1. Typed
  <2>1. csChan \in [Relays -> Seq(Nat)] /\ \A x \in Relays : Len(csChan[x]) <= CsCap
    BY RelayAssumption DEF RelayInit
  <2> QED  BY <2>1 DEF RelayInit, Typed
<1>2. Roles /\ Started /\ Cleared
  BY DEF RelayInit, Roles, Started, Cleared, StartPlaces, StopPlaces
<1>3. InOrder /\ OneByOne /\ Found
  BY DEF RelayInit, InOrder, OneByOne, Found, Running
<1> QED  BY <1>1, <1>2, <1>3 DEF RelayInv

LEMMA StartRequestKeeps ==
    ASSUME RelayInv, NEW q \in Requests, StartRequest(q)
    PROVE  RelayInv'
<1> USE RelayFacts DEF StartRequest, BeginRequest, To
<1>1. Typed'
  BY RelayAssumption DEF RelayInv, Typed
<1>2. Roles'
  BY DEF RelayInv, Typed, Roles, StartPlaces, StopPlaces
<1>3. Started'
  BY DEF RelayInv, Typed, Roles, Started, StartPlaces, StopPlaces
<1>4. Cleared'
  BY DEF RelayInv, Typed, Roles, Started, Cleared, StartPlaces, StopPlaces
<1>5. InOrder'
  BY DEF RelayInv, Typed, InOrder
<1>6. ASSUME ~twice' PROVE OneByOne'
  <2>1. \A p \in Requests : ~Running(p)
    BY <1>6 DEF RelayInv, Typed
  <2>2. \A p \in Requests : p > q => qpc[p] = "idle"
    BY DEF RelayInv, Typed, InOrder
  <2>3. \A p \in Requests \ {q} : qpc'[p] = qpc[p] /\ qrelay'[p] = qrelay[p]
    BY DEF RelayInv, Typed
  <2>4. \A p \in Requests \ {q} : ~Running(p)'
    BY <2>1, <2>3 DEF Running
  <2>5. \A p \in Requests : p > q => qpc'[p] = "idle"
    BY <2>2, <2>3
  <2>6. Oper[q] = "stop" => session' = qrelay'[q]
    BY DEF RelayInv, Typed
  <2> QED  BY <2>4, <2>5, <2>6 DEF OneByOne
<1>7. ASSUME ~twice' PROVE Found'
  BY <1>7 DEF RelayInv, Typed, Roles, Started, Cleared, InOrder, OneByOne, Found, Running, StartPlaces, StopPlaces
<1> QED  BY <1>1, <1>2, <1>3, <1>4, <1>5, <1>6, <1>7 DEF RelayInv

LEMMA StopRequestKeeps ==
    ASSUME RelayInv, NEW q \in Requests, StopRequest(q)
    PROVE  RelayInv'
<1> USE RelayFacts DEF StopRequest, BeginRequest, To
<1>1. Typed'
  BY RelayAssumption DEF RelayInv, Typed
<1>2. Roles'
  BY DEF RelayInv, Typed, Roles, StartPlaces, StopPlaces
<1>3. Started'
  BY DEF RelayInv, Typed, Roles, Started, StartPlaces, StopPlaces
<1>4. Cleared'
  BY DEF RelayInv, Typed, Roles, Started, Cleared, StartPlaces, StopPlaces
<1>5. InOrder'
  BY DEF RelayInv, Typed, InOrder
<1>6. ASSUME ~twice' PROVE OneByOne'
  <2>1. \A p \in Requests : ~Running(p)
    BY <1>6 DEF RelayInv, Typed
  <2>2. \A p \in Requests : p > q => qpc[p] = "idle"
    BY DEF RelayInv, Typed, InOrder
  <2>3. \A p \in Requests \ {q} : qpc'[p] = qpc[p] /\ qrelay'[p] = qrelay[p]
    BY DEF RelayInv, Typed
  <2>4. \A p \in Requests \ {q} : ~Running(p)'
    BY <2>1, <2>3 DEF Running
  <2>5. \A p \in Requests : p > q => qpc'[p] = "idle"
    BY <2>2, <2>3
  <2>6. Oper[q] = "stop" => session' = qrelay'[q]
    BY DEF RelayInv, Typed
  <2> QED  BY <2>4, <2>5, <2>6 DEF OneByOne
<1>7. ASSUME ~twice' PROVE Found'
  BY <1>7 DEF RelayInv, Typed, Roles, Started, Cleared, InOrder, OneByOne, Found, Running, StartPlaces, StopPlaces
<1> QED  BY <1>1, <1>2, <1>3, <1>4, <1>5, <1>6, <1>7 DEF RelayInv

LEMMA DialPlayKeeps ==
    ASSUME RelayInv, NEW q \in Requests, DialPlay(q)
    PROVE  RelayInv'
<1> USE RelayFacts DEF DialPlay, To
<1>0. q \in Relays
  BY DEF RelayInv, Roles, StartPlaces
<1>1. Typed'
  <2>1. qpc' \in [Requests -> {"idle", "dialPlay", "dialPublish", "store", "test", "unset",
                               "ctrl", "delete", "done"}]
    BY DEF RelayInv, Typed
  <2>2. play' \in [Relays -> {"none", "open", "closed"}]
    BY <1>0 DEF RelayInv, Typed
  <2> QED  BY <2>1, <2>2 DEF RelayInv, Typed
<1>2. Roles'
  BY DEF RelayInv, Typed, Roles, StartPlaces, StopPlaces
<1>3. Started'
  <2>1. /\ \A x \in Relays \ {q} : qpc'[x] = qpc[x] /\ play'[x] = play[x]
        /\ qpc[q] = "dialPlay" /\ qpc'[q] \in {"dialPublish", "done"}
        /\ qpc'[q] = "done" => play'[q] = play[q]
        /\ UNCHANGED <<session, qrelay, rflag, publish, rcv, snd>>
    BY <1>0 DEF RelayInv, Typed
  <2> QED  BY <1>0, <2>1 DEF RelayInv, Started
<1>4. Cleared'
  BY DEF RelayInv, Typed, Roles, Started, Cleared, StartPlaces, StopPlaces
<1>5. InOrder'
  BY DEF RelayInv, Typed, InOrder
<1>6. ASSUME ~twice' PROVE OneByOne'
  BY <1>6 DEF RelayInv, Typed, Roles, InOrder, OneByOne, Running, StartPlaces, StopPlaces
<1>7. ASSUME ~twice' PROVE Found'
  BY <1>7 DEF RelayInv, Typed, Roles, Started, Cleared, InOrder, OneByOne, Found, Running, StartPlaces, StopPlaces
<1> QED  BY <1>1, <1>2, <1>3, <1>4, <1>5, <1>6, <1>7 DEF RelayInv

LEMMA DialPublishKeeps ==
    ASSUME RelayInv, NEW q \in Requests, DialPublish(q)
    PROVE  RelayInv'
<1> USE RelayFacts DEF To
<1>0. q \in Relays /\ qpc[q] = "dialPublish" /\ snd[q] = "none"
  BY DEF RelayInv, Roles, Started, StartPlaces, DialPublish
<1>1. UNCHANGED <<session, qrelay, twice, csChan, nchunks>>
  BY DEF DialPublish
<1>2. \A p \in Requests \ {q} : qpc'[p] = qpc[p]
  BY DEF DialPublish, RelayInv, Typed
<1>3. \A x \in Relays \ {q} : /\ play'[x] = play[x] /\ publish'[x] = publish[x] /\ rflag'[x] = rflag[x]
                                /\ rcv'[x] = rcv[x] /\ snd'[x] = snd[x]
  BY DEF DialPublish, RelayInv, Typed
<1>4. \/ /\ qpc'[q] = "store" /\ publish'[q] = "open" /\ rflag'[q] = TRUE
         /\ rcv'[q] = "check" /\ snd'[q] = "select" /\ play'[q] = play[q]
      \/ /\ qpc'[q] = "done" /\ play'[q] = "closed"
         /\ publish'[q] = publish[q] /\ rflag'[q] = rflag[q] /\ rcv'[q] = rcv[q] /\ snd'[q] = snd[q]
  BY <1>0 DEF DialPublish, RelayInv, Typed
<1>5. \A p \in Requests : Oper[p] = "stop" /\ qrelay[p] # NoRelay => qrelay[p] \in Relays \ {q}
  BY <1>0 DEF RelayInv, Typed, Started
<1>6. Typed'
  <2>1. qpc' \in [Requests -> {"idle", "dialPlay", "dialPublish", "store", "test", "unset",
                                "ctrl", "delete", "done"}]
    BY <1>0 DEF DialPublish, RelayInv, Typed
  <2>5. rflag' \in [Relays -> BOOLEAN]
    BY <1>0 DEF DialPublish, RelayInv, Typed
  <2>2. play' \in [Relays -> {"none", "open", "closed"}]
    BY <1>0 DEF DialPublish, RelayInv, Typed
  <2>6. publish' \in [Relays -> {"none", "open", "closed"}]
    BY <1>0 DEF DialPublish, RelayInv, Typed
  <2>3. rcv' \in [Relays -> {"none", "check", "read", "put", "eof", "done"}]
    BY <1>0 DEF DialPublish, RelayInv, Typed
  <2>4. snd' \in [Relays -> {"none", "select", "write", "done"}]
    BY <1>0 DEF DialPublish, RelayInv, Typed
  <2> QED  BY <1>1, <2>1, <2>2, <2>3, <2>4, <2>5, <2>6 DEF RelayInv, Typed
<1>7. Roles'
  BY <1>0, <1>1, <1>2, <1>4 DEF RelayInv, Roles, StartPlaces, StopPlaces
<1>8. Started'
  <2>1. session # NoRelay => session \in Relays \ {q}
    BY <1>0 DEF RelayInv, Typed, Started
  <2>2. session' # NoRelay => snd'[session'] # "none"
    BY <1>1, <1>3, <2>1 DEF RelayInv, Started
  <2>3. ASSUME NEW p \in Requests, Oper[p] = "stop", qrelay'[p] # NoRelay
        PROVE  snd'[qrelay'[p]] # "none"
    <3>1. qrelay'[p] = qrelay[p]
      BY <1>1
    <3>2. qrelay[p] \in Relays \ {q} /\ snd[qrelay[p]] # "none"
      BY <1>5, <2>3, <3>1 DEF RelayInv, Started
    <3> QED  BY <1>3, <3>1, <3>2
  <2>4. \A x \in Relays \ {q} :
            /\ x \in Requests \ {q} /\ qpc'[x] = qpc[x] /\ play'[x] = play[x] /\ publish'[x] = publish[x]
            /\ rflag'[x] = rflag[x] /\ rcv'[x] = rcv[x] /\ snd'[x] = snd[x]
    BY <1>2, <1>3
  <2>5. /\ qpc'[q] \notin {"idle", "dialPlay", "dialPublish"}
        /\ qpc'[q] = "store" => snd'[q] # "none"
        /\ snd'[q] = "none" => publish'[q] = "none" /\ ~rflag'[q] /\ rcv'[q] = "none"
        /\ qpc'[q] = "done" /\ snd'[q] = "none" => play'[q] # "open"
    BY <1>0, <1>4 DEF RelayInv, Started
  <2> QED  BY <2>2, <2>3, <2>4, <2>5 DEF RelayInv, Started
<1>9. Cleared'
  <2>1. \A p \in Requests : Oper[p] = "stop" => p # q
    BY <1>0
  <2>2. \A p \in Requests : qpc[p] = "ctrl" => qpc'[p] = "ctrl"
    BY <1>0, <1>2
  <2>3. \A p \in Requests :
            Oper[p] = "stop" /\ qrelay'[p] # NoRelay /\ qpc'[p] \in {"ctrl", "delete", "done"} =>
                ~rflag'[qrelay'[p]]
    BY <1>1, <1>2, <1>3, <1>5, <2>1 DEF RelayInv, Cleared
  <2>4. \A x \in Relays : snd'[x] = "done" => publish'[x] = "closed" /\ ~rflag'[x]
    BY <1>0, <1>3, <1>4 DEF RelayInv, Cleared
  <2>5. ASSUME NEW x \in Relays, snd'[x] \in {"select", "write"}, ~rflag'[x]
        PROVE  \E p \in Requests : qpc'[p] = "ctrl" /\ qrelay'[p] = x
    <3>1. x # q
      BY <1>0, <1>4, <2>5
    <3>2. PICK p \in Requests : qpc[p] = "ctrl" /\ qrelay[p] = x
      BY <1>3, <2>5, <3>1 DEF RelayInv, Cleared
    <3> QED  BY <1>1, <2>2, <3>2
  <2> QED  BY <2>3, <2>4, <2>5 DEF Cleared
<1>10. InOrder'
  BY <1>0, <1>2, <1>4 DEF RelayInv, InOrder
<1>11. ASSUME ~twice' PROVE OneByOne'
  BY <1>0, <1>1, <1>2, <1>11 DEF RelayInv, OneByOne, Running
<1>12. ASSUME ~twice' PROVE Found'
  <2>0. ~twice /\ Found /\ session' = session
    BY <1>1, <1>12 DEF RelayInv
  <2>1. \A y \in Relays : snd[y] # "none" => snd'[y] # "none"
    BY <1>3, <1>4
  <2>2. ASSUME rflag'[q] PROVE qpc'[q] = "store" \/ rflag[q]
    BY <1>4, <2>2
  <2>3. ASSUME NEW x \in Relays, rflag'[x]
        PROVE  session' = x \/ qpc'[x] = "store" \/ \E y \in Relays : y > x /\ snd'[y] # "none"
    <3>1. CASE x = q
      BY <1>0, <1>4, <2>0, <2>1, <2>2, <2>3, <3>1 DEF Found
    <3>2. CASE x # q
      <4>1. x \in Requests \ {q} /\ rflag[x] /\ qpc'[x] = qpc[x]
        BY <1>2, <1>3, <2>3, <3>2
      <4> QED  BY <2>0, <2>1, <4>1 DEF Found
    <3> QED  BY <3>1, <3>2
  <2> QED  BY <2>3 DEF Found
<1> QED  BY <1>6, <1>7, <1>8, <1>9, <1>10, <1>11, <1>12 DEF RelayInv

LEMMA StoreSessionKeeps ==
    ASSUME RelayInv, NEW q \in Requests, StoreSession(q)
    PROVE  RelayInv'
<1> USE RelayFacts DEF StoreSession, To
<1>0. q \in Relays
  BY DEF RelayInv, Roles, StartPlaces
<1>1. Typed'
  BY <1>0 DEF RelayInv, Typed
<1>2. Roles'
  BY DEF RelayInv, Typed, Roles, StartPlaces, StopPlaces
<1>3. Started'
  BY DEF RelayInv, Typed, Roles, Started, StartPlaces, StopPlaces
<1>4. Cleared'
  BY DEF RelayInv, Typed, Roles, Started, Cleared, StartPlaces, StopPlaces
<1>5. InOrder'
  BY DEF RelayInv, Typed, InOrder
<1>6. ASSUME ~twice' PROVE OneByOne'
  BY <1>6 DEF RelayInv, Typed, Roles, InOrder, OneByOne, Running, StartPlaces, StopPlaces
<1>7. ASSUME ~twice' PROVE Found'
  BY <1>7 DEF RelayInv, Typed, Roles, Started, Cleared, InOrder, OneByOne, Found, Running, StartPlaces, StopPlaces
<1> QED  BY <1>1, <1>2, <1>3, <1>4, <1>5, <1>6, <1>7 DEF RelayInv

LEMMA StopTestKeeps ==
    ASSUME RelayInv, NEW q \in Requests, StopTest(q)
    PROVE  RelayInv'
<1> USE RelayFacts DEF StopTest, To
<1>1. Typed'
  BY RelayAssumption DEF RelayInv, Typed
<1>2. Roles'
  BY DEF RelayInv, Typed, Roles, StartPlaces, StopPlaces
<1>3. Started'
  BY DEF RelayInv, Typed, Roles, Started, StartPlaces, StopPlaces
<1>4. Cleared'
  BY DEF RelayInv, Typed, Roles, Started, Cleared, StartPlaces, StopPlaces
<1>5. InOrder'
  BY DEF RelayInv, Typed, InOrder
<1>6. ASSUME ~twice' PROVE OneByOne'
  BY <1>6 DEF RelayInv, Typed, Roles, InOrder, OneByOne, Running, StartPlaces, StopPlaces
<1>7. ASSUME ~twice' PROVE Found'
  BY <1>7 DEF RelayInv, Typed, Roles, Started, Cleared, InOrder, OneByOne, Found, Running, StartPlaces, StopPlaces
<1> QED  BY <1>1, <1>2, <1>3, <1>4, <1>5, <1>6, <1>7 DEF RelayInv

LEMMA StopFlagKeeps ==
    ASSUME RelayInv, NEW q \in Requests, StopFlag(q)
    PROVE  RelayInv'
<1> USE RelayFacts DEF StopFlag, To
<1>1. Typed'
  BY RelayAssumption DEF RelayInv, Typed
<1>2. Roles'
  BY DEF RelayInv, Typed, Roles, StartPlaces, StopPlaces
<1>3. Started'
  BY DEF RelayInv, Typed, Roles, Started, StartPlaces, StopPlaces
<1>4. Cleared'
  BY DEF RelayInv, Typed, Roles, Started, Cleared, StartPlaces, StopPlaces
<1>5. InOrder'
  BY DEF RelayInv, Typed, InOrder
<1>6. ASSUME ~twice' PROVE OneByOne'
  BY <1>6 DEF RelayInv, Typed, Roles, InOrder, OneByOne, Running, StartPlaces, StopPlaces
<1>7. ASSUME ~twice' PROVE Found'
  BY <1>7 DEF RelayInv, Typed, Roles, Started, Cleared, InOrder, OneByOne, Found, Running, StartPlaces, StopPlaces
<1> QED  BY <1>1, <1>2, <1>3, <1>4, <1>5, <1>6, <1>7 DEF RelayInv

LEMMA StopCtrlRelayKeeps ==
    ASSUME RelayInv, NEW q \in Requests, StopCtrlRelay(q)
    PROVE  RelayInv'
<1> USE RelayFacts DEF StopCtrlRelay, To
<1>1. Typed'
  BY RelayAssumption DEF RelayInv, Typed
<1>2. Roles'
  BY DEF RelayInv, Typed, Roles, StartPlaces, StopPlaces
<1>3. Started'
  BY DEF RelayInv, Typed, Roles, Started, StartPlaces, StopPlaces
<1>4. Cleared'
  BY DEF RelayInv, Typed, Roles, Started, Cleared, StartPlaces, StopPlaces
<1>5. InOrder'
  BY DEF RelayInv, Typed, InOrder
<1>6. ASSUME ~twice' PROVE OneByOne'
  BY <1>6 DEF RelayInv, Typed, Roles, InOrder, OneByOne, Running, StartPlaces, StopPlaces
<1>7. ASSUME ~twice' PROVE Found'
  BY <1>7 DEF RelayInv, Typed, Roles, Started, Cleared, InOrder, OneByOne, Found, Running, StartPlaces, StopPlaces
<1> QED  BY <1>1, <1>2, <1>3, <1>4, <1>5, <1>6, <1>7 DEF RelayInv

LEMMA DeleteSessionKeeps ==
    ASSUME RelayInv, NEW q \in Requests, DeleteSession(q)
    PROVE  RelayInv'
<1> USE RelayFacts DEF DeleteSession, To
<1>1. Typed'
  BY RelayAssumption DEF RelayInv, Typed
<1>2. Roles'
  BY DEF RelayInv, Typed, Roles, StartPlaces, StopPlaces
<1>3. Started'
  BY DEF RelayInv, Typed, Roles, Started, StartPlaces, StopPlaces
<1>4. Cleared'
  BY DEF RelayInv, Typed, Roles, Started, Cleared, StartPlaces, StopPlaces
<1>5. InOrder'
  BY DEF RelayInv, Typed, InOrder
<1>6. ASSUME ~twice' PROVE OneByOne'
  BY <1>6 DEF RelayInv, Typed, Roles, InOrder, OneByOne, Running, StartPlaces, StopPlaces
<1>7. ASSUME ~twice' PROVE Found'
  <2>1. q \notin Relays /\ session = qrelay[q] /\ Found
    BY <1>7 DEF RelayInv, Roles, OneByOne, Running, StartPlaces, StopPlaces
  <2>2. session # NoRelay => ~rflag[session]
    BY <2>1 DEF RelayInv, Cleared
  <2>3. \A x \in Relays : qpc'[x] = qpc[x]
    BY <2>1 DEF RelayInv, Typed
  <2> QED  BY <2>1, <2>2, <2>3 DEF Found
<1> QED  BY <1>1, <1>2, <1>3, <1>4, <1>5, <1>6, <1>7 DEF RelayInv

LEMMA RcvKeeps ==
    ASSUME RelayInv, NEW x \in Relays, Rcv(x)
    PROVE  RelayInv'
<1> USE RelayFacts DEF Rcv, RcvCheck, RcvRead, RcvEof, RcvPut, reqVars, To
<1>1. Typed'
  <2>1. CASE RcvPut(x)
    <3>1. csChan[x] \in Seq(Nat) /\ nchunks[x] \in Nat
      BY DEF RelayInv, Typed
    <3>2. csChan'[x] = Append(csChan[x], nchunks[x])
      BY <2>1 DEF RelayInv, Typed
    <3>3. csChan'[x] \in Seq(Nat) /\ Len(csChan'[x]) <= CsCap
      BY <2>1, <3>1, <3>2, RelayAssumption
    <3>4. csChan' \in [Relays -> Seq(Nat)] /\ \A y \in Relays \ {x} : csChan'[y] = csChan[y]
      BY <2>1, <3>2, <3>3 DEF RelayInv, Typed
    <3> QED  BY <2>1, <3>3, <3>4 DEF RelayInv, Typed
  <2>2. CASE RcvCheck(x)
    <3>1. rcv' \in [Relays -> {"none", "check", "read", "put", "eof", "done"}]
      BY <2>2 DEF RelayInv, Typed
    <3> QED  BY <2>2, <3>1, SMTT(30) DEF RelayInv, Typed
  <2>3. CASE RcvRead(x)
    <3>1. nchunks' \in [Relays -> Nat]
      BY <2>3 DEF RelayInv, Typed
    <3>2. rcv' \in [Relays -> {"none", "check", "read", "put", "eof", "done"}]
      BY <2>3 DEF RelayInv, Typed
    <3> QED  BY <2>3, <3>1, <3>2 DEF RelayInv, Typed
  <2>4. CASE RcvEof(x)
    BY <2>4 DEF RelayInv, Typed
  <2> QED  BY <2>1, <2>2, <2>3, <2>4
<1>2. Roles'
  BY DEF RelayInv, Typed, Roles, StartPlaces, StopPlaces
<1>3. Started'
  <2>1. UNCHANGED <<session, qpc, qrelay, snd, publish, rflag>>
    OBVIOUS
  <2>2. snd[x] # "none"
    BY DEF RelayInv, Started
  <2>3. \A y \in Relays \ {x} : play'[y] = play[y] /\ rcv'[y] = rcv[y]
    BY DEF RelayInv, Typed
  <2>4. qpc[x] \notin {"idle", "dialPlay", "dialPublish"}
    BY <2>2 DEF RelayInv, Started
  <2> QED  BY <2>1, <2>2, <2>3, <2>4 DEF RelayInv, Started
<1>4. Cleared'
  BY DEF RelayInv, Typed, Roles, Started, Cleared, StartPlaces, StopPlaces
<1>5. InOrder'
  BY DEF RelayInv, Typed, InOrder
<1>6. ASSUME ~twice' PROVE OneByOne'
  BY <1>6 DEF RelayInv, Typed, Roles, InOrder, OneByOne, Running, StartPlaces, StopPlaces
<1>7. ASSUME ~twice' PROVE Found'
  BY <1>7 DEF RelayInv, Typed, Roles, Started, Cleared, InOrder, OneByOne, Found, Running, StartPlaces, StopPlaces
<1> QED  BY <1>1, <1>2, <1>3, <1>4, <1>5, <1>6, <1>7 DEF RelayInv

LEMMA SndKeeps ==
    ASSUME RelayInv, NEW x \in Relays, Snd(x)
    PROVE  RelayInv'
<1> USE RelayFacts DEF Snd, SndTake, SndWrite, reqVars, To
<1>1. Typed'
  <2>1. CASE SndTake(x)
    <3>1. csChan[x] \in Seq(Nat) /\ Len(csChan[x]) <= CsCap
      BY DEF RelayInv, Typed
    <3>2. csChan'[x] = Tail(csChan[x])
      BY <2>1 DEF RelayInv, Typed
    <3>3. csChan'[x] \in Seq(Nat) /\ Len(csChan'[x]) <= CsCap
      BY <2>1, <3>1, <3>2, RelayAssumption
    <3>4. csChan' \in [Relays -> Seq(Nat)] /\ \A y \in Relays \ {x} : csChan'[y] = csChan[y]
      BY <2>1, <3>2, <3>3 DEF RelayInv, Typed
    <3> QED  BY <2>1, <3>3, <3>4 DEF RelayInv, Typed
  <2>2. CASE SndWrite(x)
    BY <2>2 DEF RelayInv, Typed
  <2> QED  BY <2>1, <2>2
<1>2. Roles'
  BY DEF RelayInv, Typed, Roles, StartPlaces, StopPlaces
<1>3. Started'
  <2>1. \A y \in Relays : snd'[y] = "none" <=> snd[y] = "none"
    BY DEF RelayInv, Typed
  <2>2. UNCHANGED <<session, qpc, qrelay, play, publish, rflag, rcv>>
    OBVIOUS
  <2>3. \A q \in Requests : Oper[q] = "stop" /\ qrelay[q] # NoRelay => qrelay[q] \in Relays
    BY DEF RelayInv, Typed
  <2>4. session # NoRelay => session \in Relays
    BY DEF RelayInv, Typed
  <2> QED  BY <2>1, <2>2, <2>3, <2>4 DEF RelayInv, Started
<1>4. Cleared'
  BY SMTT(30) DEF RelayInv, Typed, Roles, Started, Cleared, StartPlaces, StopPlaces
<1>5. InOrder'
  BY DEF RelayInv, Typed, InOrder
<1>6. ASSUME ~twice' PROVE OneByOne'
  BY <1>6 DEF RelayInv, Typed, Roles, InOrder, OneByOne, Running, StartPlaces, StopPlaces
<1>7. ASSUME ~twice' PROVE Found'
  BY <1>7, SMTT(30) DEF RelayInv, Typed, Roles, Started, Cleared, InOrder, OneByOne, Found, Running, StartPlaces, StopPlaces
<1> QED  BY <1>1, <1>2, <1>3, <1>4, <1>5, <1>6, <1>7 DEF RelayInv

---------------------------------------------------------------------------
LEMMA NextRelayInv == RelayInv /\ [RelayNext]_relayVars => RelayInv'
<1> SUFFICES ASSUME RelayInv, [RelayNext]_relayVars PROVE RelayInv'
  OBVIOUS
<1>1. CASE UNCHANGED relayVars
  BY <1>1 DEF relayVars, RelayInv, Typed, Roles, Started, Cleared, InOrder, OneByOne, Found, Running
<1>2. ASSUME NEW q \in Requests, StartRequest(q) \/ StopRequest(q) PROVE RelayInv'
  BY <1>2, StartRequestKeeps, StopRequestKeeps
<1>3. ASSUME NEW q \in Requests, Serve(q) PROVE RelayInv'
  BY <1>3, DialPlayKeeps, DialPublishKeeps, StoreSessionKeeps, StopTestKeeps, StopFlagKeeps,
     StopCtrlRelayKeeps, DeleteSessionKeeps DEF Serve
<1>4. ASSUME NEW x \in Relays, Rcv(x) \/ Snd(x) PROVE RelayInv'
  BY <1>4, RcvKeeps, SndKeeps
<1> QED  BY <1>1, <1>2, <1>3, <1>4 DEF RelayNext

LEMMA InductiveRelay == RelaySpec => []RelayInv
<1> QED  BY InitRelayInv, NextRelayInv, PTL DEF RelaySpec

LEMMA InvStoppedHoldsNothing == RelayInv => StoppedHoldsNothing
<1> SUFFICES ASSUME RelayInv PROVE StoppedHoldsNothing
  OBVIOUS
<1> USE RelayFacts
<1>1. RelayTypeOK
  BY DEF RelayInv, Typed, RelayTypeOK
<1>2. ASSUME NEW q \in Requests, Oper[q] = "stop", qpc[q] = "done", qrelay[q] # NoRelay
      PROVE  \/ snd[qrelay[q]] = "done" /\ publish[qrelay[q]] = "closed" /\ ~rflag[qrelay[q]]
             \/ \E p \in Requests : Running(p) /\ Oper[p] = "stop" /\ qrelay[p] = qrelay[q]
  <2>1. qrelay[q] \in Relays /\ snd[qrelay[q]] # "none" /\ ~rflag[qrelay[q]]
    BY <1>2 DEF RelayInv, Typed, Started, Cleared
  <2>2. CASE snd[qrelay[q]] = "done"
    BY <2>1, <2>2 DEF RelayInv, Cleared
  <2>3. CASE snd[qrelay[q]] # "done"
    <3>0. snd[qrelay[q]] \in {"select", "write"}
      BY <2>1, <2>3 DEF RelayInv, Typed
    <3>1. PICK p \in Requests : qpc[p] = "ctrl" /\ qrelay[p] = qrelay[q]
      BY <2>1, <3>0 DEF RelayInv, Cleared
    <3> QED  BY <3>1 DEF RelayInv, Roles, StopPlaces, Running
  <2> QED  BY <2>2, <2>3
<1>3. StoppedIsSilent
  BY <1>2 DEF StoppedIsSilent
<1>4. FailedStartLeavesNothing
  BY DEF RelayInv, Typed, Started, FailedStartLeavesNothing
<1> QED  BY <1>1, <1>3, <1>4 DEF StoppedHoldsNothing

\* Once a request to stop a relay is answered its sender is gone and its
\* connection closed, or another Stop of it is about to meet the sender; a Start
\* that failed left no connection (rtmprelay.go, Start and Stop).
THEOREM RelayStoppedHoldsNothing == RelaySpec => []StoppedHoldsNothing
<1> QED  BY InductiveRelay, InvStoppedHoldsNothing, PTL

\* While requests come one after the other and none runs, a relay whose
\* startflag is set is the one of s.session, or a later start pushed it out
\* (handlePush and handlePull of api.go).
THEOREM RelayStartedIsInSession == RelaySpec => []StartedIsInSession
<1>1. RelayInv => StartedIsInSession
  BY RelayFacts DEF RelayInv, Found, StartedIsInSession, Running
<1> QED  BY <1>1, InductiveRelay, PTL

---------------------------------------------------------------------------
(* Static push: the inductive invariant                                    *)

\* Packets, the places of a HandleAvPacket that runs, and the places of a loop:
\* at a URL, all of them, and those where it holds an object.
Pkts == Loops \X (1 .. MaxPackets)
Handling == {"check", "loop", "send"}
AtUrl == Starting \cup Stopping \cup {"send", "put"}
Places == AtUrl \cup {"idle", "read", "ended"}
Holding == {"begin", "dial", "flag", "put", "ctrl", "unset", "release"}

\* The URLs in a list, and that it names none twice.
Elems(s) == {s[i] : i \in DOMAIN s}
Distinct(s) == \A i, j \in DOMAIN s : s[i] = s[j] => i = j

\* What PushTypeOK says, and the shape of the functions it leaves open.
PushTyped ==
    /\ listOf \in DOMAIN StaticPushOf \cup {Unread}
    /\ nobj \in Nat /\ objects \in [Urls -> 0 .. nobj]
    /\ startflag \in [Objects -> BOOLEAN] /\ client \in [Objects -> Conns \cup {NoConn}]
    /\ chan \in [Objects -> Seq(Pkts)] /\ \A o \in Objects : Len(chan[o]) <= ChanCap
    /\ pc \in [Loops -> Places] /\ todo \in [Loops -> Seq(Urls)]
    /\ obj \in [Loops -> 0 .. nobj] /\ npkt \in [Loops -> 0 .. MaxPackets]
    /\ hpc \in [Conns -> Handling \cup {"none", "done"}] /\ hobj \in [Conns -> 0 .. nobj]
    /\ hpkt \in [Conns -> Pkts \cup {NoPkt}] /\ remote \in [Conns -> Seq(Pkts)]
    /\ open \subseteq Conns /\ overlap \in BOOLEAN /\ pushCrashed \in BOOLEAN

\* What the place of a loop and of a HandleAvPacket says of its variables.
LoopPlace(l) ==
    /\ pc[l] \in Holding => obj[l] # Nil
    /\ pc[l] \in {"send", "put"} => npkt[l] # 0
    /\ pc[l] \in AtUrl =>
        /\ todo[l] # <<>> /\ Distinct(todo[l])
        /\ listOf # Unread /\ Elems(todo[l]) \subseteq Elems(StaticPushOf[listOf])
ConnPlace(c) ==
    /\ hpc[c] # "none" => hobj[c] # Nil
    /\ hpkt[c] # NoPkt <=> hpc[c] = "send"
    /\ hpc[c] = "none" => c \notin open /\ remote[c] = <<>>
PushPlaces == (\A l \in Loops : LoopPlace(l)) /\ (\A c \in Conns : ConnPlace(c))

\* Loop l may still make an object for URL u, and may still connect to it.
Waits(l, u) ==
    \/ pc[l] = "idle"
    \/ pc[l] \in {"get", "create"} /\ u \in Elems(todo[l])
    \/ pc[l] \in {"begin", "dial", "flag"} /\ u \in Elems(Tail(todo[l]))
Undialled(l, u) ==
    \/ pc[l] = "idle"
    \/ pc[l] \in {"get", "create", "begin", "dial"} /\ u \in Elems(todo[l])
    \/ pc[l] = "flag" /\ u \in Elems(Tail(todo[l]))
Pending == {c \in Conns : Waits(c[1], c[2])}

\* Every Start makes one object at most and one connection at most.
Counting ==
    /\ nobj + Cardinality(Pending) <= Cardinality(Conns)
    /\ \A c \in Conns : hpc[c] # "none" => ~Undialled(c[1], c[2])

\* An object that is in the map has a loop that will come and take it out.
Holds(l, u) ==
    \/ pc[l] \in Starting \cup {"read", "send", "put"}
    \/ pc[l] \in Stopping /\ u \in Elems(todo[l])
Owed ==
    \A u \in Urls : objects[u] # Nil =>
        /\ listOf # Unread /\ u \in Elems(StaticPushOf[listOf])
        /\ \E l \in Loops : Holds(l, u)

\* An object is in the map under one URL.
Owned ==
    /\ \A u, v \in Urls : objects[u] = objects[v] /\ objects[u] # Nil => u = v
    /\ \A l \in Loops : \A v \in Urls :
        pc[l] = "put" /\ objects[v] = obj[l] => v = Head(todo[l])

---------------------------------------------------------------------------
(* As long as starts and stops have not overlapped                         *)

Busy(l) == pc[l] \in Starting \cup Stopping
OneBusy == \A l, k \in Loops : Busy(l) /\ Busy(k) => l = k

\* The connection c is in use: it is open, or its HandleAvPacket runs.
Using(c) == hpc[c] \in Handling \/ c \in open

\* A connection in use is the client of its object, which is the one in the
\* map and is started, or is just being started.
BelongsAt(c) ==
    /\ client[hobj[c]] = c /\ objects[c[2]] = hobj[c]
    /\ \/ startflag[hobj[c]]
       \/ /\ pc[c[1]] = "flag" /\ obj[c[1]] = hobj[c]
          /\ hpc[c] \in {"check", "done"} /\ remote[c] = <<>>
Belongs == \A c \in Conns : Using(c) => BelongsAt(c)

\* What the loop that starts or stops knows of the object it works on.
WorkingAt(l) ==
    /\ pc[l] = "create" => objects[Head(todo[l])] = Nil
    /\ pc[l] \in Holding \ {"put"} => objects[Head(todo[l])] = obj[l]
    /\ pc[l] \in {"dial", "flag"} => ~startflag[obj[l]] /\ client[obj[l]] = <<l, Head(todo[l])>>
    /\ pc[l] = "unset" => \A c \in Conns : Using(c) => hobj[c] # obj[l]
    /\ pc[l] = "release" => ~startflag[obj[l]]
Working == \A l \in Loops : WorkingAt(l)

\* An object that is in the map and not started, and that is not about to go.
Dormant(o) ==
    /\ \E u \in Urls : objects[u] = o /\ o # Nil
    /\ ~startflag[o]
    /\ \A l \in Loops : ~(pc[l] = "release" /\ obj[l] = o)

\* Nobody has given a packet to an object that was never started.
Unfed ==
    /\ \A o \in Objects : o > nobj => chan[o] = <<>>
    /\ \A o \in Objects : Dormant(o) =>
        chan[o] = <<>> /\ \A l \in Loops : ~(pc[l] = "put" /\ obj[l] = o)

\* The packets of one loop in q: increasing and without a gap.
Run(q) ==
    \A i, j \in DOMAIN q : i < j /\ q[i][1] = q[j][1] =>
        /\ q[i][2] < q[j][2]
        /\ \A n \in q[i][2] .. q[j][2] : \E k \in i .. j : q[k] = <<q[i][1], n>>

\* If q has packets of loop l, the last of them is number n.
Reaches(q, l, n) ==
    \A i \in DOMAIN q : q[i][1] = l => q[i][2] <= n /\ \E k \in DOMAIN q : q[k] = <<l, n>>

\* The last packet that loop l has given, or could have given, to URL u.
Given(l, u) == IF pc[l] \in {"send", "put"} /\ u \in Elems(todo[l]) THEN npkt[l] - 1 ELSE npkt[l]

\* All the packets of a connection: sent, in hand, and in the channel.
Held(c) == IF hpkt[c] = NoPkt THEN <<>> ELSE <<hpkt[c]>>
Flow(c) == (remote[c] \o Held(c)) \o chan[hobj[c]]

\* A connection that is served gets what every loop gives to its URL.
Served(c) == hpc[c] \in Handling /\ c \in open
FedBy(c, l) ==
    /\ Reaches(Flow(c), l, Given(l, c[2]))
    /\ pc[l] = "put" /\ Head(todo[l]) = c[2] /\ obj[l] # hobj[c] =>
        \A i \in DOMAIN Flow(c) : Flow(c)[i][1] # l
Flowing == \A c \in Conns : Served(c) => Run(Flow(c)) /\ \A l \in Loops : FedBy(c, l)

Calm == ~overlap =>
    ~pushCrashed /\ OneBusy /\ Belongs /\ Working /\ Unfed /\ Flowing
    /\ \A c \in Conns : Run(remote[c])

PushInv == PushTyped /\ PushPlaces /\ Counting /\ Owed /\ Owned /\ Calm

---------------------------------------------------------------------------
(* Lists of URLs, and how far objects are counted                          *)

\* A list that names no URL twice: its head, and the rest.
LEMMA TailOf ==
    ASSUME NEW s \in Seq(Urls), s # <<>>, Distinct(s)
    PROVE  /\ Head(s) \in Urls /\ Tail(s) \in Seq(Urls) /\ Distinct(Tail(s))
           /\ Elems(s) = {Head(s)} \cup Elems(Tail(s)) /\ Head(s) \notin Elems(Tail(s))
           /\ Len(s) > 1 <=> Tail(s) # <<>>
<1>1. /\ Head(s) = s[1] /\ Head(s) \in Urls /\ Tail(s) \in Seq(Urls)
      /\ Len(s) \in Nat /\ Len(s) >= 1 /\ Len(Tail(s)) = Len(s) - 1
      /\ DOMAIN s = 1 .. Len(s) /\ DOMAIN Tail(s) = 1 .. Len(s) - 1
      /\ \A i \in 1 .. Len(s) - 1 : Tail(s)[i] = s[i + 1]
  OBVIOUS
<1>2. Distinct(Tail(s))
  <2> SUFFICES ASSUME NEW i \in 1 .. Len(s) - 1, NEW j \in 1 .. Len(s) - 1, Tail(s)[i] = Tail(s)[j]
               PROVE  i = j
    BY <1>1 DEF Distinct
  <2>1. i + 1 \in DOMAIN s /\ j + 1 \in DOMAIN s /\ s[i + 1] = s[j + 1]
    BY <1>1
  <2> QED  BY <2>1 DEF Distinct
<1>3. Elems(s) \subseteq {Head(s)} \cup Elems(Tail(s))
  <2> SUFFICES ASSUME NEW i \in 1 .. Len(s) PROVE s[i] = Head(s) \/ s[i] \in Elems(Tail(s))
    BY <1>1 DEF Elems
  <2>1. CASE i # 1
    <3>1. i - 1 \in DOMAIN Tail(s) /\ Tail(s)[i - 1] = s[i]
      BY <1>1, <2>1
    <3> QED  BY <3>1 DEF Elems
  <2> QED  BY <1>1, <2>1
<1>4. \A u \in Elems(Tail(s)) : u \in Elems(s) /\ u # Head(s)
  <2> SUFFICES ASSUME NEW i \in 1 .. Len(s) - 1 PROVE Tail(s)[i] \in Elems(s) /\ Tail(s)[i] # Head(s)
    BY <1>1 DEF Elems
  <2>1. i + 1 \in DOMAIN s /\ 1 \in DOMAIN s /\ Tail(s)[i] = s[i + 1] /\ i + 1 # 1
    BY <1>1
  <2> QED  BY <1>1, <2>1 DEF Elems, Distinct
<1>5. Head(s) \in Elems(s)
  BY <1>1 DEF Elems
<1>6. Len(s) > 1 <=> Tail(s) # <<>>
  <2>1. \A q \in Seq(Urls) : q = <<>> <=> Len(q) = 0
    OBVIOUS
  <2>2. Tail(s) = <<>> <=> Len(Tail(s)) = 0
    BY <1>1, <2>1
  <2> QED  BY <1>1, <2>2
<1> QED  BY <1>1, <1>2, <1>3, <1>4, <1>5, <1>6

LEMMA NoElems == Elems(<<>>) = {} /\ Distinct(<<>>)
  BY DEF Elems, Distinct

\* The configured lists.
LEMMA Lists ==
    \A a \in DOMAIN StaticPushOf : StaticPushOf[a] \in Seq(Urls) /\ Distinct(StaticPushOf[a])
  BY PushAssumption DEF Distinct

LEMMA ObjectsAre ==
    IsFiniteSet(Conns) /\ Cardinality(Conns) \in Nat /\ Objects = 1 .. Cardinality(Conns)
<1>1. IsFiniteSet(Conns) /\ Cardinality(Conns) = Cardinality(Loops) * Cardinality(Urls)
  BY PushAssumption, FS_Product DEF Conns
<1> QED  BY <1>1, FS_CardinalityType DEF Objects

LEMMA PendingFinite == IsFiniteSet(Pending) /\ Cardinality(Pending) \in Nat
<1>1. Pending \in SUBSET Conns
  BY DEF Pending
<1> QED  BY <1>1, ObjectsAre, FS_Subset, FS_CardinalityType

LEMMA Made ==
    ASSUME PushTyped, Counting
    PROVE  nobj <= Cardinality(Conns) /\ \A o \in 0 .. nobj : o # Nil => o \in Objects
  <1>1. nobj \in Nat /\ Cardinality(Pending) \in Nat /\ Cardinality(Conns) \in Nat
        /\ nobj + Cardinality(Pending) <= Cardinality(Conns) /\ Objects = 1 .. Cardinality(Conns)
    BY ObjectsAre, PendingFinite DEF PushTyped, Counting
  <1> QED  BY <1>1 DEF Nil

---------------------------------------------------------------------------
(* What a step leaves alone                                                *)

\* A step of loop l leaves the others alone.
Still(l) ==
    \A k \in Loops \ {l} :
        pc'[k] = pc[k] /\ todo'[k] = todo[k] /\ obj'[k] = obj[k] /\ npkt'[k] = npkt[k]

LEMMA NextUrlDoes ==
    ASSUME PushTyped, PushPlaces, NEW l \in Loops, pc[l] \in AtUrl,
           NEW first \in Places, NEW after \in Places, NextUrl(l, first, after), UNCHANGED npkt
    PROVE  /\ pc' \in [Loops -> Places] /\ todo' \in [Loops -> Seq(Urls)] /\ obj' \in [Loops -> 0 .. nobj]
           /\ pc'[l] = IF Tail(todo[l]) # <<>> THEN first ELSE after
           /\ todo'[l] = Tail(todo[l]) /\ obj'[l] = Nil /\ npkt'[l] = npkt[l] /\ Still(l)
<1>1. todo[l] \in Seq(Urls) /\ todo[l] # <<>> /\ Distinct(todo[l])
  BY DEF PushTyped, PushPlaces, LoopPlace
<1>2. Tail(todo[l]) \in Seq(Urls) /\ (Len(todo[l]) > 1 <=> Tail(todo[l]) # <<>>)
  BY <1>1, TailOf
<1>3. pc' = [pc EXCEPT ![l] = IF Tail(todo[l]) # <<>> THEN first ELSE after]
  BY <1>2 DEF NextUrl, Set
<1>4. todo' = [todo EXCEPT ![l] = Tail(todo[l])] /\ obj' = [obj EXCEPT ![l] = Nil]
  BY DEF NextUrl, Set
<1>5. Nil \in 0 .. nobj
  BY DEF PushTyped, Nil
<1>6. pc \in [Loops -> Places] /\ todo \in [Loops -> Seq(Urls)] /\ obj \in [Loops -> 0 .. nobj]
  BY DEF PushTyped
<1> QED  BY <1>2, <1>3, <1>4, <1>5, <1>6 DEF Still

\* No loop may make an object or a connection that could not before.
LEMMA CountingFalls ==
    ASSUME PushTyped, Counting, UNCHANGED nobj,
           \A k \in Loops, u \in Urls : Waits(k, u)' => Waits(k, u),
           \A k \in Loops, u \in Urls : Undialled(k, u)' => Undialled(k, u),
           \A c \in Conns : hpc'[c] # "none" => hpc[c] # "none"
    PROVE  Counting'
<1>1. Pending' \in SUBSET Pending
  BY DEF Pending, Conns
<1>2. Cardinality(Pending') <= Cardinality(Pending) /\ Cardinality(Pending') \in Nat
  BY <1>1, PendingFinite, FS_Subset, FS_CardinalityType
<1>3. nobj' + Cardinality(Pending') <= Cardinality(Conns)
  <2> HIDE DEF Pending
  <2> QED  BY <1>2, PendingFinite, ObjectsAre DEF Counting, PushTyped
<1>4. \A c \in Conns : hpc'[c] # "none" => ~Undialled(c[1], c[2])'
  BY DEF Counting, Conns
<1> QED  BY <1>3, <1>4 DEF Counting

LEMMA CountingStays ==
    ASSUME PushTyped, Counting, UNCHANGED <<nobj, hpc>>, NEW l \in Loops, Still(l),
           \A u \in Urls : Waits(l, u)' => Waits(l, u),
           \A u \in Urls : Undialled(l, u)' => Undialled(l, u)
    PROVE  Counting'
<1>1. \A k \in Loops, u \in Urls : Waits(k, u)' => Waits(k, u)
  BY DEF Still, Waits
<1>2. \A k \in Loops, u \in Urls : Undialled(k, u)' => Undialled(k, u)
  BY DEF Still, Undialled
<1> QED  BY <1>1, <1>2, CountingFalls

LEMMA PlacesStay ==
    ASSUME PushPlaces, UNCHANGED <<hpc, hobj, hpkt, open, remote>>, NEW l \in Loops, Still(l),
           listOf # Unread => listOf' = listOf, LoopPlace(l)'
    PROVE  PushPlaces'
<1>1. \A k \in Loops \ {l} : LoopPlace(k)'
  BY DEF Still, PushPlaces, LoopPlace
<1>2. \A c \in Conns : ConnPlace(c)'
  BY DEF PushPlaces, ConnPlace
<1> QED  BY <1>1, <1>2 DEF PushPlaces

LEMMA OwedStays ==
    ASSUME Owed, UNCHANGED objects, NEW l \in Loops, Still(l),
           listOf # Unread => listOf' = listOf,
           \A u \in Urls : objects[u] # Nil /\ Holds(l, u) => Holds(l, u)'
    PROVE  Owed'
<1>1. \A k \in Loops \ {l}, u \in Urls : Holds(k, u) => Holds(k, u)'
  BY DEF Still, Holds
<1> QED  BY <1>1 DEF Owed

LEMMA OwnedStays ==
    ASSUME Owned, UNCHANGED objects, NEW l \in Loops, Still(l),
           pc'[l] = "put" => \A v \in Urls : objects[v] = obj'[l] => v = Head(todo'[l])
    PROVE  Owned'
  BY DEF Owned, Still

LEMMA OneBusyStays ==
    ASSUME OneBusy, NEW l \in Loops, Still(l),
           Busy(l)' => Busy(l) \/ \A k \in Loops \ {l} : ~Busy(k)
    PROVE  OneBusy'
  BY DEF OneBusy, Still, Busy

LEMMA BelongsStays ==
    ASSUME Belongs, UNCHANGED <<hpc, hobj, open, client, objects, startflag, remote>>,
           NEW l \in Loops, Still(l), pc[l] # "flag"
    PROVE  Belongs'
  BY DEF Belongs, BelongsAt, Using, Still, Conns

LEMMA WorkingStays ==
    ASSUME Working, UNCHANGED <<hpc, hobj, open, client, objects, startflag>>,
           NEW l \in Loops, Still(l), WorkingAt(l)'
    PROVE  Working'
  BY DEF Working, WorkingAt, Using, Still

LEMMA UnfedStays ==
    ASSUME Unfed, UNCHANGED <<nobj, chan, objects, startflag>>,
           NEW l \in Loops, Still(l), pc[l] # "release", pc'[l] = "put" => startflag[obj'[l]]
    PROVE  Unfed'
  BY DEF Unfed, Dormant, Still

LEMMA RunStays ==
    ASSUME NEW c \in Conns, Run(remote[c]), UNCHANGED remote
    PROVE  Run(remote[c])'
<1>1. Run(remote'[c])
  OBVIOUS
<1> QED  BY <1>1 DEF Run

LEMMA FlowingStays ==
    ASSUME Flowing, UNCHANGED <<hpc, hobj, hpkt, open, remote, chan>>, NEW l \in Loops, Still(l),
           \A c \in Conns : Served(c) =>
               \/ Given(l, c[2])' = Given(l, c[2]) /\ pc'[l] # "put"
               \/ FedBy(c, l)'
    PROVE  Flowing'
<1>1. \A c \in Conns : Flow(c)' = Flow(c) /\ Served(c)' = Served(c)
  BY DEF Flow, Held, Served
<1>2. \A c \in Conns, k \in Loops \ {l} : FedBy(c, k) => FedBy(c, k)'
  <2> SUFFICES ASSUME NEW c \in Conns, NEW k \in Loops \ {l}, FedBy(c, k) PROVE FedBy(c, k)'
    OBVIOUS
  <2>1. Given(k, c[2])' = Given(k, c[2])
    BY DEF Given, Still
  <2>2. pc'[k] = pc[k] /\ todo'[k] = todo[k] /\ obj'[k] = obj[k] /\ hobj'[c] = hobj[c] /\ Flow(c)' = Flow(c)
    BY <1>1 DEF Still
  <2> HIDE DEF Flow
  <2> QED  BY <2>1, <2>2 DEF FedBy, Reaches
<1>3. \A c \in Conns : Served(c) => FedBy(c, l)'
  <2> SUFFICES ASSUME NEW c \in Conns, Served(c) PROVE FedBy(c, l)'
    OBVIOUS
  <2>1. FedBy(c, l) /\ Flow(c)' = Flow(c)
    BY <1>1 DEF Flowing
  <2>2. CASE Given(l, c[2])' = Given(l, c[2]) /\ pc'[l] # "put"
    <3> HIDE DEF Flow
    <3> QED  BY <2>1, <2>2 DEF FedBy, Reaches
  <2> QED  BY <2>2
<1>4. \A c \in Conns : Served(c) => Run(Flow(c))'
  <2> SUFFICES ASSUME NEW c \in Conns, Run(Flow(c)) PROVE Run(Flow(c))'
    BY DEF Flowing
  <2>1. Flow(c)' = Flow(c)
    BY <1>1
  <2> HIDE DEF Flow
  <2> QED  BY <2>1 DEF Run
<1> QED  BY <1>1, <1>2, <1>3, <1>4 DEF Flowing

\* A step of a loop that leaves the objects and the connections alone.
LEMMA QuietStep ==
    ASSUME PushInv, PushTyped', NEW l \in Loops, Still(l),
           UNCHANGED <<objects, nobj, objVars, handVars, pushCrashed>>,
           listOf # Unread => listOf' = listOf, ~overlap' => ~overlap,
           LoopPlace(l)',
           \A u \in Urls : Waits(l, u)' => Waits(l, u),
           \A u \in Urls : Undialled(l, u)' => Undialled(l, u),
           \A u \in Urls : objects[u] # Nil /\ Holds(l, u) => Holds(l, u)',
           ~overlap' => (Busy(l)' => Busy(l) \/ \A k \in Loops \ {l} : ~Busy(k)),
           pc[l] \notin {"flag", "release"},
           pc'[l] = "put" => startflag[obj'[l]] /\ \A v \in Urls : objects[v] = obj'[l] => v = Head(todo'[l]),
           ~overlap => WorkingAt(l)',
           ~overlap => \A c \in Conns : Served(c) =>
               \/ Given(l, c[2])' = Given(l, c[2]) /\ pc'[l] # "put"
               \/ FedBy(c, l)'
    PROVE  PushInv'
<1>0. PushTyped /\ PushPlaces /\ Counting /\ Owed /\ Owned
  BY DEF PushInv
<1>1. UNCHANGED <<hpc, hobj, hpkt, remote, open, client, startflag, chan, objects, nobj, pushCrashed>>
  BY DEF objVars, handVars
<1>2. PushPlaces'
  BY <1>0, <1>1, PlacesStay
<1>3. Counting'
  BY <1>0, <1>1, CountingStays
<1>4. Owed'
  BY <1>0, <1>1, OwedStays
<1>5. Owned'
  BY <1>0, <1>1, OwnedStays
<1>6. ASSUME ~overlap'
      PROVE  /\ ~pushCrashed' /\ OneBusy' /\ Belongs' /\ Working' /\ Unfed' /\ Flowing'
             /\ \A c \in Conns : Run(remote[c])'
  <2>0. /\ ~overlap /\ ~pushCrashed /\ OneBusy /\ Belongs /\ Working /\ Unfed /\ Flowing
        /\ \A c \in Conns : Run(remote[c])
    BY <1>6 DEF PushInv, Calm
  <2>1. ~pushCrashed' /\ \A c \in Conns : Run(remote[c])'
    BY <1>1, <2>0, RunStays
  <2>2. OneBusy'
    BY <1>6, <2>0, OneBusyStays
  <2>3. Belongs'
    BY <1>1, <2>0, BelongsStays
  <2>4. Working'
    BY <1>1, <2>0, WorkingStays
  <2>5. Unfed'
    BY <1>1, <2>0, UnfedStays
  <2>6. Flowing'
    BY <1>1, <2>0, FlowingStays
  <2> QED  BY <2>1, <2>2, <2>3, <2>4, <2>5, <2>6
<1>7. Calm'
  BY <1>6 DEF Calm
<1> QED  BY <1>2, <1>3, <1>4, <1>5, <1>7 DEF PushInv

---------------------------------------------------------------------------
(* Steps of a loop that leave the objects and the connections alone        *)

\* A loop that is at a URL.
LEMMA AtUrlFacts ==
    ASSUME PushTyped, PushPlaces, NEW l \in Loops, pc[l] \in AtUrl
    PROVE  /\ todo[l] \in Seq(Urls) /\ todo[l] # <<>> /\ Distinct(todo[l]) /\ Head(todo[l]) \in Urls
           /\ Tail(todo[l]) \in Seq(Urls) /\ Distinct(Tail(todo[l])) /\ Head(todo[l]) \notin Elems(Tail(todo[l]))
           /\ Elems(todo[l]) = {Head(todo[l])} \cup Elems(Tail(todo[l]))
           /\ listOf # Unread /\ Elems(todo[l]) \subseteq Elems(StaticPushOf[listOf])
<1>1. /\ todo[l] \in Seq(Urls) /\ todo[l] # <<>> /\ Distinct(todo[l])
      /\ listOf # Unread /\ Elems(todo[l]) \subseteq Elems(StaticPushOf[listOf])
  BY DEF PushTyped, PushPlaces, LoopPlace
<1> QED  BY <1>1, TailOf

LEMMA GetObjectStep == ASSUME PushInv, NEW l \in Loops, GetObject(l) PROVE PushInv'
<1> DEFINE o == objects[Head(todo[l])]
<1>0. PushTyped /\ PushPlaces /\ pc[l] = "get" /\ pc[l] \in AtUrl
  BY DEF PushInv, GetObject, At, AtUrl, Starting
<1>1. /\ UNCHANGED <<listOf, objects, nobj, objVars, handVars, overlap, pushCrashed>>
      /\ UNCHANGED <<startflag, chan, client, open, hpc, hobj, hpkt, remote, todo, npkt>>
  BY DEF GetObject, mapPVars, histPVars, objVars, handVars
<1>2. o \in 0 .. nobj
  BY <1>0, AtUrlFacts DEF PushTyped
<1>3. /\ pc'[l] = IF o = Nil THEN "create" ELSE "begin"
      /\ obj'[l] = o /\ todo'[l] = todo[l] /\ Still(l)
      /\ pc' \in [Loops -> Places] /\ obj' \in [Loops -> 0 .. nobj]
  BY <1>0, <1>1, <1>2 DEF PushTyped, GetObject, Set, Still, Places, AtUrl, Starting
<1>4. PushTyped'
  BY <1>0, <1>1, <1>3 DEF PushTyped
<1>5. LoopPlace(l)'
  BY <1>0, <1>1, <1>3, AtUrlFacts DEF LoopPlace, AtUrl, Holding, Starting
<1>6. \A u \in Urls : (Waits(l, u)' => Waits(l, u)) /\ (Undialled(l, u)' => Undialled(l, u))
  BY <1>0, <1>3, AtUrlFacts DEF Waits, Undialled
<1>7. (\A u \in Urls : Holds(l, u)') /\ (Busy(l)' => Busy(l))
  BY <1>0, <1>3 DEF Holds, Busy, Starting
<1>8. WorkingAt(l)'
  BY <1>1, <1>3 DEF WorkingAt, Holding
<1>9. \A c \in Conns : Given(l, c[2])' = Given(l, c[2]) /\ pc'[l] # "put"
  BY <1>0, <1>1, <1>3 DEF Given
<1> HIDE DEF o
<1> QED  BY <1>0, <1>1, <1>3, <1>4, <1>5, <1>6, <1>7, <1>8, <1>9, QuietStep

\* On to the next URL, or to place `after`, with nothing done.
LEMMA PassStep ==
    ASSUME PushInv, NEW l \in Loops, pc[l] \in AtUrl \ {"flag", "release"},
           NEW first, NEW after, NextUrl(l, first, after),
           UNCHANGED <<mapPVars, objVars, npkt, handVars, overlap, pushCrashed>>,
           \/ pc[l] \in Starting /\ first = "get" /\ after = "read"
           \/ pc[l] \in {"send", "put"} /\ first = "send" /\ after = "read"
           \/ pc[l] \in Stopping /\ first = "stopget" /\ after = "ended" /\ objects[Head(todo[l])] = Nil,
           ~overlap => \A c \in Conns : Served(c) =>
               Given(l, c[2])' = Given(l, c[2]) \/ FedBy(c, l)'
    PROVE  PushInv'
<1> DEFINE s == todo[l]
<1>0. PushTyped /\ PushPlaces /\ pc[l] \in AtUrl
  BY DEF PushInv
<1>1. /\ UNCHANGED <<listOf, objects, nobj, overlap, pushCrashed>>
      /\ UNCHANGED <<startflag, chan, client, open, hpc, hobj, hpkt, remote, npkt>>
  BY DEF mapPVars, objVars, handVars
<1>2. /\ first \in Places /\ after \in Places /\ first \in {"get", "send", "stopget"} /\ after \in {"read", "ended"}
  BY DEF Places, AtUrl, Starting, Stopping
<1>3. /\ pc' \in [Loops -> Places] /\ todo' \in [Loops -> Seq(Urls)] /\ obj' \in [Loops -> 0 .. nobj]
      /\ pc'[l] = IF Tail(s) # <<>> THEN first ELSE after
      /\ todo'[l] = Tail(s) /\ obj'[l] = Nil /\ npkt'[l] = npkt[l] /\ Still(l)
  BY <1>0, <1>1, <1>2, NextUrlDoes
<1>4. PushTyped'
  BY <1>0, <1>1, <1>3 DEF PushTyped
<1>5. /\ Distinct(Tail(s)) /\ Elems(Tail(s)) \subseteq Elems(s) /\ listOf # Unread
      /\ Elems(s) \subseteq Elems(StaticPushOf[listOf]) /\ Elems(s) = {Head(s)} \cup Elems(Tail(s))
      /\ (Tail(s) = <<>> => Elems(Tail(s)) = {})
  BY <1>0, AtUrlFacts, NoElems
<1>6. LoopPlace(l)'
  <2>1. pc'[l] = "send" => npkt[l] # 0
    BY <1>0, <1>2, <1>3 DEF PushPlaces, LoopPlace, Starting, Stopping
  <2> QED  BY <1>1, <1>2, <1>3, <1>5, <2>1 DEF LoopPlace, AtUrl, Holding, Starting, Stopping
<1>7. \A u \in Urls : (Waits(l, u)' => Waits(l, u)) /\ (Undialled(l, u)' => Undialled(l, u))
  BY <1>2, <1>3, <1>5 DEF Waits, Undialled, Starting, Stopping
<1>8. \A u \in Urls : objects[u] # Nil /\ Holds(l, u) => Holds(l, u)'
  BY <1>2, <1>3, <1>5 DEF Holds, Starting, Stopping
<1>9. Busy(l)' => Busy(l)
  BY <1>2, <1>3 DEF Busy, Starting, Stopping
<1>10. WorkingAt(l)' /\ pc'[l] # "put"
  BY <1>2, <1>3 DEF WorkingAt, Holding
<1>11. pc[l] \notin {"flag", "release"}
  OBVIOUS
<1> HIDE DEF s
<1> QED  BY <1>1, <1>3, <1>4, <1>6, <1>7, <1>8, <1>9, <1>10, <1>11, QuietStep

\* StartBegin of an object that is started, StartDial that fails, StopGet that
\* finds no object: the loop goes on.
LEMMA StartSkipStep ==
    ASSUME PushInv, NEW l \in Loops, pc[l] \in {"begin", "dial"}, NextUrl(l, "get", "read"),
           UNCHANGED <<mapPVars, objVars, npkt, handVars, overlap, pushCrashed>>
    PROVE  PushInv'
<1>0. PushTyped /\ PushPlaces /\ pc[l] \in AtUrl
  BY DEF PushInv, AtUrl, Starting
<1>1. pc'[l] \in {"get", "read"}
  BY <1>0, NextUrlDoes DEF Places, AtUrl, Starting
<1>2. \A c \in Conns : Given(l, c[2])' = Given(l, c[2])
  BY <1>1 DEF Given
<1> QED  BY <1>0, <1>2, PassStep DEF Starting

LEMMA StopGetStep == ASSUME PushInv, NEW l \in Loops, StopGet(l) PROVE PushInv'
<1> DEFINE o == objects[Head(todo[l])]
<1>0. PushTyped /\ PushPlaces /\ pc[l] = "stopget" /\ pc[l] \in AtUrl
  BY DEF PushInv, StopGet, At, AtUrl, Stopping
<1>1. /\ UNCHANGED <<mapPVars, objVars, npkt, handVars, overlap, pushCrashed>>
      /\ UNCHANGED <<listOf, objects, nobj, startflag, chan, client, open, hpc, hobj, hpkt, remote>>
  BY DEF StopGet, mapPVars, histPVars, objVars, handVars
<1>2. o \in 0 .. nobj
  BY <1>0, AtUrlFacts DEF PushTyped
<1>3. CASE o = Nil /\ NextUrl(l, "stopget", "ended")
  <2>1. pc'[l] \in {"stopget", "ended"}
    BY <1>0, <1>1, <1>3, NextUrlDoes DEF Places, AtUrl, Stopping
  <2>2. \A c \in Conns : Given(l, c[2])' = Given(l, c[2])
    BY <1>0, <1>1, <2>1 DEF Given
  <2> QED  BY <1>0, <1>1, <1>3, <2>2, PassStep DEF Stopping
<1>4. CASE o # Nil /\ obj' = Set(obj, l, o) /\ UNCHANGED todo
           /\ pc' = Set(pc, l, IF startflag[o] THEN "ctrl" ELSE "release")
  <2>1. /\ pc'[l] = IF startflag[o] THEN "ctrl" ELSE "release"
        /\ obj'[l] = o /\ todo'[l] = todo[l] /\ Still(l)
        /\ pc' \in [Loops -> Places] /\ obj' \in [Loops -> 0 .. nobj]
    BY <1>0, <1>1, <1>2, <1>4 DEF PushTyped, Set, Still, Places, AtUrl, Stopping
  <2>2. PushTyped'
    BY <1>0, <1>1, <1>4, <2>1 DEF PushTyped
  <2>3. LoopPlace(l)'
    BY <1>0, <1>1, <1>4, <2>1, AtUrlFacts DEF LoopPlace, AtUrl, Holding, Stopping
  <2>4. \A u \in Urls : (Waits(l, u)' => Waits(l, u)) /\ (Undialled(l, u)' => Undialled(l, u))
    BY <2>1 DEF Waits, Undialled
  <2>5. \A u \in Urls : Holds(l, u) => Holds(l, u)'
    BY <1>0, <2>1 DEF Holds, Starting, Stopping
  <2>6. (Busy(l)' => Busy(l)) /\ WorkingAt(l)' /\ pc'[l] # "put"
    BY <1>0, <1>1, <2>1 DEF Busy, WorkingAt, Holding, Stopping
  <2>7. \A c \in Conns : Given(l, c[2])' = Given(l, c[2])
    BY <1>0, <1>1, <2>1 DEF Given
  <2> HIDE DEF o
  <2> QED  BY <1>0, <1>1, <2>1, <2>2, <2>3, <2>4, <2>5, <2>6, <2>7, QuietStep
<1> QED  BY <1>3, <1>4 DEF StopGet

\* A connection that is served and whose object is not started yet has
\* carried nothing.
LEMMA StartingCarriesNothing ==
    ASSUME PushInv, ~overlap, NEW c \in Conns, Served(c), ~startflag[hobj[c]]
    PROVE  Flow(c) = <<>>
<1>0. PushTyped /\ PushPlaces /\ Counting /\ OneBusy /\ Belongs /\ Unfed
  BY DEF PushInv, Calm
<1>1. /\ objects[c[2]] = hobj[c] /\ pc[c[1]] = "flag" /\ obj[c[1]] = hobj[c]
      /\ hpc[c] \in {"check", "done"} /\ remote[c] = <<>> /\ c[1] \in Loops /\ c[2] \in Urls
  BY <1>0 DEF Belongs, BelongsAt, Using, Served, Conns
<1>2. hpkt[c] = NoPkt /\ hobj[c] # Nil /\ hobj[c] \in 0 .. nobj
  BY <1>0, <1>1 DEF PushPlaces, ConnPlace, Served, Handling, PushTyped
<1>3. hobj[c] \in Objects
  BY <1>0, <1>2, Made
<1>4. \A l \in Loops : ~(pc[l] = "release" /\ obj[l] = hobj[c])
  BY <1>0, <1>1 DEF OneBusy, Busy, Starting, Stopping
<1>5. Dormant(hobj[c])
  BY <1>1, <1>2, <1>4 DEF Dormant
<1>6. chan[hobj[c]] = <<>>
  BY <1>0, <1>3, <1>5 DEF Unfed
<1>7. (<<>> \o <<>>) \o <<>> = <<>>
  OBVIOUS
<1> QED  BY <1>1, <1>2, <1>6, <1>7 DEF Flow, Held

\* Packets that are not there are in order.
LEMMA NothingFlows ==
    ASSUME NEW c, NEW l, Flow(c)' = <<>>
    PROVE  FedBy(c, l)' /\ Run(Flow(c))'
<1>1. DOMAIN Flow(c)' = {}
  OBVIOUS
<1> HIDE DEF Flow
<1> QED  BY <1>1 DEF FedBy, Reaches, Run

\* What a loop has given so far, when the rest of its URLs shrinks by one.
LEMMA GivenNext ==
    ASSUME PushInv, NEW l \in Loops, pc[l] \in {"send", "put"}, NextUrl(l, "send", "read"), UNCHANGED npkt
    PROVE  \A u \in Urls \ {Head(todo[l])} : Given(l, u)' = Given(l, u)
<1>0. PushTyped /\ PushPlaces /\ pc[l] \in AtUrl
  BY DEF PushInv, AtUrl
<1>1. /\ pc'[l] = IF Tail(todo[l]) # <<>> THEN "send" ELSE "read"
      /\ todo'[l] = Tail(todo[l]) /\ npkt'[l] = npkt[l]
  BY <1>0, NextUrlDoes DEF Places, AtUrl
<1>2. /\ Elems(todo[l]) = {Head(todo[l])} \cup Elems(Tail(todo[l]))
      /\ (Tail(todo[l]) = <<>> => Elems(Tail(todo[l])) = {})
  BY <1>0, AtUrlFacts, NoElems
<1> QED  BY <1>1, <1>2 DEF Given

LEMMA SendStep == ASSUME PushInv, NEW l \in Loops, SendStaticPush(l) PROVE PushInv'
<1> DEFINE o == objects[Head(todo[l])]
<1>0. PushTyped /\ PushPlaces /\ Owned /\ pc[l] = "send" /\ pc[l] \in AtUrl
  BY DEF PushInv, SendStaticPush, At, AtUrl
<1>1. /\ UNCHANGED <<mapPVars, objVars, npkt, handVars, overlap, pushCrashed>>
      /\ UNCHANGED <<listOf, objects, nobj, startflag, chan, client, open, hpc, hobj, hpkt, remote>>
  BY DEF SendStaticPush, mapPVars, histPVars, objVars, handVars
<1>2. o \in 0 .. nobj /\ Head(todo[l]) \in Urls
  BY <1>0, AtUrlFacts DEF PushTyped
<1>f. \A c \in Conns : Flow(c)' = Flow(c)
  BY <1>1 DEF Flow, Held
<1>b. ~overlap => \A c \in Conns : Served(c) => objects[c[2]] = hobj[c] /\ FedBy(c, l)
  BY DEF PushInv, Calm, Belongs, BelongsAt, Using, Served, Flowing
<1>3. CASE ~(o # Nil /\ startflag[o]) /\ NextUrl(l, "send", "read")
  <2>1. ASSUME ~overlap, NEW c \in Conns, Served(c) PROVE Given(l, c[2])' = Given(l, c[2]) \/ FedBy(c, l)'
    <3>1. CASE c[2] # Head(todo[l])
      BY <1>0, <1>1, <1>3, <3>1, GivenNext DEF Conns
    <3>2. CASE c[2] = Head(todo[l])
      <4>1. hobj[c] = o /\ hobj[c] # Nil
        BY <1>0, <1>b, <2>1, <3>2 DEF PushPlaces, ConnPlace, Served, Handling
      <4>2. Flow(c) = <<>>
        BY <1>3, <2>1, <4>1, StartingCarriesNothing
      <4> QED  BY <1>f, <4>2, NothingFlows
    <3> QED  BY <3>1, <3>2
  <2> QED  BY <1>0, <1>1, <1>3, <2>1, PassStep
<1>4. CASE o # Nil /\ startflag[o] /\ obj' = Set(obj, l, o) /\ pc' = Set(pc, l, "put") /\ UNCHANGED todo
  <2>1. /\ pc'[l] = "put" /\ obj'[l] = o /\ todo'[l] = todo[l] /\ npkt'[l] = npkt[l] /\ Still(l)
        /\ pc' \in [Loops -> Places] /\ obj' \in [Loops -> 0 .. nobj]
    BY <1>0, <1>1, <1>2, <1>4 DEF PushTyped, Set, Still, Places, AtUrl
  <2>2. PushTyped'
    BY <1>0, <1>1, <1>4, <2>1 DEF PushTyped
  <2>3. LoopPlace(l)'
    BY <1>0, <1>1, <1>4, <2>1, AtUrlFacts DEF LoopPlace, AtUrl, Holding, PushPlaces
  <2>4. \A u \in Urls : (Waits(l, u)' => Waits(l, u)) /\ (Undialled(l, u)' => Undialled(l, u)) /\ Holds(l, u)'
    BY <2>1 DEF Waits, Undialled, Holds
  <2>5. ~Busy(l)' /\ WorkingAt(l)'
    BY <2>1 DEF Busy, WorkingAt, Holding, Starting, Stopping
  <2>6. startflag[obj'[l]] /\ \A v \in Urls : objects[v] = obj'[l] => v = Head(todo'[l])
    BY <1>0, <1>2, <1>4, <2>1 DEF Owned
  <2>7. ASSUME ~overlap, NEW c \in Conns, Served(c) PROVE FedBy(c, l)'
    <3>1. Given(l, c[2])' = Given(l, c[2])
      BY <1>0, <2>1 DEF Given
    <3>2. Flow(c)' = Flow(c) /\ FedBy(c, l) /\ objects[c[2]] = hobj[c] /\ hobj'[c] = hobj[c]
      BY <1>1, <1>b, <1>f, <2>7
    <3> HIDE DEF Flow
    <3> QED  BY <2>1, <3>1, <3>2 DEF FedBy, Reaches
  <2> HIDE DEF o
  <2> QED  BY <1>0, <1>1, <2>1, <2>2, <2>3, <2>4, <2>5, <2>6, <2>7, QuietStep
<1> QED  BY <1>3, <1>4 DEF SendStaticPush

\* A loop over the list of URLs begins.
LEMMA BeginDoes ==
    ASSUME PushTyped, NEW l \in Loops, NEW first \in Places, NEW none \in Places, BeginUrls(l, first, none)
    PROVE  /\ listOf' \in DOMAIN StaticPushOf /\ (listOf # Unread => listOf' = listOf) /\ listOf' # Unread
           /\ todo' = [todo EXCEPT ![l] = StaticPushOf[listOf']] /\ todo' \in [Loops -> Seq(Urls)]
           /\ pc' = [pc EXCEPT ![l] = IF StaticPushOf[listOf'] = <<>> THEN none ELSE first]
           /\ pc' \in [Loops -> Places]
           /\ StaticPushOf[listOf'] \in Seq(Urls) /\ Distinct(StaticPushOf[listOf'])
<1>1. /\ listOf' = GetStaticPushList(App[l]) /\ todo' = [todo EXCEPT ![l] = StaticPushOf[listOf']]
      /\ pc' = [pc EXCEPT ![l] = IF StaticPushOf[listOf'] = <<>> THEN none ELSE first]
  BY DEF BeginUrls, Set
<1>2. listOf' \in DOMAIN StaticPushOf /\ (listOf # Unread => listOf' = listOf) /\ listOf' # Unread
  <2>1. /\ listOf \in DOMAIN StaticPushOf \cup {Unread} /\ App[l] \in DOMAIN StaticPushOf
        /\ Unread \notin DOMAIN StaticPushOf
    BY PushAssumption DEF PushTyped
  <2> QED  BY <1>1, <2>1 DEF GetStaticPushList
<1>3. StaticPushOf[listOf'] \in Seq(Urls) /\ Distinct(StaticPushOf[listOf'])
  BY <1>2, Lists
<1> QED  BY <1>1, <1>2, <1>3 DEF PushTyped

LEMMA StartStep == ASSUME PushInv, NEW l \in Loops, StartStaticPush(l) PROVE PushInv'
<1> DEFINE s == StaticPushOf[listOf']
<1>0. PushTyped /\ PushPlaces /\ pc[l] = "idle" /\ BeginUrls(l, "get", "read")
  BY DEF PushInv, StartStaticPush, At
<1>1. /\ UNCHANGED <<objects, nobj, objVars, handVars, pushCrashed>>
      /\ UNCHANGED <<startflag, chan, client, open, hpc, hobj, hpkt, remote, obj, npkt>>
      /\ overlap' = (overlap \/ Others(l, Starting \cup Stopping))
  BY DEF StartStaticPush, objVars, handVars
<1>2. /\ listOf' \in DOMAIN StaticPushOf /\ (listOf # Unread => listOf' = listOf) /\ listOf' # Unread
      /\ todo' = [todo EXCEPT ![l] = s] /\ todo' \in [Loops -> Seq(Urls)]
      /\ pc' = [pc EXCEPT ![l] = IF s = <<>> THEN "read" ELSE "get"]
      /\ pc' \in [Loops -> Places] /\ s \in Seq(Urls) /\ Distinct(s)
  BY <1>0, BeginDoes DEF Places, AtUrl, Starting
<1> HIDE DEF s
<1>3. pc'[l] = (IF s = <<>> THEN "read" ELSE "get") /\ todo'[l] = s /\ npkt'[l] = npkt[l] /\ Still(l)
  BY <1>0, <1>1, <1>2 DEF PushTyped, Still
<1>4. PushTyped'
  BY <1>0, <1>1, <1>2 DEF PushTyped
<1>5. LoopPlace(l)'
  <2>1. pc'[l] \notin Holding \cup {"send", "put"} /\ (pc'[l] \in AtUrl => s # <<>>)
    BY <1>3 DEF Holding, AtUrl, Starting, Stopping
  <2>2. Elems(todo'[l]) = Elems(StaticPushOf[listOf'])
    BY <1>3 DEF s
  <2> QED  BY <1>2, <1>3, <2>1, <2>2 DEF LoopPlace
<1>6. \A u \in Urls : Waits(l, u) /\ Undialled(l, u) /\ Holds(l, u)'
  BY <1>0, <1>3 DEF Waits, Undialled, Holds, Starting
<1>7. ~overlap' => ~overlap /\ \A k \in Loops \ {l} : ~Busy(k)
  BY <1>1 DEF Busy, Others
<1>8. WorkingAt(l)' /\ pc'[l] # "put"
  BY <1>3 DEF WorkingAt, Holding
<1>9. \A c \in Conns : Given(l, c[2])' = Given(l, c[2])
  BY <1>0, <1>3 DEF Given
<1> QED  BY <1>0, <1>1, <1>2, <1>3, <1>4, <1>5, <1>6, <1>7, <1>8, <1>9, QuietStep

LEMMA StopStep == ASSUME PushInv, NEW l \in Loops, StopStaticPush(l) PROVE PushInv'
<1> DEFINE s == StaticPushOf[listOf']
<1>0. PushTyped /\ PushPlaces /\ Owed /\ pc[l] = "read" /\ BeginUrls(l, "stopget", "ended")
  BY DEF PushInv, StopStaticPush, At
<1>1. /\ UNCHANGED <<objects, nobj, objVars, handVars, pushCrashed>>
      /\ UNCHANGED <<startflag, chan, client, open, hpc, hobj, hpkt, remote, obj, npkt>>
      /\ overlap' = (overlap \/ Others(l, Starting \cup Stopping))
  BY DEF StopStaticPush, objVars, handVars
<1>2. /\ listOf' \in DOMAIN StaticPushOf /\ (listOf # Unread => listOf' = listOf) /\ listOf' # Unread
      /\ todo' = [todo EXCEPT ![l] = s] /\ todo' \in [Loops -> Seq(Urls)]
      /\ pc' = [pc EXCEPT ![l] = IF s = <<>> THEN "ended" ELSE "stopget"]
      /\ pc' \in [Loops -> Places] /\ s \in Seq(Urls) /\ Distinct(s)
  BY <1>0, BeginDoes DEF Places, AtUrl, Stopping
<1>a. \A u \in Urls : objects[u] # Nil => u \in Elems(s) /\ s # <<>>
  BY <1>0, <1>2, NoElems DEF Owed
<1>b. Elems(StaticPushOf[listOf']) = Elems(s)
  OBVIOUS
<1> HIDE DEF s
<1>3. pc'[l] = (IF s = <<>> THEN "ended" ELSE "stopget") /\ todo'[l] = s /\ npkt'[l] = npkt[l] /\ Still(l)
  BY <1>0, <1>1, <1>2 DEF PushTyped, Still
<1>4. PushTyped'
  BY <1>0, <1>1, <1>2 DEF PushTyped
<1>5. LoopPlace(l)'
  <2>1. pc'[l] \notin Holding \cup {"send", "put"} /\ (pc'[l] \in AtUrl => s # <<>>)
    BY <1>3 DEF Holding, AtUrl, Starting, Stopping
  <2> QED  BY <1>2, <1>3, <1>b, <2>1 DEF LoopPlace
<1>6. \A u \in Urls : ~Waits(l, u)' /\ ~Undialled(l, u)' /\ (objects[u] # Nil => Holds(l, u)')
  BY <1>3, <1>a DEF Waits, Undialled, Holds, Stopping
<1>7. ~overlap' => ~overlap /\ \A k \in Loops \ {l} : ~Busy(k)
  BY <1>1 DEF Busy, Others
<1>8. WorkingAt(l)' /\ pc'[l] # "put"
  BY <1>3 DEF WorkingAt, Holding
<1>9. \A c \in Conns : Given(l, c[2])' = Given(l, c[2])
  BY <1>0, <1>3 DEF Given
<1> QED  BY <1>0, <1>1, <1>2, <1>3, <1>4, <1>5, <1>6, <1>7, <1>8, <1>9, QuietStep

LEMMA ReadStep == ASSUME PushInv, NEW l \in Loops, ReadPkt(l) PROVE PushInv'
<1> DEFINE s == StaticPushOf[listOf']
<1>0. /\ PushTyped /\ PushPlaces /\ Owed /\ pc[l] = "read" /\ npkt[l] < MaxPackets
      /\ BeginUrls(l, "send", "read")
  BY DEF PushInv, ReadPkt, At
<1>1. /\ UNCHANGED <<objects, nobj, objVars, handVars, pushCrashed, overlap>>
      /\ UNCHANGED <<startflag, chan, client, open, hpc, hobj, hpkt, remote, obj>>
      /\ npkt' = [npkt EXCEPT ![l] = npkt[l] + 1]
  BY DEF ReadPkt, objVars, handVars, histPVars, Set
<1>2. /\ listOf' \in DOMAIN StaticPushOf /\ (listOf # Unread => listOf' = listOf) /\ listOf' # Unread
      /\ todo' = [todo EXCEPT ![l] = s] /\ todo' \in [Loops -> Seq(Urls)]
      /\ pc' = [pc EXCEPT ![l] = IF s = <<>> THEN "read" ELSE "send"]
      /\ pc' \in [Loops -> Places] /\ s \in Seq(Urls) /\ Distinct(s)
  BY <1>0, BeginDoes DEF Places, AtUrl
<1>a. \A u \in Urls : objects[u] # Nil => u \in Elems(s) /\ s # <<>>
  BY <1>0, <1>2, NoElems DEF Owed
<1>b. Elems(StaticPushOf[listOf']) = Elems(s)
  OBVIOUS
<1> HIDE DEF s
<1>n. npkt[l] \in Nat /\ npkt[l] + 1 \in 0 .. MaxPackets /\ npkt[l] + 1 # 0 /\ (npkt[l] + 1) - 1 = npkt[l]
  BY <1>0, PushAssumption DEF PushTyped
<1>3. /\ pc'[l] = (IF s = <<>> THEN "read" ELSE "send") /\ todo'[l] = s
      /\ npkt'[l] = npkt[l] + 1 /\ Still(l) /\ npkt' \in [Loops -> 0 .. MaxPackets]
  BY <1>0, <1>1, <1>2, <1>n DEF PushTyped, Still
<1>4. PushTyped'
  BY <1>0, <1>1, <1>2, <1>3 DEF PushTyped
<1>5. LoopPlace(l)'
  <2>1. pc'[l] \notin Holding /\ (pc'[l] \in AtUrl => s # <<>>)
    BY <1>3 DEF Holding, AtUrl, Starting, Stopping
  <2> QED  BY <1>2, <1>3, <1>b, <1>n, <2>1 DEF LoopPlace
<1>6. \A u \in Urls : ~Waits(l, u)' /\ ~Undialled(l, u)' /\ Holds(l, u)'
  BY <1>3 DEF Waits, Undialled, Holds
<1>7. ~Busy(l)'
  BY <1>3 DEF Busy, Starting, Stopping
<1>8. WorkingAt(l)' /\ pc'[l] # "put"
  BY <1>3 DEF WorkingAt, Holding
<1>9. ASSUME ~overlap, NEW c \in Conns, Served(c) PROVE Given(l, c[2])' = Given(l, c[2])
  <2>1. c[2] \in Urls /\ objects[c[2]] = hobj[c] /\ hobj[c] # Nil
    BY <1>0, <1>9 DEF PushInv, Calm, Belongs, BelongsAt, Using, Served, Handling, PushPlaces, ConnPlace, Conns
  <2>2. c[2] \in Elems(s) /\ s # <<>>
    BY <1>a, <2>1
  <2> QED  BY <1>0, <1>3, <1>n, <2>2 DEF Given
<1> QED  BY <1>0, <1>1, <1>2, <1>3, <1>4, <1>5, <1>6, <1>7, <1>8, <1>9, QuietStep

---------------------------------------------------------------------------
(* Steps of Start and Stop                                                 *)

\* The parts of Calm.
Safe ==
    /\ ~pushCrashed /\ OneBusy /\ Belongs /\ Working /\ Unfed /\ Flowing
    /\ \A c \in Conns : Run(remote[c])

LEMMA CalmIs == (Calm <=> (~overlap => Safe)) /\ (Calm' <=> (~overlap' => Safe'))
  BY DEF Calm, Safe

\* While one loop starts or stops the others do not.
LEMMA OnlyWorker ==
    ASSUME OneBusy, NEW l \in Loops, Busy(l), Still(l), WorkingAt(l)'
    PROVE  Working' /\ OneBusy'
<1>1. \A k \in Loops \ {l} : ~Busy(k)'
  BY DEF OneBusy, Busy, Still
<1>2. \A k \in Loops \ {l} : WorkingAt(k)'
  BY <1>1 DEF WorkingAt, Busy, Starting, Stopping, Holding
<1>3. Working'
  BY <1>2 DEF Working
<1>4. OneBusy'
  BY <1>1 DEF OneBusy
<1> QED  BY <1>3, <1>4

\* Nothing of a loop that starts or stops counts as given.
LEMMA BusyGives ==
    ASSUME Flowing, UNCHANGED <<hpc, hobj, hpkt, open, remote, chan>>, NEW l \in Loops, Still(l),
           Busy(l), pc'[l] \notin {"send", "put"}, npkt'[l] = npkt[l]
    PROVE  Flowing'
<1>1. \A c \in Conns : Given(l, c[2])' = Given(l, c[2]) /\ pc'[l] # "put"
  BY DEF Given, Busy, Starting, Stopping
<1> QED  BY <1>1, FlowingStays

\* A loop feeds a connection as before if neither of them has moved.
LEMMA FedByStays ==
    ASSUME NEW c, NEW k, FedBy(c, k), Flow(c)' = Flow(c), hobj'[c] = hobj[c],
           Given(k, c[2])' = Given(k, c[2]),
           pc'[k] = "put" => pc[k] = "put" /\ todo'[k] = todo[k] /\ obj'[k] = obj[k]
    PROVE  FedBy(c, k)'
<1> HIDE DEF Flow, Given
<1> QED  BY DEF FedBy, Reaches

LEMMA RunOfFlow ==
    ASSUME NEW c, Run(Flow(c)), Flow(c)' = Flow(c)
    PROVE  Run(Flow(c))'
<1> HIDE DEF Flow
<1> QED  BY DEF Run

\* A step that gives nobody a packet and changes no flow, except that a
\* connection with no packets yet may be made.
LEMMA FlowingHolds ==
    ASSUME Flowing,
           \A c \in Conns : Served(c)' =>
               Flow(c)' = <<>> \/ (Served(c) /\ Flow(c)' = Flow(c) /\ hobj'[c] = hobj[c]),
           \A k \in Loops, u \in Urls : Given(k, u)' = Given(k, u),
           \A k \in Loops : pc'[k] = "put" => pc[k] = "put" /\ todo'[k] = todo[k] /\ obj'[k] = obj[k]
    PROVE  Flowing'
<1> SUFFICES ASSUME NEW c \in Conns, Served(c)' PROVE Run(Flow(c))' /\ \A k \in Loops : FedBy(c, k)'
  BY DEF Flowing
<1>1. CASE Flow(c)' = <<>>
  <2>1. \A k \in Loops : FedBy(c, k)' /\ Run(Flow(c))'
    BY <1>1, NothingFlows
  <2>2. Run(Flow(c))'
    <3>1. DOMAIN Flow(c)' = {}
      BY <1>1
    <3> HIDE DEF Flow
    <3> QED  BY <3>1 DEF Run
  <2> QED  BY <2>1, <2>2
<1>2. CASE Served(c) /\ Flow(c)' = Flow(c) /\ hobj'[c] = hobj[c]
  <2>1. Run(Flow(c)) /\ \A k \in Loops : FedBy(c, k)
    BY <1>2 DEF Flowing
  <2>2. Run(Flow(c))'
    BY <1>2, <2>1, RunOfFlow
  <2>3. c[2] \in Urls
    BY DEF Conns
  <2>4. \A k \in Loops : FedBy(c, k)'
    BY <1>2, <2>1, <2>3, FedByStays
  <2> QED  BY <2>2, <2>4
<1> QED  BY <1>1, <1>2

LEMMA CreateStep == ASSUME PushInv, NEW l \in Loops, CreateObject(l) PROVE PushInv'
<1> DEFINE u0 == Head(todo[l])
           c0 == <<l, u0>>
<1>0. PushTyped /\ PushPlaces /\ Counting /\ Owed /\ Owned /\ pc[l] = "create" /\ pc[l] \in AtUrl /\ Busy(l)
  BY DEF PushInv, CreateObject, At, AtUrl, Starting, Busy
<1>1. /\ UNCHANGED <<listOf, overlap, pushCrashed>>
      /\ UNCHANGED <<startflag, chan, client, open, hpc, hobj, hpkt, remote, todo, npkt>>
      /\ nobj' = nobj + 1 /\ objects' = [objects EXCEPT ![u0] = nobj + 1]
      /\ obj' = [obj EXCEPT ![l] = nobj + 1] /\ pc' = [pc EXCEPT ![l] = "begin"]
  BY DEF CreateObject, histPVars, objVars, handVars, Set
<1>2. /\ u0 \in Urls /\ u0 \in Elems(todo[l]) /\ u0 \notin Elems(Tail(todo[l]))
      /\ Elems(Tail(todo[l])) \subseteq Elems(todo[l])
      /\ listOf # Unread /\ u0 \in Elems(StaticPushOf[listOf])
  BY <1>0, AtUrlFacts
<1>3. nobj \in Nat /\ \A x \in 0 .. nobj : x \in 0 .. nobj + 1 /\ x # nobj + 1
  BY <1>0 DEF PushTyped
<1>4. pc'[l] = "begin" /\ todo'[l] = todo[l] /\ obj'[l] = nobj + 1 /\ npkt'[l] = npkt[l] /\ Still(l)
  BY <1>0, <1>1 DEF PushTyped, Still
<1>5. /\ objects' \in [Urls -> 0 .. nobj'] /\ obj' \in [Loops -> 0 .. nobj'] /\ hobj' \in [Conns -> 0 .. nobj']
      /\ \A u \in Urls \ {u0} : objects'[u] = objects[u]
      /\ objects'[u0] = nobj + 1
  <2> HIDE DEF u0
  <2> QED  BY <1>0, <1>1, <1>2, <1>3 DEF PushTyped
<1> HIDE DEF u0
<1>6. PushTyped'
  <2>1. pc' \in [Loops -> Places] /\ nobj' \in Nat
    BY <1>0, <1>1, <1>3 DEF PushTyped, Places, AtUrl, Starting
  <2> QED  BY <1>0, <1>1, <1>5, <2>1 DEF PushTyped
<1>7. PushPlaces'
  <2>1. LoopPlace(l)'
    BY <1>0, <1>1, <1>3, <1>4, AtUrlFacts DEF LoopPlace, AtUrl, Holding, Starting, Nil
  <2> QED  BY <1>0, <1>1, <1>4, <2>1, PlacesStay
<1>8. Counting' /\ nobj + 1 \in Objects
  <2>1. \A k \in Loops, u \in Urls : Waits(k, u)' => Waits(k, u) /\ (k # l \/ u # u0)
    BY <1>0, <1>2, <1>4 DEF Waits, Still
  <2>2. c0 \in Pending
    BY <1>0, <1>2 DEF Pending, Waits, Conns
  <2>3. Pending' \in SUBSET (Pending \ {c0})
    BY <2>1 DEF Pending, Conns
  <2>4. IsFiniteSet(Pending \ {c0}) /\ Cardinality(Pending \ {c0}) = Cardinality(Pending) - 1
    BY <2>2, PendingFinite, FS_RemoveElement
  <2>5. Cardinality(Pending') <= Cardinality(Pending) - 1 /\ Cardinality(Pending') \in Nat
    BY <2>3, <2>4, FS_Subset, FS_CardinalityType
  <2>6. nobj + Cardinality(Pending) <= Cardinality(Conns)
    BY <1>0 DEF Counting
  <2>7. nobj' + Cardinality(Pending') <= Cardinality(Conns) /\ nobj + 1 <= Cardinality(Conns)
    <3> HIDE DEF Pending
    <3> QED  BY <1>1, <1>3, <2>5, <2>6, PendingFinite, ObjectsAre
  <2>8. \A k \in Loops, u \in Urls : Undialled(k, u)' => Undialled(k, u)
    BY <1>0, <1>4 DEF Undialled, Still
  <2>9. \A c \in Conns : hpc'[c] # "none" => ~Undialled(c[1], c[2])'
    BY <1>0, <1>1, <2>8 DEF Counting, Conns
  <2> QED  BY <1>3, <2>7, <2>9, ObjectsAre DEF Counting
<1>9. Owed'
  <2>1. \A k \in Loops, u \in Urls : Holds(k, u) => Holds(k, u)'
    BY <1>0, <1>4 DEF Holds, Still, Starting, Stopping
  <2>2. \A u \in Urls : Holds(l, u)'
    BY <1>4 DEF Holds, Starting
  <2> QED  BY <1>0, <1>1, <1>2, <1>5, <2>1, <2>2 DEF Owed
<1>10. Owned'
  <2>1. \A u \in Urls : objects[u] # nobj + 1
    BY <1>0, <1>3 DEF PushTyped
  <2>2. \A k \in Loops \ {l} : obj'[k] # nobj + 1 /\ pc'[k] = pc[k] /\ obj'[k] = obj[k] /\ todo'[k] = todo[k]
    BY <1>0, <1>3, <1>4 DEF PushTyped, Still
  <2> QED  BY <1>0, <1>4, <1>5, <2>1, <2>2 DEF Owned
<1>11. ASSUME ~overlap' PROVE Safe'
  <2>0. ~overlap /\ Safe /\ OneBusy /\ Belongs /\ Working /\ Unfed /\ Flowing
    BY <1>1, <1>11, CalmIs DEF PushInv, Safe
  <2>1. WorkingAt(l)'
    BY <1>4, <1>5 DEF WorkingAt, Holding, u0
  <2>2. Working' /\ OneBusy'
    BY <1>0, <1>4, <2>0, <2>1, OnlyWorker
  <2>3. Belongs'
    <3>1. objects[u0] = Nil
      BY <1>0, <2>0 DEF Working, WorkingAt, u0
    <3>2. \A c \in Conns : Using(c) => c[1] \in Loops /\ c[2] \in Urls /\ hobj[c] # Nil
      BY <1>0 DEF PushPlaces, ConnPlace, Using, Handling, Conns
    <3>3. \A c \in Conns : Using(c) => objects'[c[2]] = objects[c[2]]
      <4> SUFFICES ASSUME NEW c \in Conns, Using(c) PROVE objects'[c[2]] = objects[c[2]]
        OBVIOUS
      <4>1. objects[c[2]] # Nil /\ c[2] \in Urls
        BY <2>0, <3>2 DEF Belongs, BelongsAt
      <4>2. c[2] \in Urls \ {u0}
        BY <3>1, <4>1
      <4> QED  BY <1>5, <4>2
    <3> QED  BY <1>0, <1>1, <1>4, <2>0, <3>2, <3>3 DEF Belongs, BelongsAt, Using, Still
  <2>4. Unfed'
    <3>1. \A o \in Objects : o > nobj' => chan'[o] = <<>>
      <4> SUFFICES ASSUME NEW o \in Objects, o > nobj' PROVE chan'[o] = <<>>
        OBVIOUS
      <4>1. o > nobj
        BY <1>1, <1>3, ObjectsAre
      <4> QED  BY <1>1, <2>0, <4>1 DEF Unfed
    <3>2. ASSUME NEW o \in Objects, Dormant(o)'
          PROVE  chan'[o] = <<>> /\ \A k \in Loops : ~(pc'[k] = "put" /\ obj'[k] = o)
      <4>1. CASE o = nobj + 1
        <5>1. chan'[o] = <<>>
          BY <1>1, <1>3, <2>0, <4>1 DEF Unfed
        <5>2. \A k \in Loops : ~(pc'[k] = "put" /\ obj'[k] = o)
          BY <1>0, <1>3, <1>4, <4>1 DEF PushTyped, Still
        <5> QED  BY <5>1, <5>2
      <4>2. CASE o # nobj + 1
        <5>1. Dormant(o)
          BY <1>0, <1>1, <1>4, <1>5, <3>2, <4>2 DEF Dormant, Still
        <5> QED  BY <1>1, <1>4, <2>0, <5>1 DEF Unfed, Still
      <4> QED  BY <4>1, <4>2
    <3> QED  BY <3>1, <3>2 DEF Unfed
  <2>5. Flowing'
    BY <1>0, <1>1, <1>4, <2>0, BusyGives
  <2>6. ~pushCrashed' /\ \A c \in Conns : Run(remote[c])'
    BY <1>1, <2>0, RunStays DEF Safe
  <2> QED  BY <2>2, <2>3, <2>4, <2>5, <2>6 DEF Safe
<1> QED  BY <1>6, <1>7, <1>8, <1>9, <1>10, <1>11, CalmIs DEF PushInv

LEMMA StartBeginStep == ASSUME PushInv, NEW l \in Loops, StartBegin(l) PROVE PushInv'
<1>0. PushTyped /\ PushPlaces /\ Counting /\ Owed /\ Owned /\ pc[l] = "begin" /\ pc[l] \in AtUrl /\ Busy(l)
  BY DEF PushInv, StartBegin, At, AtUrl, Starting, Busy
<1>1. /\ UNCHANGED <<mapPVars, startflag, chan, open, npkt, handVars, overlap, pushCrashed>>
      /\ UNCHANGED <<listOf, objects, nobj, hpc, hobj, hpkt, remote>>
  BY DEF StartBegin, mapPVars, histPVars, handVars
<1>2. CASE NextUrl(l, "get", "read") /\ UNCHANGED client
  BY <1>0, <1>1, <1>2, StartSkipStep DEF objVars
<1>3. CASE /\ ~startflag[obj[l]] /\ UNCHANGED <<todo, obj>>
           /\ client' = [client EXCEPT ![obj[l]] = <<l, Head(todo[l])>>] /\ pc' = [pc EXCEPT ![l] = "dial"]
  <2>1. pc'[l] = "dial" /\ todo'[l] = todo[l] /\ obj'[l] = obj[l] /\ npkt'[l] = npkt[l] /\ Still(l)
    BY <1>0, <1>1, <1>3 DEF PushTyped, Still
  <2>2. obj[l] \in Objects /\ <<l, Head(todo[l])>> \in Conns
    BY <1>0, Made, AtUrlFacts DEF PushTyped, PushPlaces, LoopPlace, Holding, Conns
  <2>3. client'[obj[l]] = <<l, Head(todo[l])>> /\ client' \in [Objects -> Conns \cup {NoConn}]
    BY <1>0, <1>3, <2>2 DEF PushTyped
  <2>4. \A o \in Objects \ {obj[l]} : client'[o] = client[o]
    BY <1>0, <1>3 DEF PushTyped
  <2>5. PushTyped'
    <3>1. pc' \in [Loops -> Places]
      BY <1>0, <1>3 DEF PushTyped, Places, AtUrl, Starting
    <3> QED  BY <1>0, <1>1, <1>3, <2>3, <3>1 DEF PushTyped
  <2>6. PushPlaces'
    <3>1. LoopPlace(l)'
      BY <1>0, <1>1, <2>1, AtUrlFacts DEF PushPlaces, LoopPlace, AtUrl, Holding, Starting
    <3> QED  BY <1>0, <1>1, <2>1, <3>1, PlacesStay
  <2>7. Counting'
    <3>1. \A u \in Urls : (Waits(l, u)' => Waits(l, u)) /\ (Undialled(l, u)' => Undialled(l, u))
      BY <1>0, <2>1 DEF Waits, Undialled
    <3> QED  BY <1>0, <1>1, <2>1, <3>1, CountingStays
  <2>8. Owed' /\ Owned'
    <3>1. \A u \in Urls : Holds(l, u)'
      BY <2>1 DEF Holds, Starting
    <3> QED  BY <1>0, <1>1, <2>1, <3>1, OwedStays, OwnedStays
  <2>9. ASSUME ~overlap' PROVE Safe'
    <3>0. ~overlap /\ Safe /\ OneBusy /\ Belongs /\ Working /\ Unfed /\ Flowing
      BY <1>1, <2>9, CalmIs DEF PushInv, Safe
    <3>1. WorkingAt(l)'
      <4>1. objects[Head(todo[l])] = obj[l]
        BY <1>0, <3>0 DEF Working, WorkingAt, Holding
      <4> QED  BY <1>1, <1>3, <2>1, <2>3, <4>1 DEF WorkingAt, Holding
    <3>2. Working' /\ OneBusy'
      BY <1>0, <2>1, <3>0, <3>1, OnlyWorker
    <3>3. ASSUME NEW c \in Conns, Using(c)' PROVE BelongsAt(c)'
      <4>1. Using(c) /\ BelongsAt(c) /\ c[1] \in Loops /\ hobj[c] # Nil
        BY <1>0, <1>1, <3>0, <3>3 DEF Belongs, Using, Conns, PushPlaces, ConnPlace, Handling
      <4>2. hobj[c] # obj[l]
        BY <1>0, <1>3, <3>0, <4>1 DEF BelongsAt, OneBusy, Busy, Starting
      <4>3. hobj[c] \in Objects
        BY <1>0, <4>1, Made DEF PushTyped
      <4>4. client'[hobj[c]] = client[hobj[c]]
        BY <2>4, <4>2, <4>3
      <4> QED  BY <1>0, <1>1, <2>1, <4>1, <4>4 DEF BelongsAt, Still
    <3>4. Unfed'
      BY <1>0, <1>1, <2>1, <3>0, UnfedStays
    <3>5. Flowing'
      BY <1>0, <1>1, <2>1, <3>0, BusyGives
    <3>6. ~pushCrashed' /\ \A c \in Conns : Run(remote[c])'
      BY <1>1, <3>0, RunStays DEF Safe
    <3> QED  BY <3>2, <3>3, <3>4, <3>5, <3>6 DEF Safe, Belongs
  <2> QED  BY <2>5, <2>6, <2>7, <2>8, <2>9, CalmIs DEF PushInv
<1> QED  BY <1>2, <1>3 DEF StartBegin, Set

LEMMA StartDialStep == ASSUME PushInv, NEW l \in Loops, StartDial(l) PROVE PushInv'
<1> DEFINE u0 == Head(todo[l])
           c0 == <<l, u0>>
<1>0. PushTyped /\ PushPlaces /\ Counting /\ Owed /\ Owned /\ pc[l] = "dial" /\ pc[l] \in AtUrl /\ Busy(l)
  BY DEF PushInv, StartDial, At, AtUrl, Starting, Busy
<1>1. /\ UNCHANGED <<mapPVars, startflag, chan, client, npkt, hpkt, remote, overlap, pushCrashed>>
      /\ UNCHANGED <<listOf, objects, nobj>>
  BY DEF StartDial, mapPVars, histPVars
<1>2. CASE NextUrl(l, "get", "read") /\ UNCHANGED <<open, hpc, hobj>>
  BY <1>0, <1>1, <1>2, StartSkipStep DEF objVars, handVars
<1>3. CASE /\ open' = open \cup {c0} /\ UNCHANGED <<todo, obj>>
           /\ hpc' = [hpc EXCEPT ![c0] = "check"] /\ hobj' = [hobj EXCEPT ![c0] = obj[l]]
           /\ pc' = [pc EXCEPT ![l] = "flag"]
  <2>1. pc'[l] = "flag" /\ todo'[l] = todo[l] /\ obj'[l] = obj[l] /\ npkt'[l] = npkt[l] /\ Still(l)
    BY <1>0, <1>1, <1>3 DEF PushTyped, Still
  <2>2. /\ obj[l] \in Objects /\ obj[l] # Nil /\ c0 \in Conns /\ u0 \in Urls
        /\ u0 \in Elems(todo[l]) /\ u0 \notin Elems(Tail(todo[l]))
        /\ Elems(Tail(todo[l])) \subseteq Elems(todo[l])
    BY <1>0, Made, AtUrlFacts DEF PushTyped, PushPlaces, LoopPlace, Holding, Conns
  <2>3. c0[1] = l /\ c0[2] = u0
    OBVIOUS
  <2>4. hpc[c0] = "none" /\ remote[c0] = <<>> /\ hpkt[c0] = NoPkt
    <3>1. hpc[c0] = "none"
      BY <1>0, <2>2 DEF Counting, Undialled
    <3> QED  BY <1>0, <2>2, <3>1 DEF PushPlaces, ConnPlace
  <2> HIDE DEF u0, c0
  <2>5. /\ hpc'[c0] = "check" /\ hobj'[c0] = obj[l] /\ c0 \in open'
        /\ hpc' \in [Conns -> Handling \cup {"none", "done"}] /\ hobj' \in [Conns -> 0 .. nobj]
        /\ open' \subseteq Conns
    BY <1>0, <1>3, <2>2 DEF PushTyped, Handling
  <2>6. \A c \in Conns \ {c0} : hpc'[c] = hpc[c] /\ hobj'[c] = hobj[c] /\ (c \in open' <=> c \in open)
    BY <1>0, <1>3 DEF PushTyped
  <2>7. PushTyped'
    <3>1. pc' \in [Loops -> Places]
      BY <1>0, <1>3 DEF PushTyped, Places, AtUrl, Starting
    <3> QED  BY <1>0, <1>1, <1>3, <2>5, <3>1 DEF PushTyped
  <2>8. PushPlaces'
    <3>1. LoopPlace(l)'
      BY <1>0, <1>1, <2>1, <2>2, AtUrlFacts DEF LoopPlace, AtUrl, Holding, Starting
    <3>2. \A k \in Loops \ {l} : LoopPlace(k)'
      BY <1>0, <1>1, <2>1 DEF Still, PushPlaces, LoopPlace
    <3>4. \A c \in Conns \ {c0} : ConnPlace(c)'
      BY <1>0, <1>1, <2>6 DEF PushPlaces, ConnPlace
    <3>5. \A c \in Conns : ConnPlace(c)'
      <4> SUFFICES ASSUME NEW c \in Conns PROVE ConnPlace(c)'
        OBVIOUS
      <4>1. CASE c = c0
        BY <1>1, <2>2, <2>4, <2>5, <4>1 DEF ConnPlace
      <4> QED  BY <3>4, <4>1
    <3> QED  BY <3>1, <3>2, <3>5 DEF PushPlaces
  <2>9. Counting'
    <3>1. \A k \in Loops, u \in Urls : (Waits(k, u)' => Waits(k, u)) /\ (Undialled(k, u)' => Undialled(k, u))
      BY <1>0, <2>1, <2>2 DEF Waits, Undialled, Still
    <3>2. Pending' \in SUBSET Pending
      BY <3>1 DEF Pending, Conns
    <3>3. Cardinality(Pending') <= Cardinality(Pending) /\ Cardinality(Pending') \in Nat
      BY <3>2, PendingFinite, FS_Subset, FS_CardinalityType
    <3>4. nobj' + Cardinality(Pending') <= Cardinality(Conns)
      <4> HIDE DEF Pending
      <4> QED  BY <1>0, <1>1, <3>3, PendingFinite, ObjectsAre DEF Counting, PushTyped
    <3>5. \A c \in Conns : hpc'[c] # "none" => ~Undialled(c[1], c[2])'
      <4> SUFFICES ASSUME NEW c \in Conns, hpc'[c] # "none" PROVE ~Undialled(c[1], c[2])'
        OBVIOUS
      <4>1. CASE c = c0
        BY <2>1, <2>2, <2>3, <4>1 DEF Undialled
      <4>2. CASE c # c0
        BY <1>0, <2>6, <3>1, <4>2 DEF Counting, Conns
      <4> QED  BY <4>1, <4>2
    <3> QED  BY <3>4, <3>5 DEF Counting
  <2>10. Owed' /\ Owned'
    <3>1. \A u \in Urls : Holds(l, u)'
      BY <2>1 DEF Holds, Starting
    <3> QED  BY <1>0, <1>1, <2>1, <3>1, OwedStays, OwnedStays
  <2>11. ASSUME ~overlap' PROVE Safe'
    <3>0. ~overlap /\ Safe /\ OneBusy /\ Belongs /\ Working /\ Unfed /\ Flowing
      BY <1>1, <2>11, CalmIs DEF PushInv, Safe
    <3>1. objects[u0] = obj[l] /\ ~startflag[obj[l]] /\ client[obj[l]] = c0
      BY <1>0, <3>0 DEF Working, WorkingAt, Holding, u0, c0
    <3>2. WorkingAt(l)'
      BY <1>1, <2>1, <3>1 DEF WorkingAt, Holding, u0, c0
    <3>3. Working' /\ OneBusy'
      BY <1>0, <2>1, <3>0, <3>2, OnlyWorker
    <3>4. ASSUME NEW c \in Conns, Using(c)' PROVE BelongsAt(c)'
      <4>1. CASE c = c0
        BY <1>1, <2>1, <2>3, <2>4, <2>5, <3>1, <4>1 DEF BelongsAt
      <4>2. CASE c # c0
        <5>1. Using(c) /\ BelongsAt(c) /\ c[1] \in Loops
          BY <2>6, <3>0, <3>4, <4>2 DEF Belongs, Using, Conns
        <5>2. hpc'[c] = hpc[c] /\ hobj'[c] = hobj[c]
          BY <2>6, <4>2
        <5> QED  BY <1>0, <1>1, <2>1, <5>1, <5>2 DEF BelongsAt, Still
      <4> QED  BY <4>1, <4>2
    <3>5. Unfed'
      BY <1>0, <1>1, <2>1, <3>0, UnfedStays
    <3>6. Flow(c0)' = <<>>
      <4>1. \A k \in Loops : ~(pc[k] = "release" /\ obj[k] = obj[l])
        BY <1>0, <3>0 DEF OneBusy, Busy, Starting, Stopping
      <4>2. Dormant(obj[l])
        BY <2>2, <3>1, <4>1 DEF Dormant
      <4>3. chan[obj[l]] = <<>>
        BY <2>2, <3>0, <4>2 DEF Unfed
      <4>4. (<<>> \o <<>>) \o <<>> = <<>>
        OBVIOUS
      <4>5. remote'[c0] = <<>> /\ hpkt'[c0] = NoPkt /\ chan'[hobj'[c0]] = <<>>
        BY <1>1, <2>4, <2>5, <4>3
      <4>6. Flow(c0)' = (remote'[c0] \o (IF hpkt'[c0] = NoPkt THEN <<>> ELSE <<hpkt'[c0]>>)) \o chan'[hobj'[c0]]
        <5>1. c0' = c0
          BY <2>1 DEF c0, u0
        <5> QED  BY <5>1 DEF Flow, Held
      <4> QED  BY <4>4, <4>5, <4>6
    <3>7. \A k \in Loops : /\ pc'[k] = "put" => pc[k] = "put" /\ todo'[k] = todo[k] /\ obj'[k] = obj[k]
                          /\ \A u \in Urls : Given(k, u)' = Given(k, u)
      BY <1>0, <2>1 DEF Given, Still
    <3>8. Flowing'
      <4>1. ASSUME NEW c \in Conns, Served(c)'
            PROVE  Flow(c)' = <<>> \/ (Served(c) /\ Flow(c)' = Flow(c) /\ hobj'[c] = hobj[c])
        <5>1. CASE c = c0
          <6>1. c0' = c0
            BY <2>1 DEF c0, u0
          <6> QED  BY <3>6, <5>1, <6>1
        <5>2. CASE c # c0
          BY <1>1, <2>6, <4>1, <5>2 DEF Served, Flow, Held
        <5> QED  BY <5>1, <5>2
      <4> QED  BY <3>0, <3>7, <4>1, FlowingHolds
    <3>9. ~pushCrashed' /\ \A c \in Conns : Run(remote[c])'
      BY <1>1, <3>0, RunStays DEF Safe
    <3> QED  BY <3>3, <3>4, <3>5, <3>8, <3>9 DEF Safe, Belongs
  <2> QED  BY <2>7, <2>8, <2>9, <2>10, <2>11, CalmIs DEF PushInv
<1> QED  BY <1>2, <1>3 DEF StartDial, Set

LEMMA StartFlagStep == ASSUME PushInv, NEW l \in Loops, StartFlag(l) PROVE PushInv'
<1>0. PushTyped /\ PushPlaces /\ Counting /\ Owed /\ Owned /\ pc[l] = "flag" /\ pc[l] \in AtUrl /\ Busy(l)
  BY DEF PushInv, StartFlag, At, AtUrl, Starting, Busy
<1>1. /\ UNCHANGED <<listOf, objects, nobj, chan, client, open, npkt, hpc, hobj, hpkt, remote, overlap, pushCrashed>>
      /\ startflag' = [startflag EXCEPT ![obj[l]] = TRUE] /\ NextUrl(l, "get", "read")
  BY DEF StartFlag, mapPVars, histPVars, handVars, Set
<1>2. /\ pc' \in [Loops -> Places] /\ todo' \in [Loops -> Seq(Urls)] /\ obj' \in [Loops -> 0 .. nobj]
      /\ pc'[l] = (IF Tail(todo[l]) # <<>> THEN "get" ELSE "read")
      /\ todo'[l] = Tail(todo[l]) /\ obj'[l] = Nil /\ npkt'[l] = npkt[l] /\ Still(l)
  BY <1>0, <1>1, NextUrlDoes DEF Places, AtUrl, Starting
<1>3. obj[l] \in Objects
  BY <1>0, Made DEF PushTyped, PushPlaces, LoopPlace, Holding
<1>4. startflag' \in [Objects -> BOOLEAN] /\ \A o \in Objects : startflag'[o] = (o = obj[l] \/ startflag[o])
  BY <1>0, <1>1, <1>3 DEF PushTyped
<1>5. PushTyped'
  BY <1>0, <1>1, <1>2, <1>4 DEF PushTyped
<1>6. PushPlaces'
  <2>1. /\ Distinct(Tail(todo[l])) /\ Elems(Tail(todo[l])) \subseteq Elems(todo[l]) /\ listOf # Unread
        /\ Elems(todo[l]) \subseteq Elems(StaticPushOf[listOf])
    BY <1>0, AtUrlFacts
  <2>2. LoopPlace(l)'
    BY <1>1, <1>2, <2>1 DEF LoopPlace, AtUrl, Holding, Starting, Stopping
  <2> QED  BY <1>0, <1>1, <1>2, <2>2, PlacesStay
<1>7. Counting'
  <2>1. \A u \in Urls : (Waits(l, u)' => Waits(l, u)) /\ (Undialled(l, u)' => Undialled(l, u))
    BY <1>0, <1>2 DEF Waits, Undialled
  <2> QED  BY <1>0, <1>1, <1>2, <2>1, CountingStays
<1>8. Owed' /\ Owned'
  <2>1. \A u \in Urls : Holds(l, u)'
    BY <1>2 DEF Holds, Starting
  <2> QED  BY <1>0, <1>1, <1>2, <2>1, OwedStays, OwnedStays
<1>9. ASSUME ~overlap' PROVE Safe'
  <2>0. ~overlap /\ Safe /\ OneBusy /\ Belongs /\ Working /\ Unfed /\ Flowing
    BY <1>1, <1>9, CalmIs DEF PushInv, Safe
  <2>1. WorkingAt(l)'
    BY <1>2 DEF WorkingAt, Holding
  <2>2. Working' /\ OneBusy'
    BY <1>0, <1>2, <2>0, <2>1, OnlyWorker
  <2>3. ASSUME NEW c \in Conns, Using(c)' PROVE BelongsAt(c)'
    <3>1. Using(c) /\ BelongsAt(c) /\ c[1] \in Loops /\ hobj[c] # Nil
      BY <1>0, <1>1, <2>0, <2>3 DEF Belongs, Using, Conns, PushPlaces, ConnPlace, Handling
    <3>2. hobj[c] \in Objects
      BY <1>0, <3>1, Made DEF PushTyped
    <3>3. startflag[hobj[c]] \/ hobj[c] = obj[l]
      BY <1>0, <2>0, <3>1 DEF BelongsAt, OneBusy, Busy, Starting
    <3> QED  BY <1>1, <1>4, <3>1, <3>2, <3>3 DEF BelongsAt
  <2>4. Unfed'
    <3>1. \A o \in Objects : Dormant(o)' => Dormant(o)
      BY <1>0, <1>1, <1>2, <1>4 DEF Dormant, Still
    <3>2. \A o \in Objects : /\ o > nobj' => chan'[o] = <<>>
                             /\ Dormant(o) => chan'[o] = <<>>
      BY <1>1, <2>0 DEF Unfed
    <3>3. \A o \in Objects : Dormant(o) => \A k \in Loops : ~(pc'[k] = "put" /\ obj'[k] = o)
      BY <1>2, <2>0 DEF Unfed, Still
    <3> QED  BY <3>1, <3>2, <3>3 DEF Unfed
  <2>5. Flowing'
    BY <1>0, <1>1, <1>2, <2>0, BusyGives
  <2>6. ~pushCrashed' /\ \A c \in Conns : Run(remote[c])'
    BY <1>1, <2>0, RunStays DEF Safe
  <2> QED  BY <2>2, <2>3, <2>4, <2>5, <2>6 DEF Safe, Belongs
<1> QED  BY <1>5, <1>6, <1>7, <1>8, <1>9, CalmIs DEF PushInv

LEMMA StopUnsetStep == ASSUME PushInv, NEW l \in Loops, StopUnset(l) PROVE PushInv'
<1>0. PushTyped /\ PushPlaces /\ Counting /\ Owed /\ Owned /\ pc[l] = "unset" /\ pc[l] \in AtUrl /\ Busy(l)
  BY DEF PushInv, StopUnset, At, AtUrl, Stopping, Busy
<1>1. /\ UNCHANGED <<listOf, objects, nobj, chan, client, open, todo, obj, npkt, hpc, hobj, hpkt, remote>>
      /\ UNCHANGED <<overlap, pushCrashed>>
      /\ startflag' = [startflag EXCEPT ![obj[l]] = FALSE] /\ pc' = [pc EXCEPT ![l] = "release"]
  BY DEF StopUnset, mapPVars, histPVars, handVars, Set
<1>2. pc' \in [Loops -> Places] /\ pc'[l] = "release" /\ npkt'[l] = npkt[l] /\ Still(l)
  BY <1>0, <1>1 DEF PushTyped, Still, Places, AtUrl, Stopping
<1>3. obj[l] \in Objects
  BY <1>0, Made DEF PushTyped, PushPlaces, LoopPlace, Holding
<1>4. startflag' \in [Objects -> BOOLEAN] /\ \A o \in Objects : startflag'[o] = (o # obj[l] /\ startflag[o])
  BY <1>0, <1>1, <1>3 DEF PushTyped
<1>5. PushTyped'
  BY <1>0, <1>1, <1>2, <1>4 DEF PushTyped
<1>6. PushPlaces'
  <2>1. LoopPlace(l)'
    BY <1>0, <1>1, <1>2, AtUrlFacts DEF PushPlaces, LoopPlace, AtUrl, Holding, Stopping
  <2> QED  BY <1>0, <1>1, <1>2, <2>1, PlacesStay
<1>7. Counting'
  <2>1. \A u \in Urls : ~Waits(l, u)' /\ ~Undialled(l, u)'
    BY <1>2 DEF Waits, Undialled
  <2> QED  BY <1>0, <1>1, <1>2, <2>1, CountingStays
<1>8. Owed' /\ Owned'
  <2>1. \A u \in Urls : Holds(l, u) => Holds(l, u)'
    BY <1>0, <1>1, <1>2 DEF Holds, Starting, Stopping
  <2> QED  BY <1>0, <1>1, <1>2, <2>1, OwedStays, OwnedStays
<1>9. ASSUME ~overlap' PROVE Safe'
  <2>0. ~overlap /\ Safe /\ OneBusy /\ Belongs /\ Working /\ Unfed /\ Flowing
    BY <1>1, <1>9, CalmIs DEF PushInv, Safe
  <2>a. /\ objects[Head(todo[l])] = obj[l]
        /\ \A c \in Conns : Using(c) => hobj[c] # obj[l]
    BY <1>0, <2>0 DEF Working, WorkingAt, Holding
  <2>1. WorkingAt(l)'
    BY <1>1, <1>2, <1>3, <1>4, <2>a DEF WorkingAt, Holding
  <2>2. Working' /\ OneBusy'
    BY <1>0, <1>2, <2>0, <2>1, OnlyWorker
  <2>3. ASSUME NEW c \in Conns, Using(c)' PROVE BelongsAt(c)'
    <3>1. Using(c) /\ BelongsAt(c) /\ c[1] \in Loops /\ hobj[c] # Nil
      BY <1>0, <1>1, <2>0, <2>3 DEF Belongs, Using, Conns, PushPlaces, ConnPlace, Handling
    <3>2. hobj[c] \in Objects /\ hobj[c] # obj[l]
      BY <1>0, <2>a, <3>1, Made DEF PushTyped
    <3>3. startflag[hobj[c]]
      BY <1>0, <2>0, <3>1 DEF BelongsAt, OneBusy, Busy, Starting
    <3> QED  BY <1>1, <1>4, <3>1, <3>2, <3>3 DEF BelongsAt
  <2>4. Unfed'
    <3>1. \A o \in Objects : Dormant(o)' => Dormant(o)
      BY <1>0, <1>1, <1>2, <1>4 DEF Dormant, Still
    <3>2. \A o \in Objects : /\ o > nobj' => chan'[o] = <<>>
                             /\ Dormant(o) => chan'[o] = <<>>
      BY <1>1, <2>0 DEF Unfed
    <3>3. \A o \in Objects : Dormant(o) => \A k \in Loops : ~(pc'[k] = "put" /\ obj'[k] = o)
      BY <1>2, <2>0 DEF Unfed, Still
    <3> QED  BY <3>1, <3>2, <3>3 DEF Unfed
  <2>5. Flowing'
    BY <1>0, <1>1, <1>2, <2>0, BusyGives
  <2>6. ~pushCrashed' /\ \A c \in Conns : Run(remote[c])'
    BY <1>1, <2>0, RunStays DEF Safe
  <2> QED  BY <2>2, <2>3, <2>4, <2>5, <2>6 DEF Safe, Belongs
<1> QED  BY <1>5, <1>6, <1>7, <1>8, <1>9, CalmIs DEF PushInv

LEMMA ReleaseStep == ASSUME PushInv, NEW l \in Loops, Release(l) PROVE PushInv'
<1> DEFINE u0 == Head(todo[l])
<1>0. PushTyped /\ PushPlaces /\ Counting /\ Owed /\ Owned /\ pc[l] = "release" /\ pc[l] \in AtUrl /\ Busy(l)
  BY DEF PushInv, Release, At, AtUrl, Stopping, Busy
<1>1. /\ UNCHANGED <<listOf, nobj, startflag, chan, client, open, npkt, hpc, hobj, hpkt, remote>>
      /\ UNCHANGED <<overlap, pushCrashed>>
      /\ objects' = [objects EXCEPT ![u0] = Nil] /\ NextUrl(l, "stopget", "ended")
  BY DEF Release, objVars, histPVars, handVars, Set
<1>2. /\ pc' \in [Loops -> Places] /\ todo' \in [Loops -> Seq(Urls)] /\ obj' \in [Loops -> 0 .. nobj]
      /\ pc'[l] = (IF Tail(todo[l]) # <<>> THEN "stopget" ELSE "ended")
      /\ todo'[l] = Tail(todo[l]) /\ obj'[l] = Nil /\ npkt'[l] = npkt[l] /\ Still(l)
  BY <1>0, <1>1, NextUrlDoes DEF Places, AtUrl, Stopping
<1>3. /\ Distinct(Tail(todo[l])) /\ Elems(todo[l]) = {u0} \cup Elems(Tail(todo[l])) /\ listOf # Unread
      /\ Elems(todo[l]) \subseteq Elems(StaticPushOf[listOf]) /\ u0 \in Urls
      /\ (Tail(todo[l]) = <<>> => Elems(Tail(todo[l])) = {})
  BY <1>0, AtUrlFacts, NoElems
<1> HIDE DEF u0
<1>4. /\ objects' \in [Urls -> 0 .. nobj] /\ objects'[u0] = Nil
      /\ \A u \in Urls \ {u0} : objects'[u] = objects[u]
  <2>1. Nil \in 0 .. nobj
    BY <1>0 DEF PushTyped, Nil
  <2> QED  BY <1>0, <1>1, <1>3, <2>1 DEF PushTyped
<1>5. PushTyped'
  BY <1>0, <1>1, <1>2, <1>4 DEF PushTyped
<1>6. PushPlaces'
  <2>1. LoopPlace(l)'
    BY <1>1, <1>2, <1>3 DEF LoopPlace, AtUrl, Holding, Starting, Stopping
  <2> QED  BY <1>0, <1>1, <1>2, <2>1, PlacesStay
<1>7. Counting'
  <2>1. \A u \in Urls : ~Waits(l, u)' /\ ~Undialled(l, u)'
    BY <1>2 DEF Waits, Undialled
  <2> QED  BY <1>0, <1>1, <1>2, <2>1, CountingStays
<1>8. Owed'
  <2>1. \A k \in Loops, u \in Urls : u # u0 /\ Holds(k, u) => Holds(k, u)'
    BY <1>0, <1>2, <1>3 DEF Holds, Still, Starting, Stopping
  <2> QED  BY <1>0, <1>1, <1>4, <2>1 DEF Owed
<1>9. Owned'
  <2>1. \A k \in Loops : pc'[k] = "put" =>
          k # l /\ pc[k] = "put" /\ obj'[k] = obj[k] /\ todo'[k] = todo[k] /\ obj[k] # Nil
    BY <1>0, <1>2 DEF Still, PushPlaces, LoopPlace, Holding
  <2> QED  BY <1>0, <1>4, <2>1 DEF Owned
<1>10. ASSUME ~overlap' PROVE Safe'
  <2>0. ~overlap /\ Safe /\ OneBusy /\ Belongs /\ Working /\ Unfed /\ Flowing
    BY <1>1, <1>10, CalmIs DEF PushInv, Safe
  <2>a. objects[u0] = obj[l] /\ ~startflag[obj[l]] /\ obj[l] # Nil
    BY <1>0, <2>0 DEF Working, WorkingAt, Holding, PushPlaces, LoopPlace, u0
  <2>1. WorkingAt(l)'
    BY <1>2 DEF WorkingAt, Holding
  <2>2. Working' /\ OneBusy'
    BY <1>0, <1>2, <2>0, <2>1, OnlyWorker
  <2>3. ASSUME NEW c \in Conns, Using(c)' PROVE BelongsAt(c)'
    <3>1. Using(c) /\ BelongsAt(c) /\ c[1] \in Loops /\ c[2] \in Urls
      BY <1>1, <2>0, <2>3 DEF Belongs, Using, Conns
    <3>2. startflag[hobj[c]]
      BY <1>0, <2>0, <3>1 DEF BelongsAt, OneBusy, Busy, Starting, Stopping
    <3>3. c[2] # u0
      BY <2>a, <3>1, <3>2 DEF BelongsAt
    <3> QED  BY <1>1, <1>4, <3>1, <3>2, <3>3 DEF BelongsAt
  <2>4. Unfed'
    <3>1. ASSUME NEW o \in Objects, Dormant(o)' PROVE Dormant(o)
      <4>1. PICK u \in Urls : objects'[u] = o /\ o # Nil
        BY <3>1 DEF Dormant
      <4>2. u # u0 /\ objects[u] = o
        BY <1>4, <4>1
      <4>3. o # obj[l]
        BY <1>0, <1>3, <2>a, <4>1, <4>2 DEF Owned
      <4> QED  BY <1>1, <1>2, <3>1, <4>1, <4>2, <4>3 DEF Dormant, Still
    <3>2. \A o \in Objects : /\ o > nobj' => chan'[o] = <<>>
                             /\ Dormant(o) => chan'[o] = <<>>
      BY <1>1, <2>0 DEF Unfed
    <3>3. \A o \in Objects : Dormant(o) => \A k \in Loops : ~(pc'[k] = "put" /\ obj'[k] = o)
      BY <1>2, <2>0 DEF Unfed, Still
    <3> QED  BY <3>1, <3>2, <3>3 DEF Unfed
  <2>5. Flowing'
    BY <1>0, <1>1, <1>2, <2>0, BusyGives
  <2>6. ~pushCrashed' /\ \A c \in Conns : Run(remote[c])'
    BY <1>1, <2>0, RunStays DEF Safe
  <2> QED  BY <2>2, <2>3, <2>4, <2>5, <2>6 DEF Safe, Belongs
<1> QED  BY <1>5, <1>6, <1>7, <1>8, <1>9, <1>10, CalmIs DEF PushInv

LEMMA StopCtrlStep == ASSUME PushInv, NEW l \in Loops, NEW c0 \in Conns, StopCtrl(l, c0) PROVE PushInv'
<1>0. /\ PushTyped /\ PushPlaces /\ Counting /\ Owed /\ Owned /\ pc[l] = "ctrl" /\ pc[l] \in AtUrl /\ Busy(l)
      /\ hpc[c0] = "loop" /\ hobj[c0] = obj[l]
  BY DEF PushInv, StopCtrl, At, AtUrl, Stopping, Busy
<1>1. /\ UNCHANGED <<listOf, objects, nobj, startflag, chan, client, todo, obj, npkt, hobj, hpkt, remote, overlap>>
      /\ pushCrashed' \in {FALSE, hpc[client[obj[l]]] = "none"} /\ open' = open \ {client[obj[l]]}
      /\ hpc' = [hpc EXCEPT ![c0] = "done"] /\ pc' = [pc EXCEPT ![l] = "unset"]
  BY <1>0 DEF StopCtrl, mapPVars, UseClient, CloseClient, Set
<1>2. pc' \in [Loops -> Places] /\ pc'[l] = "unset" /\ npkt'[l] = npkt[l] /\ Still(l)
  BY <1>0, <1>1 DEF PushTyped, Still, Places, AtUrl, Stopping
<1>3. /\ hpc' \in [Conns -> Handling \cup {"none", "done"}] /\ hpc'[c0] = "done"
      /\ \A c \in Conns \ {c0} : hpc'[c] = hpc[c]
      /\ open' \subseteq open
  BY <1>0, <1>1 DEF PushTyped
<1>5. PushTyped'
  <2>1. pushCrashed' \in BOOLEAN
    BY <1>1
  <2> QED  BY <1>0, <1>1, <1>2, <1>3, <2>1 DEF PushTyped
<1>6. PushPlaces'
  <2>1. LoopPlace(l)'
    BY <1>0, <1>1, <1>2, AtUrlFacts DEF PushPlaces, LoopPlace, AtUrl, Holding, Stopping
  <2>2. \A k \in Loops \ {l} : LoopPlace(k)'
    BY <1>0, <1>1, <1>2 DEF Still, PushPlaces, LoopPlace
  <2>3. \A c \in Conns : ConnPlace(c)'
    <3> SUFFICES ASSUME NEW c \in Conns PROVE ConnPlace(c)'
      OBVIOUS
    <3>1. ConnPlace(c) /\ (c = c0 => hpc[c] = "loop" /\ hpc'[c] = "done") /\ (c # c0 => hpc'[c] = hpc[c])
      BY <1>0, <1>3 DEF PushPlaces
    <3> QED  BY <1>1, <1>3, <3>1 DEF ConnPlace
  <2> QED  BY <2>1, <2>2, <2>3 DEF PushPlaces
<1>7. Counting'
  <2>1. \A k \in Loops, u \in Urls : (Waits(k, u)' => Waits(k, u)) /\ (Undialled(k, u)' => Undialled(k, u))
    BY <1>0, <1>2 DEF Waits, Undialled, Still
  <2>2. \A c \in Conns : hpc'[c] # "none" => hpc[c] # "none"
    BY <1>0, <1>3
  <2> QED  BY <1>0, <1>1, <2>1, <2>2, CountingFalls
<1>8. Owed' /\ Owned'
  <2>1. \A u \in Urls : Holds(l, u) => Holds(l, u)'
    BY <1>0, <1>1, <1>2 DEF Holds, Starting, Stopping
  <2> QED  BY <1>0, <1>1, <1>2, <2>1, OwedStays, OwnedStays
<1>9. ASSUME ~overlap' PROVE Safe'
  <2>0. ~overlap /\ Safe /\ OneBusy /\ Belongs /\ Working /\ Unfed /\ Flowing
    BY <1>1, <1>9, CalmIs DEF PushInv, Safe
  <2>a. objects[Head(todo[l])] = obj[l] /\ client[obj[l]] = c0
    BY <1>0, <2>0 DEF Working, WorkingAt, Holding, Belongs, BelongsAt, Using, Handling
  <2>b. \A c \in Conns : Using(c)' => c # c0 /\ Using(c) /\ BelongsAt(c)
    BY <1>1, <1>3, <2>0, <2>a DEF Using, Belongs, Handling
  <2>c. \A c \in Conns : Using(c)' => hobj[c] # obj[l]
    BY <2>a, <2>b DEF BelongsAt
  <2>1. WorkingAt(l)'
    BY <1>1, <1>2, <2>a, <2>c DEF WorkingAt, Holding
  <2>2. Working' /\ OneBusy'
    BY <1>0, <1>2, <2>0, <2>1, OnlyWorker
  <2>3. ASSUME NEW c \in Conns, Using(c)' PROVE BelongsAt(c)'
    <3>1. BelongsAt(c) /\ c[1] \in Loops
      BY <2>3, <2>b DEF Conns
    <3>2. startflag[hobj[c]]
      BY <1>0, <2>0, <3>1 DEF BelongsAt, OneBusy, Busy, Starting, Stopping
    <3> QED  BY <1>1, <3>1, <3>2 DEF BelongsAt
  <2>4. Unfed'
    BY <1>0, <1>1, <1>2, <2>0, UnfedStays
  <2>5. Flowing'
    <3>1. \A c \in Conns : Served(c)' => Served(c) /\ Flow(c)' = Flow(c) /\ hobj'[c] = hobj[c]
      BY <1>1, <1>3 DEF Served, Flow, Held, Handling
    <3>2. \A k \in Loops : /\ pc'[k] = "put" => pc[k] = "put" /\ todo'[k] = todo[k] /\ obj'[k] = obj[k]
                           /\ \A u \in Urls : Given(k, u)' = Given(k, u)
      BY <1>0, <1>2 DEF Given, Still
    <3> QED  BY <2>0, <3>1, <3>2, FlowingHolds
  <2>6. ~pushCrashed' /\ \A c \in Conns : Run(remote[c])'
    BY <1>0, <1>1, <2>0, <2>a, RunStays DEF Safe
  <2> QED  BY <2>2, <2>3, <2>4, <2>5, <2>6 DEF Safe, Belongs
<1> QED  BY <1>5, <1>6, <1>7, <1>8, <1>9, CalmIs DEF PushInv

---------------------------------------------------------------------------
(* A packet goes into the channel                                          *)

LEMMA FlowTyped ==
    ASSUME PushInv, NEW c \in Conns, hpc[c] # "none"
    PROVE  /\ remote[c] \in Seq(Pkts) /\ Held(c) \in Seq(Pkts) /\ chan[hobj[c]] \in Seq(Pkts)
           /\ Flow(c) \in Seq(Pkts) /\ hobj[c] \in Objects
<1>0. PushTyped /\ PushPlaces /\ Counting
  BY DEF PushInv
<1>1. hobj[c] \in Objects
  BY <1>0, Made DEF PushTyped, PushPlaces, ConnPlace
<1>2. remote[c] \in Seq(Pkts) /\ chan[hobj[c]] \in Seq(Pkts) /\ hpkt[c] \in Pkts \cup {NoPkt}
  BY <1>0, <1>1 DEF PushTyped
<1>3. Held(c) \in Seq(Pkts)
  BY <1>2 DEF Held
<1>4. remote[c] \o Held(c) \in Seq(Pkts)
  BY <1>2, <1>3, ConcatProperties
<1>5. Flow(c) \in Seq(Pkts)
  BY <1>2, <1>4, ConcatProperties DEF Flow
<1> QED  BY <1>1, <1>2, <1>3, <1>5

\* Run, with the length of the sequence in place of its domain.
LEMMA RunOfLength ==
    ASSUME NEW q, NEW n, DOMAIN q = 1 .. n
    PROVE  Run(q) <=>
              \A i, j \in 1 .. n : i < j /\ q[i][1] = q[j][1] =>
                 /\ q[i][2] < q[j][2]
                 /\ \A m \in q[i][2] .. q[j][2] : \E k \in i .. j : q[k] = <<q[i][1], m>>
  BY Zenon DEF Run

\* One more packet of loop l, in order.
LEMMA RunAppend ==
    ASSUME NEW q \in Seq(Pkts), NEW l \in Loops, NEW n \in 1 .. MaxPackets,
           Run(q), Reaches(q, l, n - 1)
    PROVE  Run(Append(q, <<l, n>>)) /\ Reaches(Append(q, <<l, n>>), l, n)
<1> DEFINE e == <<l, n>>
           r == Append(q, e)
<1>1. e \in Pkts /\ e[1] = l /\ e[2] = n /\ n \in Nat
  BY PushAssumption DEF Pkts
<1>2. /\ r \in Seq(Pkts) /\ Len(q) \in Nat /\ Len(r) = Len(q) + 1 /\ DOMAIN r = 1 .. Len(q) + 1
      /\ DOMAIN q = 1 .. Len(q) /\ r[Len(q) + 1] = e /\ \A i \in 1 .. Len(q) : r[i] = q[i]
  <2> HIDE DEF e
  <2> QED  BY <1>1, AppendProperties, LenProperties
<1>3. \A i \in 1 .. Len(q) : q[i] \in Pkts /\ q[i][1] \in Loops /\ q[i][2] \in 1 .. MaxPackets /\ q[i][2] \in Nat
  <2> SUFFICES ASSUME NEW i \in 1 .. Len(q)
               PROVE  q[i] \in Pkts /\ q[i][1] \in Loops /\ q[i][2] \in 1 .. MaxPackets /\ q[i][2] \in Nat
    OBVIOUS
  <2>1. q[i] \in Pkts
    BY ElementOfSeq
  <2> QED  BY <2>1, PushAssumption DEF Pkts
<1> HIDE DEF r
<1>4. Run(r)
  <2> SUFFICES ASSUME NEW i \in 1 .. Len(q) + 1, NEW j \in 1 .. Len(q) + 1, i < j, r[i][1] = r[j][1]
               PROVE  /\ r[i][2] < r[j][2]
                      /\ \A m \in r[i][2] .. r[j][2] : \E k \in i .. j : r[k] = <<r[i][1], m>>
    <3>1. DOMAIN r = 1 .. Len(q) + 1
      BY <1>2
    <3> QED  BY <3>1, RunOfLength, ZenonT(40)
  <2>1. i \in 1 .. Len(q) /\ r[i] = q[i]
    BY <1>2
  <2>2. CASE j \in 1 .. Len(q)
    <3>1. r[j] = q[j] /\ i \in DOMAIN q /\ j \in DOMAIN q
      BY <1>2, <2>1, <2>2
    <3>2. /\ q[i][2] < q[j][2]
          /\ \A m \in q[i][2] .. q[j][2] : \E k \in i .. j : q[k] = <<q[i][1], m>>
      BY <2>1, <3>1 DEF Run
    <3>3. \A k \in i .. j : r[k] = q[k]
      BY <1>2, <2>1, <2>2, SMTT(30)
    <3> QED  BY <2>1, <3>1, <3>2, <3>3
  <2>3. CASE j = Len(q) + 1
    <3>1. r[j] = e /\ q[i][1] = l /\ i \in DOMAIN q
      BY <1>1, <1>2, <2>1, <2>3
    <3>2. q[i][2] <= n - 1
      BY <3>1 DEF Reaches
    <3>3. q[i][2] < n /\ q[i][2] \in Nat
      BY <1>1, <1>3, <2>1, <3>2
    <3>4. PICK p \in DOMAIN q : q[p] = <<l, n - 1>>
      BY <3>1 DEF Reaches
    <3>5. ASSUME NEW m \in q[i][2] .. n PROVE \E k \in i .. j : r[k] = <<l, m>>
      <4>1. CASE m = n
        BY <1>2, <2>1, <2>3, <4>1
      <4>2. CASE m # n /\ m = q[i][2]
        <5>1. q[i] = <<l, m>>
          BY <1>3, <2>1, <3>1, <4>2 DEF Pkts
        <5>2. i \in i .. j
          BY <2>1
        <5> QED  BY <2>1, <5>1, <5>2
      <4>3. CASE m # n /\ m # q[i][2]
        <5>1. q[p][1] = l /\ q[p][2] = n - 1 /\ p \in 1 .. Len(q)
          BY <1>2, <3>4
        <5>2. m \in Nat /\ q[i][2] < m /\ m <= n - 1
          BY <1>1, <3>3, <4>3
        <5>3. i < p
          <6>1. ~(p < i)
            <7> SUFFICES ASSUME p < i PROVE FALSE
              OBVIOUS
            <7>1. q[p][2] < q[i][2]
              BY <3>1, <3>4, <5>1 DEF Run
            <7> QED  BY <1>1, <3>3, <5>1, <5>2, <7>1
          <6>2. p # i
            BY <1>1, <3>3, <5>1, <5>2
          <6> QED  BY <2>1, <5>1, <6>1, <6>2
        <5>4. \E k \in i .. p : q[k] = <<l, m>>
          <6>1. m \in q[i][2] .. q[p][2]
            BY <1>1, <3>3, <5>1, <5>2
          <6> QED  BY <3>1, <3>4, <5>1, <5>3, <6>1 DEF Run
        <5>5. PICK k \in i .. p : q[k] = <<l, m>>
          BY <5>4
        <5>6. k \in i .. j /\ r[k] = q[k]
          BY <1>2, <2>1, <2>3, <5>1, <5>5
        <5> QED  BY <5>5, <5>6
      <4> QED  BY <4>1, <4>2, <4>3
    <3> QED  BY <1>1, <2>1, <3>1, <3>3, <3>5
  <2>4. j \in 1 .. Len(q) \/ j = Len(q) + 1
    BY <1>2
  <2> QED  BY <2>2, <2>3, <2>4
<1>5. Reaches(r, l, n)
  <2> SUFFICES ASSUME NEW i \in 1 .. Len(q) + 1, r[i][1] = l
               PROVE  r[i][2] <= n /\ \E k \in 1 .. Len(q) + 1 : r[k] = <<l, n>>
    BY <1>2 DEF Reaches
  <2>1. Len(q) + 1 \in 1 .. Len(q) + 1
    BY <1>2
  <2>2. r[i][2] <= n
    <3>1. CASE i = Len(q) + 1
      BY <1>1, <1>2, <3>1
    <3>2. CASE i # Len(q) + 1
      <4>1. i \in DOMAIN q /\ i \in 1 .. Len(q) /\ r[i] = q[i]
        BY <1>2, <3>2
      <4>2. q[i][2] <= n - 1
        BY <4>1 DEF Reaches
      <4> QED  BY <1>1, <1>3, <4>1, <4>2
    <3> QED  BY <3>1, <3>2
  <2> QED  BY <1>2, <2>1, <2>2
<1> QED  BY <1>4, <1>5 DEF r, e

\* A packet of another loop does not change what a loop has given.
LEMMA AppendOther ==
    ASSUME NEW q \in Seq(Pkts), NEW e \in Pkts, NEW k, e[1] # k
    PROVE  /\ \A n : Reaches(q, k, n) => Reaches(Append(q, e), k, n)
           /\ (\A i \in DOMAIN q : q[i][1] # k) => \A i \in DOMAIN Append(q, e) : Append(q, e)[i][1] # k
<1> DEFINE r == Append(q, e)
<1>1. /\ Len(q) \in Nat /\ DOMAIN r = 1 .. Len(q) + 1
      /\ DOMAIN q = 1 .. Len(q) /\ r[Len(q) + 1] = e /\ \A i \in 1 .. Len(q) : r[i] = q[i]
  BY AppendProperties, LenProperties
<1>2. \A i \in DOMAIN r : r[i][1] = k => i \in DOMAIN q /\ r[i] = q[i]
  BY <1>1
<1>3. \A i \in DOMAIN q : i \in DOMAIN r /\ r[i] = q[i]
  BY <1>1
<1> HIDE DEF r
<1>4. \A n : Reaches(q, k, n) => Reaches(r, k, n)
  BY <1>2, <1>3 DEF Reaches
<1>5. (\A i \in DOMAIN q : q[i][1] # k) => \A i \in DOMAIN r : r[i][1] # k
  BY <1>2
<1> QED  BY <1>4, <1>5 DEF r

LEMMA Regroup ==
    ASSUME NEW a \in Seq(Pkts), NEW b \in Seq(Pkts), NEW q \in Seq(Pkts)
    PROVE  (a \o b) \o q = a \o (b \o q)
  BY ConcatAssociative, SMTT(30)

LEMMA FlowAppend ==
    ASSUME NEW a \in Seq(Pkts), NEW b \in Seq(Pkts), NEW q \in Seq(Pkts), NEW e \in Pkts
    PROVE  (a \o b) \o Append(q, e) = Append((a \o b) \o q, e)
<1> DEFINE ab == a \o b
           x == <<e>>
<1>1. ab \in Seq(Pkts) /\ x \in Seq(Pkts)
  BY ConcatProperties
<1>2. Append(q, e) = q \o x
  BY AppendIsConcat
<1> HIDE DEF ab
<1>3. ab \o q \in Seq(Pkts)
  BY <1>1, ConcatProperties
<1>4. Append(ab \o q, e) = (ab \o q) \o x
  BY <1>3, AppendIsConcat
<1> HIDE DEF x
<1>5. (ab \o q) \o x = ab \o (q \o x)
  BY <1>1, Regroup, SMTT(30)
<1>6. ab \o Append(q, e) = Append(ab \o q, e)
  BY <1>2, <1>4, <1>5
<1> QED  BY <1>6 DEF ab

LEMMA RunIs ==
    ASSUME NEW c, NEW q, Flow(c)' = q, Run(q)
    PROVE  Run(Flow(c))'
  BY DEF Run

LEMMA PutStep == ASSUME PushInv, NEW l \in Loops, PutPkt(l) PROVE PushInv'
<1> DEFINE e == <<l, npkt[l]>>
           o0 == obj[l]
<1>0. PushTyped /\ PushPlaces /\ Counting /\ Owed /\ Owned /\ pc[l] = "put" /\ pc[l] \in AtUrl
  BY DEF PushInv, PutPkt, At, AtUrl
<1>1. /\ UNCHANGED <<listOf, objects, nobj, startflag, client, open, npkt, hpc, hobj, hpkt, remote>>
      /\ UNCHANGED <<overlap, pushCrashed>>
      /\ chan' = [chan EXCEPT ![o0] = Append(chan[o0], e)] /\ NextUrl(l, "send", "read") /\ Len(chan[o0]) < ChanCap
  BY DEF PutPkt, mapPVars, histPVars, handVars, Set
<1>2. /\ pc' \in [Loops -> Places] /\ todo' \in [Loops -> Seq(Urls)] /\ obj' \in [Loops -> 0 .. nobj]
      /\ pc'[l] = (IF Tail(todo[l]) # <<>> THEN "send" ELSE "read")
      /\ todo'[l] = Tail(todo[l]) /\ obj'[l] = Nil /\ npkt'[l] = npkt[l] /\ Still(l)
  BY <1>0, <1>1, NextUrlDoes DEF Places, AtUrl
<1>3. o0 \in Objects /\ o0 # Nil
  BY <1>0, Made DEF PushTyped, PushPlaces, LoopPlace, Holding
<1>4. npkt[l] \in 1 .. MaxPackets /\ npkt[l] # 0 /\ e \in Pkts /\ e[1] = l
  <2>1. npkt[l] \in 0 .. MaxPackets /\ npkt[l] # 0
    BY <1>0 DEF PushTyped, PushPlaces, LoopPlace
  <2>2. npkt[l] \in 1 .. MaxPackets
    BY <2>1, PushAssumption
  <2> QED  BY <2>1, <2>2 DEF Pkts
<1> HIDE DEF e, o0
<1>5. /\ chan' \in [Objects -> Seq(Pkts)] /\ chan'[o0] = Append(chan[o0], e)
      /\ \A o \in Objects \ {o0} : chan'[o] = chan[o]
      /\ \A o \in Objects : Len(chan'[o]) <= ChanCap
  <2>1. chan[o0] \in Seq(Pkts) /\ Append(chan[o0], e) \in Seq(Pkts) /\ Len(Append(chan[o0], e)) = Len(chan[o0]) + 1
        /\ Len(chan[o0]) \in Nat
    BY <1>0, <1>3, <1>4, AppendProperties, LenProperties DEF PushTyped
  <2>2. Len(Append(chan[o0], e)) <= ChanCap
    BY <1>1, <2>1, PushAssumption
  <2> QED  BY <1>0, <1>1, <1>3, <2>1, <2>2 DEF PushTyped
<1>6. PushTyped'
  BY <1>0, <1>1, <1>2, <1>5 DEF PushTyped
<1>7. PushPlaces'
  <2>1. /\ Distinct(Tail(todo[l])) /\ Elems(Tail(todo[l])) \subseteq Elems(todo[l]) /\ listOf # Unread
        /\ Elems(todo[l]) \subseteq Elems(StaticPushOf[listOf])
    BY <1>0, AtUrlFacts
  <2>2. LoopPlace(l)'
    BY <1>1, <1>2, <1>4, <2>1 DEF LoopPlace, AtUrl, Holding, Starting, Stopping
  <2> QED  BY <1>0, <1>1, <1>2, <2>2, PlacesStay
<1>8. Counting' /\ Owed' /\ Owned'
  <2>1. \A u \in Urls : ~Waits(l, u)' /\ ~Undialled(l, u)' /\ Holds(l, u)'
    BY <1>2 DEF Waits, Undialled, Holds
  <2> QED  BY <1>0, <1>1, <1>2, <2>1, CountingStays, OwedStays, OwnedStays
<1>9. ASSUME ~overlap' PROVE Safe'
  <2>0. ~overlap /\ Safe /\ OneBusy /\ Belongs /\ Working /\ Unfed /\ Flowing
    BY <1>1, <1>9, CalmIs DEF PushInv, Safe
  <2>1. Working' /\ OneBusy' /\ Belongs'
    <3>1. WorkingAt(l)' /\ ~Busy(l)'
      BY <1>2 DEF WorkingAt, Holding, Busy, Starting, Stopping
    <3> QED  BY <1>0, <1>1, <1>2, <2>0, <3>1, WorkingStays, OneBusyStays, BelongsStays
  <2>2. Unfed'
    <3>1. \A o \in Objects : Dormant(o)' => Dormant(o)
      BY <1>0, <1>1, <1>2 DEF Dormant, Still
    <3>2. ~Dormant(o0)
      BY <1>0, <1>3, <2>0 DEF Unfed, o0
    <3>3. ~(o0 > nobj)
      BY <1>0, <1>3, ObjectsAre DEF PushTyped, o0
    <3>4. \A o \in Objects : o # o0 => chan'[o] = chan[o]
      BY <1>5
    <3> QED  BY <1>1, <1>2, <2>0, <3>1, <3>2, <3>3, <3>4 DEF Unfed, Still
  <2>3. ASSUME NEW c \in Conns, Served(c)' PROVE Run(Flow(c))' /\ \A k \in Loops : FedBy(c, k)'
    <3>1. /\ Served(c) /\ objects[c[2]] = hobj[c] /\ c[2] \in Urls /\ hobj'[c] = hobj[c]
          /\ Run(Flow(c)) /\ (\A k \in Loops : FedBy(c, k)) /\ hpc[c] # "none"
      BY <1>1, <2>0, <2>3 DEF Served, Belongs, BelongsAt, Using, Flowing, Handling, Conns
    <3>2. /\ remote[c] \in Seq(Pkts) /\ Held(c) \in Seq(Pkts) /\ chan[hobj[c]] \in Seq(Pkts)
          /\ Flow(c) \in Seq(Pkts) /\ hobj[c] \in Objects
      BY <3>1, FlowTyped
    <3>3. Flow(c)' = (remote[c] \o Held(c)) \o chan'[hobj[c]]
      BY <1>1 DEF Flow, Held
    <3>4. \A k \in Loops \ {l} : /\ pc'[k] = pc[k] /\ todo'[k] = todo[k] /\ obj'[k] = obj[k]
                                 /\ Given(k, c[2])' = Given(k, c[2])
      BY <1>1, <1>2 DEF Still, Given
    <3>5. Given(l, c[2])' = IF c[2] = Head(todo[l]) THEN npkt[l] ELSE Given(l, c[2])
      <4>1. /\ Elems(todo[l]) = {Head(todo[l])} \cup Elems(Tail(todo[l])) /\ Head(todo[l]) \notin Elems(Tail(todo[l]))
            /\ (Tail(todo[l]) = <<>> => Elems(Tail(todo[l])) = {})
        BY <1>0, AtUrlFacts, NoElems
      <4> QED  BY <1>0, <1>2, <4>1 DEF Given
    <3>6. CASE hobj[c] = o0
      <4>1. c[2] = Head(todo[l])
        BY <1>0, <3>1, <3>6 DEF Owned, o0
      <4>2. Given(l, c[2]) = npkt[l] - 1
        <5>1. Head(todo[l]) \in Elems(todo[l])
          BY <1>0, AtUrlFacts
        <5> QED  BY <1>0, <4>1, <5>1 DEF Given
      <4>3. Flow(c)' = Append(Flow(c), e)
        <5>1. (remote[c] \o Held(c)) \o Append(chan[hobj[c]], e) = Append((remote[c] \o Held(c)) \o chan[hobj[c]], e)
          <6>1. remote[c] \in Seq(Pkts) /\ Held(c) \in Seq(Pkts) /\ chan[hobj[c]] \in Seq(Pkts) /\ e \in Pkts
            BY <1>4, <3>2
          <6> QED  BY <6>1, FlowAppend, Zenon
        <5>2. chan'[hobj[c]] = Append(chan[hobj[c]], e)
          BY <1>5, <3>6
        <5>3. Flow(c) = (remote[c] \o Held(c)) \o chan[hobj[c]]
          BY DEF Flow
        <5> QED  BY <3>3, <5>1, <5>2, <5>3
      <4>4. Run(Append(Flow(c), e)) /\ Reaches(Append(Flow(c), e), l, npkt[l])
        <5>1. Reaches(Flow(c), l, npkt[l] - 1)
          BY <3>1, <4>2 DEF FedBy
        <5> QED  BY <1>4, <3>1, <3>2, <5>1, RunAppend DEF e
      <4>5. Run(Flow(c))'
        BY <4>3, <4>4, RunIs
      <4>6. FedBy(c, l)'
        <5>1. pc'[l] # "put" /\ Given(l, c[2])' = npkt[l]
          BY <1>2, <3>5, <4>1
        <5> HIDE DEF Flow
        <5> QED  BY <4>3, <4>4, <5>1 DEF FedBy, Reaches
      <4>7. ASSUME NEW k \in Loops \ {l} PROVE FedBy(c, k)'
        <5>1. /\ \A n : Reaches(Flow(c), k, n) => Reaches(Append(Flow(c), e), k, n)
              /\ (\A i \in DOMAIN Flow(c) : Flow(c)[i][1] # k)
                    => \A i \in DOMAIN Append(Flow(c), e) : Append(Flow(c), e)[i][1] # k
          BY <1>4, <3>2, AppendOther
        <5>2. FedBy(c, k)
          BY <3>1
        <5>3. Reaches(Append(Flow(c), e), k, Given(k, c[2]))
          BY <5>1, <5>2 DEF FedBy
        <5>4. /\ Flow(c)' = Append(Flow(c), e) /\ Given(k, c[2])' = Given(k, c[2]) /\ hobj'[c] = hobj[c]
              /\ pc'[k] = pc[k] /\ todo'[k] = todo[k] /\ obj'[k] = obj[k]
          BY <3>1, <3>4, <4>3
        <5> HIDE DEF Flow
        <5>5. Reaches(Flow(c), k, Given(k, c[2]))'
          BY <5>3, <5>4 DEF Reaches
        <5>6. (pc[k] = "put" /\ Head(todo[k]) = c[2] /\ obj[k] # hobj[c]) =>
                 \A i \in DOMAIN Flow(c)' : Flow(c)'[i][1] # k
          BY <5>1, <5>2, <5>4 DEF FedBy
        <5> QED  BY <5>4, <5>5, <5>6 DEF FedBy
      <4> QED  BY <4>5, <4>6, <4>7
    <3>7. CASE hobj[c] # o0
      <4>1. Flow(c)' = Flow(c)
        <5>1. chan'[hobj[c]] = chan[hobj[c]]
          BY <1>5, <3>2, <3>7
        <5> QED  BY <3>3, <5>1 DEF Flow
      <4>2. Run(Flow(c))'
        BY <3>1, <4>1, RunOfFlow
      <4>3. \A k \in Loops \ {l} : FedBy(c, k)'
        BY <3>1, <3>4, <4>1, FedByStays
      <4>4. FedBy(c, l)'
        <5>1. CASE c[2] # Head(todo[l])
          BY <1>2, <3>1, <3>5, <4>1, <5>1, FedByStays
        <5>2. CASE c[2] = Head(todo[l])
          <6>1. \A i \in DOMAIN Flow(c) : Flow(c)[i][1] # l
            BY <1>0, <3>1, <3>7, <5>2 DEF FedBy, o0
          <6>2. pc'[l] # "put"
            BY <1>2
          <6> HIDE DEF Flow
          <6> QED  BY <4>1, <6>1, <6>2 DEF FedBy, Reaches
        <5> QED  BY <5>1, <5>2
      <4> QED  BY <4>2, <4>3, <4>4
    <3> QED  BY <3>6, <3>7
  <2>4. ~pushCrashed' /\ \A c \in Conns : Run(remote[c])'
    BY <1>1, <2>0, RunStays DEF Safe
  <2>5. Flowing'
    BY <2>3 DEF Flowing
  <2> QED  BY <2>1, <2>2, <2>4, <2>5 DEF Safe
<1> QED  BY <1>6, <1>7, <1>8, <1>9, CalmIs DEF PushInv

---------------------------------------------------------------------------
(* HandleAvPacket                                                          *)

\* A step of a HandleAvPacket or of a remote server.
LEMMA HandlerStep ==
    ASSUME PushInv, PushTyped', UNCHANGED <<mapPVars, startflag, client, loopVars, hobj, overlap>>,
           \A c \in Conns : ConnPlace(c)' /\ (hpc'[c] # "none" => hpc[c] # "none") /\ (Using(c)' => Using(c)),
           \A o \in Objects : chan[o] = <<>> => chan'[o] = <<>>,
           ~overlap => ~pushCrashed',
           ~overlap => \A c \in Conns :
               /\ Run(remote[c])' /\ (Served(c)' => Served(c) /\ Flow(c)' = Flow(c))
               /\ ~startflag[hobj[c]] /\ hpc[c] \in {"check", "done"} =>
                    hpc'[c] \in {"check", "done"} /\ remote'[c] = remote[c]
    PROVE  PushInv'
<1>0. PushTyped /\ PushPlaces /\ Counting /\ Owed /\ Owned
  BY DEF PushInv
<1>1. UNCHANGED <<listOf, objects, nobj, startflag, client, pc, todo, obj, npkt, hobj, overlap>>
  BY DEF mapPVars, loopVars
<1>2. PushPlaces'
  <2>1. \A l \in Loops : LoopPlace(l)'
    BY <1>0, <1>1 DEF PushPlaces, LoopPlace
  <2> QED  BY <2>1 DEF PushPlaces
<1>3. Counting'
  <2>1. \A k \in Loops, u \in Urls : (Waits(k, u)' => Waits(k, u)) /\ (Undialled(k, u)' => Undialled(k, u))
    BY <1>1 DEF Waits, Undialled
  <2> QED  BY <1>0, <1>1, <2>1, CountingFalls
<1>4. Owed'
  <2>1. \A k \in Loops, u \in Urls : Holds(k, u) => Holds(k, u)'
    BY <1>1 DEF Holds
  <2> QED  BY <1>0, <1>1, <2>1 DEF Owed
<1>5. Owned'
  BY <1>0, <1>1 DEF Owned
<1>6. ASSUME ~overlap' PROVE Safe'
  <2>0. ~overlap /\ Safe /\ OneBusy /\ Belongs /\ Working /\ Unfed /\ Flowing
    BY <1>1, <1>6, CalmIs DEF PushInv, Safe
  <2>1. OneBusy' /\ Working'
    <3>1. OneBusy'
      BY <1>1, <2>0 DEF OneBusy, Busy
    <3>2. \A l \in Loops : WorkingAt(l)'
      BY <1>1, <2>0 DEF Working, WorkingAt
    <3> QED  BY <3>1, <3>2 DEF Working
  <2>2. ASSUME NEW c \in Conns, Using(c)' PROVE BelongsAt(c)'
    <3>1. BelongsAt(c)
      BY <2>0, <2>2 DEF Belongs
    <3>2. ~startflag[hobj[c]] /\ hpc[c] \in {"check", "done"} =>
             hpc'[c] \in {"check", "done"} /\ remote'[c] = remote[c]
      BY <2>0
    <3> QED  BY <1>1, <3>1, <3>2 DEF BelongsAt
  <2>3. Unfed'
    <3>1. \A o \in Objects : Dormant(o)' => Dormant(o)
      BY <1>1 DEF Dormant
    <3> QED  BY <1>1, <2>0, <3>1 DEF Unfed
  <2>4. Flowing'
    <3>1. \A c \in Conns : Served(c)' => Served(c) /\ Flow(c)' = Flow(c) /\ hobj'[c] = hobj[c]
      BY <1>1, <2>0
    <3>2. \A k \in Loops : /\ pc'[k] = "put" => pc[k] = "put" /\ todo'[k] = todo[k] /\ obj'[k] = obj[k]
                           /\ \A u \in Urls : Given(k, u)' = Given(k, u)
      BY <1>1 DEF Given
    <3> QED  BY <2>0, <3>1, <3>2, FlowingHolds
  <2> QED  BY <2>0, <2>1, <2>2, <2>3, <2>4 DEF Safe, Belongs
<1> QED  BY <1>2, <1>3, <1>4, <1>5, <1>6, CalmIs DEF PushInv

LEMMA HandleCheckStep == ASSUME PushInv, NEW c0 \in Conns, HandleCheck(c0) PROVE PushInv'
<1>0. PushTyped /\ PushPlaces /\ hpc[c0] = "check"
  BY DEF PushInv, HandleCheck
<1>1. /\ UNCHANGED <<mapPVars, startflag, client, loopVars, hobj, overlap>>
      /\ UNCHANGED <<listOf, objects, nobj, chan, open, pc, todo, obj, npkt, hpkt, remote, pushCrashed>>
      /\ hpc' = [hpc EXCEPT ![c0] = IF startflag[hobj[c0]] THEN "loop" ELSE "done"]
  BY DEF HandleCheck, mapPVars, objVars, loopVars, Set
<1>2. /\ hpc' \in [Conns -> Handling \cup {"none", "done"}]
      /\ hpc'[c0] = (IF startflag[hobj[c0]] THEN "loop" ELSE "done")
      /\ \A c \in Conns \ {c0} : hpc'[c] = hpc[c]
  BY <1>0, <1>1 DEF PushTyped, Handling
<1>3. PushTyped'
  BY <1>0, <1>1, <1>2 DEF PushTyped
<1>4. ASSUME NEW c \in Conns
      PROVE  /\ ConnPlace(c)' /\ (hpc'[c] # "none" => hpc[c] # "none") /\ (Using(c)' => Using(c))
             /\ Served(c)' => Served(c)
             /\ ~startflag[hobj[c]] /\ hpc[c] \in {"check", "done"} => hpc'[c] \in {"check", "done"}
  <2>1. CASE c = c0
    BY <1>0, <1>1, <1>2, <2>1 DEF PushPlaces, ConnPlace, Using, Served, Handling
  <2>2. CASE c # c0
    BY <1>0, <1>1, <1>2, <2>2 DEF PushPlaces, ConnPlace, Using, Served
  <2> QED  BY <2>1, <2>2
<1>5. \A c \in Conns : Flow(c)' = Flow(c)
  BY <1>1 DEF Flow, Held
<1>6. ~overlap => ~pushCrashed' /\ \A c \in Conns : Run(remote[c])'
  BY <1>1, RunStays DEF PushInv, Calm
<1> QED  BY <1>1, <1>3, <1>4, <1>5, <1>6, HandlerStep

LEMMA RemoteGoneStep == ASSUME PushInv, NEW c0 \in Conns, RemoteGone(c0) PROVE PushInv'
<1>0. PushTyped /\ PushPlaces
  BY DEF PushInv
<1>1. /\ UNCHANGED <<mapPVars, startflag, client, loopVars, hobj, overlap>>
      /\ UNCHANGED <<listOf, objects, nobj, chan, hpc, pc, todo, obj, npkt, hpkt, remote, pushCrashed>>
      /\ open' \subseteq open
  BY DEF RemoteGone, mapPVars, loopVars, handVars, histPVars
<1>3. PushTyped'
  BY <1>0, <1>1 DEF PushTyped
<1>4. \A c \in Conns : ConnPlace(c)' /\ (Using(c)' => Using(c)) /\ (Served(c)' => Served(c))
  BY <1>0, <1>1 DEF PushPlaces, ConnPlace, Using, Served
<1>5. \A c \in Conns : Flow(c)' = Flow(c)
  BY <1>1 DEF Flow, Held
<1>6. ~overlap => ~pushCrashed' /\ \A c \in Conns : Run(remote[c])'
  BY <1>1, RunStays DEF PushInv, Calm
<1> QED  BY <1>1, <1>3, <1>4, <1>5, <1>6, HandlerStep

\* The packet in front of the channel is taken in hand, and one in hand is
\* sent: the flow is the same.
LEMMA TakeInHand ==
    ASSUME NEW r \in Seq(Pkts), NEW q \in Seq(Pkts), q # <<>>
    PROVE  (r \o <<Head(q)>>) \o Tail(q) = (r \o <<>>) \o q
<1> DEFINE h == <<Head(q)>>
           t == Tail(q)
<1>1. h \in Seq(Pkts) /\ t \in Seq(Pkts)
  BY HeadTailProperties
<1>2. h \o t = q
  OBVIOUS
<1>3. r \o <<>> = r
  BY ConcatEmptySeq
<1> HIDE DEF h, t
<1>4. (r \o h) \o t = r \o (h \o t)
  BY <1>1, Regroup, SMTT(30)
<1>5. (r \o h) \o t = (r \o <<>>) \o q
  BY <1>2, <1>3, <1>4
<1> QED  BY <1>5 DEF h, t

LEMMA SendInHand ==
    ASSUME NEW r \in Seq(Pkts), NEW e \in Pkts, NEW q \in Seq(Pkts)
    PROVE  (Append(r, e) \o <<>>) \o q = (r \o <<e>>) \o q
<1>1. Append(r, e) = r \o <<e>> /\ Append(r, e) \in Seq(Pkts)
  BY AppendIsConcat, AppendProperties
<1>2. Append(r, e) \o <<>> = Append(r, e)
  BY <1>1, ConcatEmptySeq
<1> QED  BY <1>1, <1>2

LEMMA RunPrefix ==
    ASSUME NEW r \in Seq(Pkts), NEW q \in Seq(Pkts), Run(r \o q)
    PROVE  Run(r)
<1> DEFINE s == r \o q
<1>1. /\ Len(r) \in Nat /\ Len(q) \in Nat /\ DOMAIN r = 1 .. Len(r) /\ DOMAIN s = 1 .. Len(r) + Len(q)
      /\ \A i \in 1 .. Len(r) : s[i] = r[i]
  BY ConcatProperties, LenProperties
<1>2. Run(s)
  OBVIOUS
<1> HIDE DEF s
<1> SUFFICES ASSUME NEW i \in 1 .. Len(r), NEW j \in 1 .. Len(r), i < j, r[i][1] = r[j][1]
             PROVE  /\ r[i][2] < r[j][2]
                    /\ \A n \in r[i][2] .. r[j][2] : \E k \in i .. j : r[k] = <<r[i][1], n>>
  <2>1. DOMAIN r = 1 .. Len(r)
    BY <1>1
  <2> QED  BY <2>1, RunOfLength, ZenonT(40)
<1>3. i \in DOMAIN s /\ j \in DOMAIN s /\ s[i] = r[i] /\ s[j] = r[j]
  BY <1>1
<1>4. \A k \in i .. j : s[k] = r[k]
  BY <1>1
<1>5. /\ s[i][2] < s[j][2]
      /\ \A n \in s[i][2] .. s[j][2] : \E k \in i .. j : s[k] = <<s[i][1], n>>
  BY <1>2, <1>3 DEF Run
<1> QED  BY <1>3, <1>4, <1>5

\* A HandleAvPacket that is past its test has its object for itself.
LEMMA HandlerAlone ==
    ASSUME PushInv, ~overlap, NEW c0 \in Conns, hpc[c0] \in {"loop", "send"}
    PROVE  /\ client[hobj[c0]] = c0 /\ startflag[hobj[c0]]
           /\ \A c \in Conns : Served(c) /\ hobj[c] = hobj[c0] => c = c0
<1>1. Belongs
  BY DEF PushInv, Calm
<1>2. BelongsAt(c0)
  BY <1>1 DEF Belongs, Using, Handling
<1>3. \A c \in Conns : Served(c) => client[hobj[c]] = c
  BY <1>1 DEF Belongs, BelongsAt, Using, Served
<1> QED  BY <1>2, <1>3 DEF BelongsAt

LEMMA NotAPkt == \A p \in Pkts : p # NoPkt
<1> SUFFICES ASSUME NEW a \in Loops, NEW n \in 1 .. MaxPackets PROVE <<a, n>> # <<>>
  BY DEF Pkts, NoPkt
<1>1. Len(<<a, n>>) = 2 /\ Len(<<>>) = 0
  OBVIOUS
<1> QED  BY <1>1

LEMMA HandleRecvStep == ASSUME PushInv, NEW c0 \in Conns, HandleRecv(c0) PROVE PushInv'
<1> DEFINE q == chan[hobj[c0]]
<1>0. PushTyped /\ PushPlaces /\ hpc[c0] = "loop" /\ q # <<>>
  BY DEF PushInv, HandleRecv
<1>1. /\ UNCHANGED <<mapPVars, startflag, client, loopVars, hobj, overlap>>
      /\ UNCHANGED <<listOf, objects, nobj, open, pc, todo, obj, npkt, remote, pushCrashed>>
      /\ chan' = [chan EXCEPT ![hobj[c0]] = Tail(q)]
  BY DEF HandleRecv, mapPVars, loopVars, histPVars, Set
<1>2. hobj[c0] \in Objects /\ q \in Seq(Pkts) /\ Head(q) \in Pkts /\ Tail(q) \in Seq(Pkts) /\ Len(Tail(q)) <= Len(q)
  <2>1. hobj[c0] \in Objects /\ q \in Seq(Pkts)
    BY <1>0, FlowTyped
  <2> QED  BY <1>0, <2>1, HeadTailProperties, LenProperties
<1>3. \/ startflag[hobj[c0]] /\ hpc' = [hpc EXCEPT ![c0] = "send"] /\ hpkt' = [hpkt EXCEPT ![c0] = Head(q)]
      \/ ~startflag[hobj[c0]] /\ UNCHANGED <<hpc, hpkt>>
  BY DEF HandleRecv, Set
<1>n. Head(q) # NoPkt
  BY <1>2, NotAPkt
<1> HIDE DEF q
<1>4. /\ chan' \in [Objects -> Seq(Pkts)] /\ chan'[hobj[c0]] = Tail(q)
      /\ \A o \in Objects \ {hobj[c0]} : chan'[o] = chan[o]
      /\ \A o \in Objects : Len(chan'[o]) <= ChanCap
  <2>1. Len(Tail(q)) <= ChanCap
    <3>1. Len(q) <= ChanCap
      BY <1>0, <1>2 DEF PushTyped, q
    <3> QED  BY <1>2, <3>1, LenProperties, PushAssumption
  <2> QED  BY <1>0, <1>1, <1>2, <2>1 DEF PushTyped
<1>5. /\ hpc' \in [Conns -> Handling \cup {"none", "done"}] /\ hpkt' \in [Conns -> Pkts \cup {NoPkt}]
      /\ \A c \in Conns \ {c0} : hpc'[c] = hpc[c] /\ hpkt'[c] = hpkt[c]
      /\ \/ startflag[hobj[c0]] /\ hpc'[c0] = "send" /\ hpkt'[c0] = Head(q)
         \/ ~startflag[hobj[c0]] /\ hpc'[c0] = "loop" /\ hpkt'[c0] = hpkt[c0]
  <2>1. hpc \in [Conns -> Handling \cup {"none", "done"}] /\ hpkt \in [Conns -> Pkts \cup {NoPkt}]
    BY <1>0 DEF PushTyped
  <2>2. CASE startflag[hobj[c0]] /\ hpc' = [hpc EXCEPT ![c0] = "send"] /\ hpkt' = [hpkt EXCEPT ![c0] = Head(q)]
    <3>1. "send" \in Handling \cup {"none", "done"}
      BY DEF Handling
    <3>2. /\ hpc' \in [Conns -> Handling \cup {"none", "done"}] /\ hpc'[c0] = "send"
          /\ \A c \in Conns \ {c0} : hpc'[c] = hpc[c]
      BY <2>1, <2>2, <3>1
    <3>3. /\ hpkt' \in [Conns -> Pkts \cup {NoPkt}] /\ hpkt'[c0] = Head(q)
          /\ \A c \in Conns \ {c0} : hpkt'[c] = hpkt[c]
      BY <1>2, <2>1, <2>2
    <3> QED  BY <2>2, <3>2, <3>3
  <2>3. CASE ~startflag[hobj[c0]] /\ UNCHANGED <<hpc, hpkt>>
    BY <1>0, <2>1, <2>3
  <2> QED  BY <1>3, <2>2, <2>3
<1>6. PushTyped'
  BY <1>0, <1>1, <1>4, <1>5 DEF PushTyped
<1>7. ASSUME NEW c \in Conns
      PROVE  /\ ConnPlace(c)' /\ (hpc'[c] # "none" => hpc[c] # "none") /\ (Using(c)' => Using(c))
             /\ Served(c)' => Served(c)
             /\ hpc[c] \in {"check", "done"} => hpc'[c] \in {"check", "done"}
  <2>1. CASE c = c0
    <3>1. ConnPlace(c)
      BY <1>0 DEF PushPlaces
    <3> QED  BY <1>0, <1>1, <1>5, <1>n, <2>1, <3>1 DEF ConnPlace, Using, Served, Handling
  <2>2. CASE c # c0
    BY <1>0, <1>1, <1>5, <2>2 DEF PushPlaces, ConnPlace, Using, Served
  <2> QED  BY <2>1, <2>2
<1>8. \A o \in Objects : chan[o] = <<>> => chan'[o] = <<>>
  <2>1. chan[hobj[c0]] # <<>>
    BY <1>0 DEF q
  <2> QED  BY <1>4, <2>1
<1>9. ASSUME ~overlap, NEW c \in Conns, Served(c)' PROVE Flow(c)' = Flow(c)
  <2>0. Served(c) /\ hpc[c] # "none"
    BY <1>7, <1>9 DEF Served, Handling
  <2>a. startflag[hobj[c0]] /\ (hobj[c] = hobj[c0] => c = c0)
    BY <1>0, <1>9, <2>0, HandlerAlone
  <2>1. CASE c = c0
    <3>1. hpkt[c0] = NoPkt /\ remote[c0] \in Seq(Pkts)
      BY <1>0 DEF PushPlaces, ConnPlace, PushTyped
    <3>2. Flow(c0) = (remote[c0] \o <<>>) \o q
      BY <3>1 DEF Flow, Held, q
    <3>3. Flow(c0)' = (remote[c0] \o <<Head(q)>>) \o Tail(q)
      BY <1>1, <1>4, <1>5, <1>n, <2>a DEF Flow, Held
    <3>4. (remote[c0] \o <<Head(q)>>) \o Tail(q) = (remote[c0] \o <<>>) \o q
      BY <1>0, <1>2, <3>1, TakeInHand
    <3> QED  BY <2>1, <3>2, <3>3, <3>4
  <2>2. CASE c # c0
    <3>1. hobj[c] \in Objects
      BY <2>0, FlowTyped
    <3> QED  BY <1>1, <1>4, <1>5, <2>2, <2>a, <3>1 DEF Flow, Held
  <2> QED  BY <2>1, <2>2
<1>10. ~overlap => ~pushCrashed' /\ \A c \in Conns : Run(remote[c])'
  BY <1>1, RunStays DEF PushInv, Calm
<1> QED  BY <1>1, <1>6, <1>7, <1>8, <1>9, <1>10, HandlerStep

LEMMA HandleSendStep == ASSUME PushInv, NEW c0 \in Conns, HandleSend(c0) PROVE PushInv'
<1> DEFINE k0 == client[hobj[c0]]
           e == hpkt[c0]
<1>0. PushTyped /\ PushPlaces /\ hpc[c0] = "send" /\ open \subseteq Conns
  BY DEF PushInv, HandleSend, PushTyped
<1>1. /\ UNCHANGED <<mapPVars, startflag, client, loopVars, hobj, overlap>>
      /\ UNCHANGED <<listOf, objects, nobj, chan, open, pc, todo, obj, npkt>>
      /\ pushCrashed' \in {FALSE, hpc[k0] = "none"}
      /\ remote' = IF k0 \in open THEN [remote EXCEPT ![k0] = Append(remote[k0], e)] ELSE remote
      /\ hpc' = [hpc EXCEPT ![c0] = "loop"] /\ hpkt' = [hpkt EXCEPT ![c0] = NoPkt]
  BY DEF HandleSend, mapPVars, objVars, loopVars, UseClient, Set
<1>2. e \in Pkts /\ e # NoPkt
  BY <1>0 DEF PushTyped, PushPlaces, ConnPlace
<1> HIDE DEF k0, e
<1>3. /\ remote' \in [Conns -> Seq(Pkts)]
      /\ \A c \in Conns : remote'[c] = IF c = k0 /\ k0 \in open THEN Append(remote[c], e) ELSE remote[c]
  <2>1. remote \in [Conns -> Seq(Pkts)]
    BY <1>0 DEF PushTyped
  <2>2. CASE k0 \in open
    <3>1. k0 \in Conns /\ Append(remote[k0], e) \in Seq(Pkts)
      BY <1>0, <1>2, <2>1, <2>2, AppendProperties
    <3> QED  BY <1>1, <2>1, <2>2, <3>1
  <2>3. CASE k0 \notin open
    BY <1>1, <2>1, <2>3
  <2> QED  BY <2>2, <2>3
<1>5. /\ hpc' \in [Conns -> Handling \cup {"none", "done"}] /\ hpkt' \in [Conns -> Pkts \cup {NoPkt}]
      /\ \A c \in Conns \ {c0} : hpc'[c] = hpc[c] /\ hpkt'[c] = hpkt[c]
      /\ hpc'[c0] = "loop" /\ hpkt'[c0] = NoPkt
  BY <1>0, <1>1 DEF PushTyped, Handling
<1>6. PushTyped'
  <2>1. pushCrashed' \in BOOLEAN
    BY <1>1
  <2> QED  BY <1>0, <1>1, <1>3, <1>5, <2>1 DEF PushTyped
<1>7. ASSUME NEW c \in Conns
      PROVE  /\ ConnPlace(c)' /\ (hpc'[c] # "none" => hpc[c] # "none") /\ (Using(c)' => Using(c))
             /\ Served(c)' => Served(c)
             /\ hpc[c] \in {"check", "done"} => hpc'[c] \in {"check", "done"}
  <2>0. ConnPlace(c)
    BY <1>0 DEF PushPlaces
  <2>1. CASE c = c0
    BY <1>0, <1>1, <1>5, <2>0, <2>1 DEF ConnPlace, Using, Served, Handling
  <2>2. CASE c # c0
    <3>1. hpc[c] = "none" => remote'[c] = remote[c]
      BY <1>3, <2>0 DEF ConnPlace
    <3> QED  BY <1>0, <1>1, <1>5, <2>0, <2>2, <3>1 DEF ConnPlace, Using, Served
  <2> QED  BY <2>1, <2>2
<1>8. ASSUME ~overlap
      PROVE  /\ ~pushCrashed' /\ k0 = c0
             /\ \A c \in Conns : Served(c)' => Flow(c)' = Flow(c)
             /\ \A c \in Conns : Run(remote[c])'
  <2>0. k0 = c0 /\ \A c \in Conns : Run(remote[c])
    BY <1>0, <1>8, HandlerAlone DEF k0, PushInv, Calm
  <2>1. \A c \in Conns \ {c0} : remote'[c] = remote[c]
    BY <1>3, <2>0
  <2>2. \A c \in Conns : c # c0 => Flow(c)' = Flow(c)
    BY <1>1, <1>5, <2>1 DEF Flow, Held
  <2>3. CASE c0 \notin open
    <3>1. remote' = remote /\ ~Served(c0)'
      BY <1>1, <2>0, <2>3 DEF Served
    <3>2. \A c \in Conns : Run(remote[c])'
      BY <2>0, <3>1, RunStays
    <3> QED  BY <1>0, <1>1, <2>0, <2>2, <3>1, <3>2
  <2>4. CASE c0 \in open
    <3>1. /\ remote[c0] \in Seq(Pkts) /\ chan[hobj[c0]] \in Seq(Pkts)
      BY <1>0, FlowTyped
    <3>2. Flow(c0) = (remote[c0] \o <<e>>) \o chan[hobj[c0]]
      BY <1>2 DEF Flow, Held, e
    <3>3. Flow(c0)' = (remote'[c0] \o <<>>) \o chan[hobj[c0]] /\ remote'[c0] = Append(remote[c0], e)
      BY <1>1, <1>3, <1>5, <2>0, <2>4 DEF Flow, Held
    <3>4. Flow(c0)' = Flow(c0)
      BY <1>2, <3>1, <3>2, <3>3, SendInHand
    <3>5. Run(remote'[c0])
      <4>1. Run(Flow(c0))
        BY <1>0, <1>8, <2>4 DEF PushInv, Calm, Flowing, Served, Handling
      <4>2. Append(remote[c0], e) \in Seq(Pkts) /\ Append(remote[c0], e) = remote[c0] \o <<e>>
        BY <1>2, <3>1, AppendProperties, AppendIsConcat
      <4>3. Run(Append(remote[c0], e) \o chan[hobj[c0]])
        BY <3>2, <4>1, <4>2
      <4> QED  BY <3>1, <3>3, <4>2, <4>3, RunPrefix
    <3>6. \A c \in Conns : Run(remote[c])'
      <4> SUFFICES ASSUME NEW c \in Conns PROVE Run(remote'[c])
        BY DEF Run
      <4>1. CASE c = c0
        BY <3>5, <4>1
      <4>2. CASE c # c0
        BY <2>0, <2>1, <4>2
      <4> QED  BY <4>1, <4>2
    <3> QED  BY <1>0, <1>1, <2>0, <2>2, <3>4, <3>6
  <2> QED  BY <2>3, <2>4
<1>9. ASSUME ~overlap, NEW c \in Conns, hpc[c] \in {"check", "done"} PROVE remote'[c] = remote[c]
  BY <1>0, <1>3, <1>8, <1>9
<1> QED  BY <1>1, <1>6, <1>7, <1>8, <1>9, HandlerStep

---------------------------------------------------------------------------
(* The theorems                                                            *)

LEMMA InitPushInv == PushInit => PushInv
<1> SUFFICES ASSUME PushInit PROVE PushInv
  OBVIOUS
<1> USE DEF PushInit
<1>1. PushTyped
  <2>1. \A S : <<>> \in Seq(S) /\ Len(<<>>) = 0
    OBVIOUS
  <2>2. ChanCap \in Nat /\ MaxPackets \in Nat
    BY PushAssumption
  <2>3. chan \in [Objects -> Seq(Pkts)] /\ \A o \in Objects : Len(chan[o]) <= ChanCap
    BY <2>1, <2>2
  <2>4. /\ nobj \in Nat /\ objects \in [Urls -> 0 .. nobj]
        /\ obj \in [Loops -> 0 .. nobj] /\ hobj \in [Conns -> 0 .. nobj]
    BY DEF Nil
  <2>5. npkt \in [Loops -> 0 .. MaxPackets] /\ pc \in [Loops -> Places] /\ todo \in [Loops -> Seq(Urls)]
    BY <2>2 DEF Places
  <2>6. startflag \in [Objects -> BOOLEAN] /\ client \in [Objects -> Conns \cup {NoConn}]
    OBVIOUS
  <2>7. /\ hpc \in [Conns -> Handling \cup {"none", "done"}] /\ hpkt \in [Conns -> Pkts \cup {NoPkt}]
        /\ remote \in [Conns -> Seq(Pkts)]
    BY <2>1
  <2> QED  BY <2>3, <2>4, <2>5, <2>6, <2>7 DEF PushTyped
<1>2. PushPlaces
  BY DEF PushPlaces, LoopPlace, ConnPlace, Holding, AtUrl, Starting, Stopping, Handling
<1>3. Counting
  <2>1. Pending \in SUBSET Conns
    BY DEF Pending
  <2>2. Cardinality(Pending) <= Cardinality(Conns)
    BY <2>1, ObjectsAre, FS_Subset
  <2>3. nobj + Cardinality(Pending) <= Cardinality(Conns)
    BY <2>2, PendingFinite, ObjectsAre
  <2> QED  BY <2>3 DEF Counting
<1>4. Owed /\ Owned
  BY DEF Owed, Owned
<1>5. Safe
  <2>1. OneBusy /\ Working
    BY DEF OneBusy, Busy, Working, WorkingAt, Starting, Stopping, Holding
  <2>2. Belongs /\ Flowing
    BY DEF Belongs, Using, Flowing, Served, Handling
  <2>3. Unfed
    BY DEF Unfed
  <2>4. \A c \in Conns : Run(remote[c])
    <3>1. DOMAIN <<>> = {}
      OBVIOUS
    <3> QED  BY <3>1 DEF Run
  <2> QED  BY <2>1, <2>2, <2>3, <2>4 DEF Safe
<1> QED  BY <1>1, <1>2, <1>3, <1>4, <1>5, CalmIs DEF PushInv

LEMMA NextPushInv == PushInv /\ [PushNext]_pushVars => PushInv'
<1> SUFFICES ASSUME PushInv, [PushNext]_pushVars PROVE PushInv'
  OBVIOUS
<1>1. ASSUME NEW l \in Loops, StartStaticPush(l) \/ ReadPkt(l) \/ StopStaticPush(l) PROVE PushInv'
  BY <1>1, StartStep, ReadStep, StopStep
<1>2. ASSUME NEW l \in Loops, Loop(l) PROVE PushInv'
  <2>1. CASE GetObject(l) \/ CreateObject(l) \/ StartBegin(l) \/ StartDial(l) \/ StartFlag(l)
    BY <2>1, GetObjectStep, CreateStep, StartBeginStep, StartDialStep, StartFlagStep
  <2>2. CASE SendStaticPush(l) \/ PutPkt(l)
    BY <2>2, SendStep, PutStep
  <2>3. CASE StopGet(l) \/ (\E c \in Conns : StopCtrl(l, c)) \/ StopUnset(l) \/ Release(l)
    BY <2>3, StopGetStep, StopCtrlStep, StopUnsetStep, ReleaseStep
  <2> QED  BY <1>2, <2>1, <2>2, <2>3 DEF Loop
<1>3. ASSUME NEW c \in Conns, Handle(c) \/ RemoteGone(c) PROVE PushInv'
  BY <1>3, HandleCheckStep, HandleRecvStep, HandleSendStep, RemoteGoneStep DEF Handle
<1>4. CASE UNCHANGED pushVars
  <2>1. UNCHANGED <<listOf, objects, nobj, startflag, chan, client, open, pc, todo, obj, npkt,
                    hpc, hobj, hpkt, remote, overlap, pushCrashed>>
    BY <1>4 DEF pushVars, mapPVars, objVars, loopVars, handVars, histPVars
  <2>2. UNCHANGED <<mapPVars, startflag, client, loopVars, hobj, overlap>>
    BY <2>1 DEF mapPVars, loopVars
  <2>3. PushTyped'
    BY <2>1 DEF PushInv, PushTyped
  <2>4. \A c \in Conns : ConnPlace(c)' /\ (Using(c)' => Using(c)) /\ (Served(c)' => Served(c))
    BY <2>1 DEF PushInv, PushPlaces, ConnPlace, Using, Served
  <2>5. \A c \in Conns : Flow(c)' = Flow(c)
    BY <2>1 DEF Flow, Held
  <2>6. ~overlap => ~pushCrashed' /\ \A c \in Conns : Run(remote[c])'
    BY <2>1, RunStays DEF PushInv, Calm
  <2> QED  BY <2>1, <2>2, <2>3, <2>4, <2>5, <2>6, HandlerStep
<1> QED  BY <1>1, <1>2, <1>3, <1>4 DEF PushNext

LEMMA InductivePush == PushSpec => []PushInv
  BY InitPushInv, NextPushInv, PTL DEF PushSpec

LEMMA InvPushSafe == PushInv => PushSafe
<1> SUFFICES ASSUME PushInv PROVE PushSafe
  OBVIOUS
<1>1. PushTypeOK
  <2>1. nobj \in Objects \cup {0}
    BY Made, ObjectsAre DEF PushInv, PushTyped
  <2> QED  BY <2>1 DEF PushInv, PushTyped, PushTypeOK, Places, AtUrl, Handling, Pkts
<1>2. CrashNeedsOverlap
  BY DEF PushInv, Calm, CrashNeedsOverlap
<1>3. PushedInOrder
  <2> SUFFICES ASSUME ~overlap, NEW c \in Conns,
                      NEW i \in DOMAIN remote[c], NEW j \in DOMAIN remote[c],
                      i < j, remote[c][i][1] = remote[c][j][1]
               PROVE  /\ remote[c][i][2] < remote[c][j][2]
                      /\ \A n \in remote[c][i][2] .. remote[c][j][2] :
                            \E k \in i .. j : remote[c][k] = <<remote[c][i][1], n>>
    BY DEF PushedInOrder
  <2>1. Run(remote[c])
    BY DEF PushInv, Calm
  <2> QED  BY <2>1 DEF Run
<1> QED  BY <1>1, <1>2, <1>3 DEF PushSafe

LEMMA InvNothingLeft == PushInv => NothingLeft
<1> SUFFICES ASSUME PushInv, ~overlap, \A l \in Loops : pc[l] \in {"idle", "ended"}
             PROVE  open = {} /\ \A u \in Urls : objects[u] = Nil
  BY DEF NothingLeft
<1>1. \A u \in Urls : objects[u] = Nil
  BY DEF PushInv, Owed, Holds, Starting, Stopping
<1>2. ASSUME NEW c \in open PROVE FALSE
  <2>1. c \in Conns /\ Using(c) /\ c[2] \in Urls
    BY <1>2 DEF PushInv, PushTyped, Using, Conns
  <2>2. objects[c[2]] = hobj[c] /\ hobj[c] # Nil
    BY <1>2, <2>1 DEF PushInv, Calm, Belongs, BelongsAt, PushPlaces, ConnPlace
  <2> QED  BY <1>1, <2>1, <2>2
<1> QED  BY <1>1, <1>2

\* Whatever lists are configured, however many streams push and however long
\* the channels are: the process does not die of a client without a connection,
\* and every remote server gets the packets of a stream in order and without
\* a gap, as long as no loop starts or stops its pushes while another does
\* (Start, SendStaticPush and HandleAvPacket share startflag, connectClient and
\* packet_chan without a lock).
THEOREM PushIsSafe == PushSpec => []PushSafe
  BY InductivePush, InvPushSafe, PTL

\* Without such an overlap the last loop to end leaves no object in
\* G_StaticPushMap and no connection open (StopStaticPush, Stop,
\* ReleaseStaticPushObject).
THEOREM PushLeavesNothing == PushSpec => []NothingLeft
  BY InductivePush, InvNothingLeft, PTL
=============================================================================
