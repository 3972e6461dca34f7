------------------------------ MODULE RoomKeys ------------------------------
(***************************************************************************)
(* The room keys: RoomKeysType of src/configure/channel.go, used by the    *)
(* control API (src/endpoint/api.go: get, reset, delete) and by the RTMP   *)
(* server when a publisher arrives (src/protocol/rtmp/rtmp.go).  One store *)
(* maps rooms to keys and keys to rooms: an in-process cache or a redis    *)
(* server.  Single gets, sets and deletes are atomic, sequences of them    *)
(* are not, and each of them may fail in redis.                            *)
(***************************************************************************)
EXTENDS Integers, FiniteSets

CONSTANTS
    Requests,     \* goroutines that serve one request each
    Rooms, Keys,  \* names; a key of 48 random characters names no room
    None          \* neither a room nor a key

ASSUME RoomAssumption == Rooms \cap Keys = {} /\ None \notin Rooms \cup Keys

Names == Rooms \cup Keys

VARIABLES
    saveInLocal, \* the store is in the process; configured at the start
    store,    \* localCache or redis: what is stored under a name
    used,     \* keys that RandStringRunes has returned
    pc, op,   \* per request: where it is, and what it is
    room, key,\* per request: the room and the key it handles
    answer,   \* per request: how it ended
    failures, \* history: an operation of redis has failed
    raced     \* history: per request, another one of its room was under way

reqVars == <<pc, op, room, key, answer>>
vars == <<saveInLocal, store, used, reqVars, failures, raced>>

Init ==
    /\ saveInLocal \in BOOLEAN
    /\ store = [x \in Names |-> None] /\ used = {}
    /\ pc = [q \in Requests |-> "idle"] /\ op = [q \in Requests |-> "none"]
    /\ room = [q \in Requests |-> None] /\ key = [q \in Requests |-> None]
    /\ answer = [q \in Requests |-> "none"]
    /\ failures = FALSE /\ raced = [q \in Requests |-> FALSE]

---------------------------------------------------------------------------
Goto(q, l) == pc' = [pc EXCEPT ![q] = l]
Done(q, a) == Goto(q, "done") /\ answer' = [answer EXCEPT ![q] = a]
Put(x, v)  == store' = [store EXCEPT ![x] = v]

\* An operation of redis fails, whether or not the server has executed it: the
\* request ends with the error.
RedisFails(q) == ~saveInLocal /\ failures' = TRUE /\ Done(q, "error")

Active(q) == pc[q] \notin {"idle", "done"}

\* A request for room c arrives and starts at label l.
Begin(q, o, c, l) ==
    /\ pc[q] = "idle"
    /\ Goto(q, l)
    /\ op' = [op EXCEPT ![q] = o] /\ room' = [room EXCEPT ![q] = c]
    /\ raced' = [p \in Requests |->
                    \/ raced[p]
                    \/ p = q /\ \E other \in Requests : Active(other) /\ room[other] = c
                    \/ Active(p) /\ room[p] = c]
    /\ UNCHANGED <<store, used, key, answer, failures, saveInLocal>>

HandleGet(q, c)    == Begin(q, "get", c, "get")
HandleReset(q, c)  == Begin(q, "reset", c, "pick")
HandleDelete(q, c) == Begin(q, "delete", c, "delete")
\* A publisher names the room: rtmp_noauth.
HandleNoAuth(q, c) == Begin(q, "publish", c, "get")

\* What a request does with the key GetKey or SetKey returned: the API answers
\* with it, the RTMP server looks it up.
Return(q) ==
    IF op[q] = "publish" THEN Goto(q, "lookup") /\ UNCHANGED answer ELSE Done(q, "ok")

\* GetKey
GetKey(q) ==
    /\ pc[q] = "get"
    /\ \/ /\ store[room[q]] # None
          /\ key' = [key EXCEPT ![q] = store[room[q]]]
          /\ Return(q) /\ UNCHANGED failures
       \/ store[room[q]] = None /\ Goto(q, "pick") /\ UNCHANGED <<key, answer, failures>>
       \/ RedisFails(q) /\ UNCHANGED key
    /\ UNCHANGED <<store, used, op, room, raced, saveInLocal>>

\* SetKey: a random key that is not in the store.  48 random characters never
\* come twice.
SetKeyPick(q) ==
    /\ pc[q] = "pick"
    /\ \/ /\ \E k \in Keys \ used :
                /\ store[k] = None
                /\ key' = [key EXCEPT ![q] = k]
                /\ used' = used \cup {k}
          /\ Goto(q, "setRoom") /\ UNCHANGED <<answer, failures>>
       \/ RedisFails(q) /\ UNCHANGED <<key, used>>
    /\ UNCHANGED <<store, op, room, raced, saveInLocal>>

\* ... the room's entry ...
SetKeyRoom(q) ==
    /\ pc[q] = "setRoom"
    /\ \/ Put(room[q], key[q]) /\ Goto(q, "setKey") /\ UNCHANGED <<answer, failures>>
       \/ RedisFails(q) /\ (UNCHANGED store \/ Put(room[q], key[q]))
    /\ UNCHANGED <<used, op, room, key, raced, saveInLocal>>

\* Mutant: the key's entry is not written.
SetKeyKeyNot(q) ==
    /\ pc[q] = "setKey"
    /\ Return(q)
    /\ UNCHANGED <<store, failures, used, op, room, key, raced, saveInLocal>>

\* ... the key's entry.
SetKeyKey(q) ==
    /\ pc[q] = "setKey"
    /\ \/ Put(key[q], room[q]) /\ Return(q) /\ UNCHANGED failures
       \/ RedisFails(q) /\ (UNCHANGED store \/ Put(key[q], room[q]))
    /\ UNCHANGED <<used, op, room, key, raced, saveInLocal>>

\* GetChannel, for a publisher.
GetChannel(q) ==
    /\ pc[q] = "lookup"
    /\ \/ store[key[q]] # None /\ Done(q, "ok") /\ UNCHANGED failures
       \/ store[key[q]] = None /\ Done(q, "refused") /\ UNCHANGED failures
       \/ RedisFails(q)
    /\ UNCHANGED <<store, used, op, room, key, raced, saveInLocal>>

\* DeleteChannel in redis deletes the room's entry and returns Err() != nil, so
\* handleDelete answers "Ok" when the operation failed and 404 when it did not.
DeleteRedis(q) ==
    /\ ~saveInLocal /\ pc[q] = "delete"
    /\ \/ Put(room[q], None) /\ Done(q, "404") /\ UNCHANGED failures
       \/ failures' = TRUE /\ Done(q, "ok") /\ (UNCHANGED store \/ Put(room[q], None))
    /\ UNCHANGED <<used, op, room, key, raced, saveInLocal>>

\* In the process it reads the key and deletes the two entries ...
DeleteLoad(q) ==
    /\ saveInLocal /\ pc[q] = "delete"
    /\ \/ /\ store[room[q]] # None
          /\ key' = [key EXCEPT ![q] = store[room[q]]]
          /\ Goto(q, "delRoom") /\ UNCHANGED answer
       \/ store[room[q]] = None /\ Done(q, "404") /\ UNCHANGED key
    /\ UNCHANGED <<store, used, op, room, failures, raced, saveInLocal>>

\* Mutant: the room's entry is forgotten.
DeleteRoomNot(q) ==
    /\ pc[q] = "delRoom"
    /\ Goto(q, "delKey")
    /\ UNCHANGED <<store, used, op, room, key, answer, failures, raced, saveInLocal>>

\* ... the room's ...
DeleteRoom(q) ==
    /\ pc[q] = "delRoom"
    /\ Put(room[q], None) /\ Goto(q, "delKey")
    /\ UNCHANGED <<used, op, room, key, answer, failures, raced, saveInLocal>>

\* ... and the key's.
DeleteKey(q) ==
    /\ pc[q] = "delKey"
    /\ Put(key[q], None) /\ Done(q, "ok")
    /\ UNCHANGED <<used, op, room, key, failures, raced, saveInLocal>>

Next ==
    \E q \in Requests :
        \/ \E c \in Rooms : HandleGet(q, c) \/ HandleReset(q, c) \/ HandleDelete(q, c)
                            \/ HandleNoAuth(q, c)
        \/ GetKey(q) \/ SetKeyPick(q) \/ SetKeyRoom(q) \/ SetKeyKey(q) \/ GetChannel(q)
        \/ DeleteRedis(q) \/ DeleteLoad(q) \/ DeleteRoom(q) \/ DeleteKey(q)

Spec == Init /\ [][Next]_vars

---------------------------------------------------------------------------
(* Properties                                                              *)

\* The type invariant.
TypeOK ==
    /\ saveInLocal \in BOOLEAN
    /\ store \in [Names -> Names \cup {None}]
    /\ used \subseteq Keys
    /\ pc \in [Requests -> {"idle", "get", "pick", "setRoom", "setKey", "lookup",
                            "delete", "delRoom", "delKey", "done"}]
    /\ op \in [Requests -> {"none", "get", "reset", "delete", "publish"}]
    /\ room \in [Requests -> Rooms \cup {None}] /\ key \in [Requests -> Keys \cup {None}]
    /\ answer \in [Requests -> {"none", "ok", "404", "error", "refused"}]
    /\ failures \in BOOLEAN /\ raced \in [Requests -> BOOLEAN]

\* The key stored for a room opens that room: the other entry is there, or the
\* SetKey that is between its two writes is about to write it - unless redis
\* has failed.  No interleaving of reset, get and delete leaves a room whose key
\* every publisher is refused with.
StoredKeyOpensRoom ==
    \A c \in Rooms :
        store[c] # None /\ ~failures =>
            \/ store[store[c]] = c
            \/ \E q \in Requests : pc[q] = "setKey" /\ key[q] = store[c] /\ room[q] = c

\* A publisher that names the room is refused only when another request for the
\* same room was under way (it read the key between the two writes of SetKey,
\* or the room was deleted under it), or redis has failed.
RefusedOnlyInRace ==
    \A q \in Requests : answer[q] = "refused" => raced[q] \/ failures

\* handleDelete answers 404, "room not found", for a room that is not there.
NotFoundIsTrue ==
    [][\A q \in Requests : answer[q] # "404" /\ answer'[q] = "404"
          => store[room[q]] = None]_vars
=============================================================================
