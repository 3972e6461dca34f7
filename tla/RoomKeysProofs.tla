--------------------------- MODULE RoomKeysProofs ---------------------------
(***************************************************************************)
(* For any number of requests, rooms and keys: the two entries of a room   *)
(* agree, whatever the requests interleave like.                           *)
(***************************************************************************)
EXTENDS RoomKeys, TLAPS

\* The labels at which a request works with a key of its own.
Setting  == {"setRoom", "setKey"}
Deleting == {"delRoom", "delKey"}

\* Rooms have keys that were drawn, and requests that work with a key have one.
Shape ==
    /\ \A c \in Rooms : store[c] \in used \cup {None}
    /\ \A q \in Requests : pc[q] \notin {"idle", "done"} => room[q] \in Rooms
    /\ \A q \in Requests : pc[q] \in Setting \cup Deleting => key[q] \in used

\* A key that SetKey has drawn and not yet stored is nobody else's.
Fresh ==
    \A q \in Requests : pc[q] = "setRoom" =>
        /\ \A c \in Rooms : store[c] # key[q]
        /\ \A p \in Requests \ {q} : pc[p] \in Setting \cup Deleting => key[p] # key[q]

\* Two rooms never have the same key, and a request that is about to write or
\* delete the entry of a key has the room of that key.
Owner ==
    /\ \A c, d \in Rooms : store[c] = store[d] /\ store[c] # None => c = d
    /\ \A q \in Requests : pc[q] \in {"setKey", "delRoom"} =>
           \A c \in Rooms : store[c] = key[q] => c = room[q]

\* The key whose entry is about to be deleted is no room's key any more.
Orphan == \A q \in Requests : pc[q] = "delKey" => \A c \in Rooms : store[c] # key[q]

IInv == TypeOK /\ Shape /\ Fresh /\ Owner /\ Orphan /\ StoredKeyOpensRoom

LEMMA InitIInv == Init => IInv
<1> SUFFICES ASSUME Init PROVE IInv
  OBVIOUS
<1>1. TypeOK
  BY DEF Init, TypeOK, Names
<1>2. Shape /\ Fresh /\ Owner /\ Orphan
  BY DEF Init, Shape, Fresh, Owner, Orphan, Names, Setting, Deleting
<1>3. StoredKeyOpensRoom
  BY DEF Init, StoredKeyOpensRoom, Names
<1> QED  BY <1>1, <1>2, <1>3 DEF IInv

---------------------------------------------------------------------------
\* The requests that start.
LEMMA BeginKeeps ==
    ASSUME IInv, NEW q \in Requests, NEW c \in Rooms,
           NEW o \in {"get", "reset", "delete", "publish"},
           NEW l \in {"get", "pick", "delete"}, Begin(q, o, c, l)
    PROVE  IInv'
<1> USE DEF Begin, Goto
<1>1. TypeOK'
  BY DEF IInv, TypeOK
<1>2. Shape'
  BY DEF IInv, TypeOK, Shape, Setting, Deleting
<1>3. Fresh'
  BY DEF IInv, TypeOK, Fresh, Setting, Deleting
<1>4. Owner' /\ Orphan'
  BY DEF IInv, TypeOK, Owner, Orphan
<1>5. StoredKeyOpensRoom'
  BY DEF IInv, TypeOK, StoredKeyOpensRoom
<1> QED  BY <1>1, <1>2, <1>3, <1>4, <1>5 DEF IInv

LEMMA GetKeyKeeps ==
    ASSUME IInv, NEW q \in Requests, GetKey(q)
    PROVE  IInv'
<1> USE RoomAssumption DEF GetKey, Goto, Done, Return, RedisFails
<1>0. room[q] \in Rooms
  BY DEF IInv, Shape
<1>1. TypeOK'
  BY <1>0 DEF IInv, TypeOK, Shape, Names, Setting, Deleting
<1>2. Shape'
  BY <1>0 DEF IInv, TypeOK, Shape, Names, Setting, Deleting
<1>3. Fresh'
  BY <1>0 DEF IInv, TypeOK, Shape, Fresh, Names, Setting, Deleting
<1>4. Owner'
  BY <1>0 DEF IInv, TypeOK, Shape, Fresh, Owner, Names, Setting, Deleting
<1>5. Orphan'
  BY <1>0 DEF IInv, TypeOK, Shape, Fresh, Owner, Orphan, Names, Setting, Deleting
<1>6. StoredKeyOpensRoom'
  BY <1>0 DEF IInv, TypeOK, Shape, Owner, Orphan, StoredKeyOpensRoom, Names, Setting, Deleting
<1> QED  BY <1>1, <1>2, <1>3, <1>4, <1>5, <1>6 DEF IInv

LEMMA SetKeyPickKeeps ==
    ASSUME IInv, NEW q \in Requests, SetKeyPick(q)
    PROVE  IInv'
<1> USE RoomAssumption DEF SetKeyPick, Goto, Done, RedisFails
<1>0. room[q] \in Rooms
  BY DEF IInv, Shape
<1>1. TypeOK'
  <2>1. /\ used' \subseteq Keys
        /\ key' \in [Requests -> Keys \cup {None}]
    BY DEF IInv, TypeOK
  <2> QED  BY <2>1 DEF IInv, TypeOK
<1>2. Shape'
  BY <1>0 DEF IInv, TypeOK, Shape, Names, Setting, Deleting
<1>3. Fresh'
  BY <1>0 DEF IInv, TypeOK, Shape, Fresh, Names, Setting, Deleting
<1>4. Owner'
  BY <1>0 DEF IInv, TypeOK, Shape, Fresh, Owner, Names, Setting, Deleting
<1>5. Orphan'
  BY <1>0 DEF IInv, TypeOK, Shape, Fresh, Owner, Orphan, Names, Setting, Deleting
<1>6. StoredKeyOpensRoom'
  BY <1>0 DEF IInv, TypeOK, Shape, Owner, Orphan, StoredKeyOpensRoom, Names, Setting, Deleting
<1> QED  BY <1>1, <1>2, <1>3, <1>4, <1>5, <1>6 DEF IInv

LEMMA SetKeyRoomKeeps ==
    ASSUME IInv, NEW q \in Requests, SetKeyRoom(q)
    PROVE  IInv'
<1> USE RoomAssumption DEF SetKeyRoom, Goto, Done, Put, RedisFails
<1>0. room[q] \in Rooms
  BY DEF IInv, Shape
<1>1. TypeOK'
  BY <1>0 DEF IInv, TypeOK, Shape, Names, Setting, Deleting
<1>2. Shape'
  BY <1>0 DEF IInv, TypeOK, Shape, Names, Setting, Deleting
<1>3. Fresh'
  BY <1>0 DEF IInv, TypeOK, Shape, Fresh, Names, Setting, Deleting
<1>4. Owner'
  BY <1>0 DEF IInv, TypeOK, Shape, Fresh, Owner, Names, Setting, Deleting
<1>5. Orphan'
  BY <1>0 DEF IInv, TypeOK, Shape, Fresh, Owner, Orphan, Names, Setting, Deleting
<1>6. StoredKeyOpensRoom'
  BY <1>0 DEF IInv, TypeOK, Shape, Owner, Orphan, StoredKeyOpensRoom, Names, Setting, Deleting
<1> QED  BY <1>1, <1>2, <1>3, <1>4, <1>5, <1>6 DEF IInv

LEMMA SetKeyKeyKeeps ==
    ASSUME IInv, NEW q \in Requests, SetKeyKey(q)
    PROVE  IInv'
<1> USE RoomAssumption DEF SetKeyKey, Goto, Done, Put, Return, RedisFails
<1>0. room[q] \in Rooms
  BY DEF IInv, Shape
<1>1. TypeOK'
  BY <1>0 DEF IInv, TypeOK, Shape, Names, Setting, Deleting
<1>2. Shape'
  BY <1>0 DEF IInv, TypeOK, Shape, Names, Setting, Deleting
<1>3. Fresh'
  BY <1>0 DEF IInv, TypeOK, Shape, Fresh, Names, Setting, Deleting
<1>4. Owner'
  BY <1>0 DEF IInv, TypeOK, Shape, Fresh, Owner, Names, Setting, Deleting
<1>5. Orphan'
  BY <1>0 DEF IInv, TypeOK, Shape, Fresh, Owner, Orphan, Names, Setting, Deleting
<1>6. StoredKeyOpensRoom'
  BY <1>0 DEF IInv, TypeOK, Shape, Owner, Orphan, StoredKeyOpensRoom, Names, Setting, Deleting
<1> QED  BY <1>1, <1>2, <1>3, <1>4, <1>5, <1>6 DEF IInv

LEMMA GetChannelKeeps ==
    ASSUME IInv, NEW q \in Requests, GetChannel(q)
    PROVE  IInv'
<1> USE RoomAssumption DEF GetChannel, Goto, Done, RedisFails
<1>0. room[q] \in Rooms
  BY DEF IInv, Shape
<1>1. TypeOK'
  BY <1>0 DEF IInv, TypeOK, Shape, Names, Setting, Deleting
<1>2. Shape'
  BY <1>0 DEF IInv, TypeOK, Shape, Names, Setting, Deleting
<1>3. Fresh'
  BY <1>0 DEF IInv, TypeOK, Shape, Fresh, Names, Setting, Deleting
<1>4. Owner'
  BY <1>0 DEF IInv, TypeOK, Shape, Fresh, Owner, Names, Setting, Deleting
<1>5. Orphan'
  BY <1>0 DEF IInv, TypeOK, Shape, Fresh, Owner, Orphan, Names, Setting, Deleting
<1>6. StoredKeyOpensRoom'
  BY <1>0 DEF IInv, TypeOK, Shape, Owner, Orphan, StoredKeyOpensRoom, Names, Setting, Deleting
<1> QED  BY <1>1, <1>2, <1>3, <1>4, <1>5, <1>6 DEF IInv

LEMMA DeleteRedisKeeps ==
    ASSUME IInv, NEW q \in Requests, DeleteRedis(q)
    PROVE  IInv'
<1> USE RoomAssumption DEF DeleteRedis, Goto, Done, Put
<1>0. room[q] \in Rooms
  BY DEF IInv, Shape
<1>1. TypeOK'
  BY <1>0 DEF IInv, TypeOK, Shape, Names, Setting, Deleting
<1>2. Shape'
  BY <1>0 DEF IInv, TypeOK, Shape, Names, Setting, Deleting
<1>3. Fresh'
  BY <1>0 DEF IInv, TypeOK, Shape, Fresh, Names, Setting, Deleting
<1>4. Owner'
  BY <1>0 DEF IInv, TypeOK, Shape, Fresh, Owner, Names, Setting, Deleting
<1>5. Orphan'
  BY <1>0 DEF IInv, TypeOK, Shape, Fresh, Owner, Orphan, Names, Setting, Deleting
<1>6. StoredKeyOpensRoom'
  BY <1>0 DEF IInv, TypeOK, Shape, Owner, Orphan, StoredKeyOpensRoom, Names, Setting, Deleting
<1> QED  BY <1>1, <1>2, <1>3, <1>4, <1>5, <1>6 DEF IInv

LEMMA DeleteLoadKeeps ==
    ASSUME IInv, NEW q \in Requests, DeleteLoad(q)
    PROVE  IInv'
<1> USE RoomAssumption DEF DeleteLoad, Goto, Done
<1>0. room[q] \in Rooms
  BY DEF IInv, Shape
<1>1. TypeOK'
  BY <1>0 DEF IInv, TypeOK, Shape, Names, Setting, Deleting
<1>2. Shape'
  BY <1>0 DEF IInv, TypeOK, Shape, Names, Setting, Deleting
<1>3. Fresh'
  BY <1>0 DEF IInv, TypeOK, Shape, Fresh, Names, Setting, Deleting
<1>4. Owner'
  BY <1>0 DEF IInv, TypeOK, Shape, Fresh, Owner, Names, Setting, Deleting
<1>5. Orphan'
  BY <1>0 DEF IInv, TypeOK, Shape, Fresh, Owner, Orphan, Names, Setting, Deleting
<1>6. StoredKeyOpensRoom'
  BY <1>0 DEF IInv, TypeOK, Shape, Owner, Orphan, StoredKeyOpensRoom, Names, Setting, Deleting
<1> QED  BY <1>1, <1>2, <1>3, <1>4, <1>5, <1>6 DEF IInv

LEMMA DeleteRoomKeeps ==
    ASSUME IInv, NEW q \in Requests, DeleteRoom(q)
    PROVE  IInv'
<1> USE RoomAssumption DEF DeleteRoom, Goto, Put
<1>0. room[q] \in Rooms
  BY DEF IInv, Shape
<1>1. TypeOK'
  BY <1>0 DEF IInv, TypeOK, Shape, Names, Setting, Deleting
<1>2. Shape'
  BY <1>0 DEF IInv, TypeOK, Shape, Names, Setting, Deleting
<1>3. Fresh'
  BY <1>0 DEF IInv, TypeOK, Shape, Fresh, Names, Setting, Deleting
<1>4. Owner'
  BY <1>0 DEF IInv, TypeOK, Shape, Fresh, Owner, Names, Setting, Deleting
<1>5. Orphan'
  BY <1>0 DEF IInv, TypeOK, Shape, Fresh, Owner, Orphan, Names, Setting, Deleting
<1>6. StoredKeyOpensRoom'
  BY <1>0 DEF IInv, TypeOK, Shape, Owner, Orphan, StoredKeyOpensRoom, Names, Setting, Deleting
<1> QED  BY <1>1, <1>2, <1>3, <1>4, <1>5, <1>6 DEF IInv

LEMMA DeleteKeyKeeps ==
    ASSUME IInv, NEW q \in Requests, DeleteKey(q)
    PROVE  IInv'
<1> USE RoomAssumption DEF DeleteKey, Goto, Done, Put
<1>0. room[q] \in Rooms
  BY DEF IInv, Shape
<1>1. TypeOK'
  BY <1>0 DEF IInv, TypeOK, Shape, Names, Setting, Deleting
<1>2. Shape'
  BY <1>0 DEF IInv, TypeOK, Shape, Names, Setting, Deleting
<1>3. Fresh'
  BY <1>0 DEF IInv, TypeOK, Shape, Fresh, Names, Setting, Deleting
<1>4. Owner'
  BY <1>0 DEF IInv, TypeOK, Shape, Fresh, Owner, Names, Setting, Deleting
<1>5. Orphan'
  BY <1>0 DEF IInv, TypeOK, Shape, Fresh, Owner, Orphan, Names, Setting, Deleting
<1>6. StoredKeyOpensRoom'
  BY <1>0 DEF IInv, TypeOK, Shape, Owner, Orphan, StoredKeyOpensRoom, Names, Setting, Deleting
<1> QED  BY <1>1, <1>2, <1>3, <1>4, <1>5, <1>6 DEF IInv

---------------------------------------------------------------------------
LEMMA NextIInv == IInv /\ [Next]_vars => IInv'
<1> SUFFICES ASSUME IInv, [Next]_vars PROVE IInv'
  OBVIOUS
<1>1. ASSUME NEW q \in Requests, NEW c \in Rooms,
             HandleGet(q, c) \/ HandleReset(q, c) \/ HandleDelete(q, c) \/ HandleNoAuth(q, c)
      PROVE  IInv'
  BY <1>1, BeginKeeps DEF HandleGet, HandleReset, HandleDelete, HandleNoAuth
<1>2. CASE UNCHANGED vars
  BY <1>2 DEF vars, reqVars, IInv, TypeOK, Shape, Fresh, Owner, Orphan, StoredKeyOpensRoom
<1> QED  BY <1>1, <1>2, GetKeyKeeps, SetKeyPickKeeps, SetKeyRoomKeeps, SetKeyKeyKeeps,
            GetChannelKeeps, DeleteRedisKeeps, DeleteLoadKeeps, DeleteRoomKeeps,
            DeleteKeyKeeps DEF Next

\* The type invariant, for every number of requests, rooms and keys.
THEOREM KeysTypeCorrect == Spec => []TypeOK
<1>1. IInv => TypeOK  BY DEF IInv
<1> QED  BY <1>1, InitIInv, NextIInv, PTL DEF Spec

\* As long as redis has not failed, the key that GetKey hands out for a room is
\* known to GetChannel, or is being written: SetKey's two writes and
\* DeleteChannel's two deletes never cross so that it is lost.
THEOREM KeysAgree == Spec => []StoredKeyOpensRoom
<1>1. IInv => StoredKeyOpensRoom  BY DEF IInv
<1> QED  BY <1>1, InitIInv, NextIInv, PTL DEF Spec

---------------------------------------------------------------------------
(* A publisher is refused only in a race.                                  *)

\* Two requests for one room that are under way know of each other.
RaceKnown ==
    \A p, q \in Requests : p # q /\ Active(p) /\ Active(q) /\ room[p] = room[q] => raced[q]

\* A request has a key only of the room it is for, and for ever.
KeyOfRoom ==
    /\ \A q \in Requests : key[q] # None => pc[q] # "idle" /\ key[q] \in used
    /\ \A p, q \in Requests : key[p] = key[q] /\ key[p] # None => room[p] = room[q]
    /\ \A q \in Requests, c \in Rooms : store[c] = key[q] /\ key[q] # None => c = room[q]

\* The publisher that has its room for itself finds its key.
LookupFinds ==
    \A q \in Requests : pc[q] = "lookup" =>
        key[q] # None /\ (~raced[q] /\ ~failures => store[key[q]] # None)

RInv == RaceKnown /\ KeyOfRoom /\ LookupFinds /\ RefusedOnlyInRace

\* The steps of a request after its first.
Work(q) ==
    \/ GetKey(q) \/ SetKeyPick(q) \/ SetKeyRoom(q) \/ SetKeyKey(q) \/ GetChannel(q)
    \/ DeleteRedis(q) \/ DeleteLoad(q) \/ DeleteRoom(q) \/ DeleteKey(q)

\* What such a step never does: it moves no other request, changes no room, and
\* forgets no race and no failure.
LEMMA WorkFrame ==
    ASSUME IInv, NEW q \in Requests, Work(q)
    PROVE  /\ room[q] \in Rooms /\ Active(q) /\ room' = room /\ raced' = raced
           /\ failures => failures'
           /\ \A p \in Requests : Active(p)' => Active(p)
           /\ \A p \in Requests \ {q} :
                  pc'[p] = pc[p] /\ key'[p] = key[p] /\ answer'[p] = answer[p]
           /\ pc'[q] # "idle"
<1> USE DEF Goto, Done, Put, Return, RedisFails, Active
<1>1. CASE GetKey(q)  BY <1>1 DEF GetKey, IInv, TypeOK, Shape
<1>2. CASE SetKeyPick(q)  BY <1>2 DEF SetKeyPick, IInv, TypeOK, Shape
<1>3. CASE SetKeyRoom(q)  BY <1>3 DEF SetKeyRoom, IInv, TypeOK, Shape
<1>4. CASE SetKeyKey(q)  BY <1>4 DEF SetKeyKey, IInv, TypeOK, Shape
<1>5. CASE GetChannel(q)  BY <1>5 DEF GetChannel, IInv, TypeOK, Shape
<1>6. CASE DeleteRedis(q)  BY <1>6 DEF DeleteRedis, IInv, TypeOK, Shape
<1>7. CASE DeleteLoad(q)  BY <1>7 DEF DeleteLoad, IInv, TypeOK, Shape
<1>8. CASE DeleteRoom(q)  BY <1>8 DEF DeleteRoom, IInv, TypeOK, Shape
<1>9. CASE DeleteKey(q)  BY <1>9 DEF DeleteKey, IInv, TypeOK, Shape
<1> QED  BY <1>1, <1>2, <1>3, <1>4, <1>5, <1>6, <1>7, <1>8, <1>9 DEF Work

\* A request that starts marks itself and the ones of its room.
LEMMA BeginRace ==
    ASSUME IInv, RInv, NEW q \in Requests, NEW c \in Rooms,
           NEW o \in {"get", "reset", "delete", "publish"},
           NEW l \in {"get", "pick", "delete"}, Begin(q, o, c, l)
    PROVE  RInv'
<1>0. TypeOK /\ key[q] = None
  BY DEF IInv, RInv, KeyOfRoom, Begin
<1>1. RaceKnown'
  <2> SUFFICES ASSUME NEW p \in Requests, NEW n \in Requests, p # n,
                      Active(p)', Active(n)', room'[p] = room'[n]
               PROVE  raced'[n]
    BY DEF RaceKnown
  <2>1. CASE p # q /\ n # q
    BY <1>0, <2>1 DEF RInv, RaceKnown, Begin, Goto, Active, TypeOK
  <2>2. CASE p = q
    BY <1>0, <2>2 DEF Begin, Goto, Active, TypeOK
  <2>3. CASE n = q
    BY <1>0, <2>3 DEF Begin, Goto, Active, TypeOK
  <2> QED  BY <2>1, <2>2, <2>3
<1>2. KeyOfRoom'
  BY <1>0 DEF RInv, KeyOfRoom, Begin, Goto, TypeOK
<1>3. LookupFinds'
  BY <1>0 DEF RInv, LookupFinds, Begin, Goto, TypeOK
<1>4. RefusedOnlyInRace'
  BY <1>0 DEF RInv, RefusedOnlyInRace, Begin, Goto, TypeOK
<1> QED  BY <1>1, <1>2, <1>3, <1>4 DEF RInv

LEMMA WorkRaceKnown ==
    ASSUME IInv, RInv, NEW q \in Requests, Work(q)
    PROVE  RaceKnown'
BY WorkFrame DEF RInv, RaceKnown

\* A request gets a key from its room, or one that nobody has had.
LEMMA WorkKeyOfRoom ==
    ASSUME IInv, RInv, NEW q \in Requests, Work(q)
    PROVE  KeyOfRoom'
<1> USE RoomAssumption
<1>0. /\ TypeOK /\ Shape /\ KeyOfRoom /\ Owner
      /\ room[q] \in Rooms /\ Active(q) /\ room' = room /\ pc'[q] # "idle"
      /\ \A p \in Requests \ {q} : pc'[p] = pc[p] /\ key'[p] = key[p]
  BY WorkFrame DEF IInv, RInv
<1>1. CASE GetKey(q)
  BY <1>0, <1>1 DEF GetKey, KeyOfRoom, Shape, Owner, TypeOK, Goto, Done, Return, RedisFails, Names
<1>2. CASE SetKeyPick(q)
  BY <1>0, <1>2 DEF SetKeyPick, KeyOfRoom, Shape, Owner, TypeOK, Goto, Done, RedisFails, Names
<1>3. CASE SetKeyRoom(q)
  BY <1>0, <1>3 DEF SetKeyRoom, KeyOfRoom, Shape, TypeOK, Put, Names, Setting
<1>4. CASE SetKeyKey(q)
  BY <1>0, <1>4 DEF SetKeyKey, KeyOfRoom, Shape, TypeOK, Put, Names, Setting
<1>5. CASE GetChannel(q)
  BY <1>0, <1>5 DEF GetChannel, KeyOfRoom
<1>6. CASE DeleteRedis(q)
  BY <1>0, <1>6 DEF DeleteRedis, KeyOfRoom, TypeOK, Put, Names
<1>7. CASE DeleteLoad(q)
  BY <1>0, <1>7 DEF DeleteLoad, KeyOfRoom, Shape, Owner, TypeOK, Goto, Done, Names
<1>8. CASE DeleteRoom(q)
  BY <1>0, <1>8 DEF DeleteRoom, KeyOfRoom, TypeOK, Put, Names
<1>9. CASE DeleteKey(q)
  BY <1>0, <1>9 DEF DeleteKey, KeyOfRoom, Shape, TypeOK, Put, Names, Deleting
<1> QED  BY <1>1, <1>2, <1>3, <1>4, <1>5, <1>6, <1>7, <1>8, <1>9 DEF Work

\* A step never deletes the entry of a key that a publisher of another room is
\* about to look up.
LEMMA EntryKept ==
    ASSUME IInv, RInv, NEW q \in Requests, Work(q),
           NEW p \in Requests \ {q}, key[p] \in Keys, room[p] # room[q],
           store[key[p]] # None
    PROVE  store'[key[p]] # None
<1> USE RoomAssumption
<1>0. /\ TypeOK /\ Shape /\ KeyOfRoom /\ room[q] \in Rooms
  BY WorkFrame DEF IInv, RInv
<1>1. key[p] # key[q]
  BY <1>0 DEF KeyOfRoom
<1>2. key[p] # room[q] /\ key[p] \in Names
  BY <1>0 DEF Names
<1>3. \/ store' = store
      \/ \E v : Put(room[q], v)
      \/ \E v : Put(key[q], v)
  BY DEF Work, GetKey, SetKeyPick, SetKeyRoom, SetKeyKey, GetChannel,
     DeleteRedis, DeleteLoad, DeleteRoom, DeleteKey
<1> QED  BY <1>0, <1>1, <1>2, <1>3 DEF Put, TypeOK

LEMMA WorkLookupFinds ==
    ASSUME IInv, RInv, NEW q \in Requests, Work(q)
    PROVE  LookupFinds'
<1> USE RoomAssumption
<1>0. /\ TypeOK /\ Shape /\ KeyOfRoom /\ RaceKnown /\ LookupFinds /\ StoredKeyOpensRoom
      /\ room[q] \in Rooms /\ Active(q) /\ room' = room /\ raced' = raced
      /\ failures => failures'
      /\ \A p \in Requests \ {q} : pc'[p] = pc[p] /\ key'[p] = key[p]
  BY WorkFrame DEF IInv, RInv
<1> SUFFICES ASSUME NEW p \in Requests, pc'[p] = "lookup"
             PROVE  /\ key'[p] # None
                    /\ ~raced'[p] /\ ~failures' => store'[key'[p]] # None
  BY DEF LookupFinds
<1>1. CASE p # q
  <2>1. key'[p] = key[p] /\ pc[p] = "lookup" /\ Active(p) /\ key[p] \in Keys
    BY <1>0, <1>1 DEF Active, LookupFinds, TypeOK
  <2>2. ASSUME ~raced'[p], ~failures' PROVE store'[key[p]] # None
    <3>1. room[p] # room[q]
      BY <1>0, <1>1, <2>1, <2>2 DEF RaceKnown
    <3>2. store[key[p]] # None
      BY <1>0, <2>1, <2>2 DEF LookupFinds
    <3> QED  BY <1>1, <2>1, <3>1, <3>2, EntryKept
  <2> QED  BY <1>0, <2>1, <2>2 DEF LookupFinds
<1>2. CASE p = q
  <2>1. GetKey(q) \/ SetKeyKey(q)
    BY <1>0, <1>2 DEF Work, SetKeyPick, SetKeyRoom, GetChannel, DeleteRedis,
       DeleteLoad, DeleteRoom, DeleteKey, RedisFails, Goto, Done, TypeOK
  <2>2. CASE GetKey(q)
    <3>1. /\ store[room[q]] # None /\ key'[q] = store[room[q]] /\ store' = store
          /\ failures' = failures /\ pc[q] = "get"
      BY <1>0, <1>2, <2>2 DEF GetKey, RedisFails, Goto, Done, TypeOK
    <3>2. ASSUME ~raced[q], ~failures PROVE store[store[room[q]]] # None
      <4>1. \A n \in Requests : ~(pc[n] = "setKey" /\ room[n] = room[q])
        BY <1>0, <3>1, <3>2 DEF RaceKnown, Active
      <4> QED  BY <1>0, <3>1, <3>2, <4>1 DEF StoredKeyOpensRoom
    <3> QED  BY <1>0, <1>2, <3>1, <3>2
  <2>3. CASE SetKeyKey(q)
    <3>1. Put(key[q], room[q]) /\ key' = key /\ key[q] \in Keys
      BY <1>0, <1>2, <2>3 DEF SetKeyKey, RedisFails, Goto, Done, TypeOK, Shape, Setting
    <3> QED  BY <1>0, <1>2, <3>1 DEF Put, TypeOK, Names
  <2> QED  BY <2>1, <2>2, <2>3
<1> QED  BY <1>1, <1>2

LEMMA WorkRefused ==
    ASSUME IInv, RInv, NEW q \in Requests, Work(q)
    PROVE  RefusedOnlyInRace'
<1>0. /\ TypeOK /\ RefusedOnlyInRace /\ LookupFinds /\ raced' = raced
      /\ failures => failures'
      /\ \A p \in Requests \ {q} : answer'[p] = answer[p]
  BY WorkFrame DEF IInv, RInv
<1>1. ASSUME answer'[q] = "refused" PROVE raced'[q] \/ failures'
  <2>1. answer[q] = "refused" \/ (GetChannel(q) /\ store[key[q]] = None /\ failures' = failures)
    BY <1>0, <1>1 DEF Work, GetKey, SetKeyPick, SetKeyRoom, SetKeyKey, GetChannel,
       DeleteRedis, DeleteLoad, DeleteRoom, DeleteKey, RedisFails, Return, Goto, Done, TypeOK
  <2> QED  BY <1>0, <2>1 DEF RefusedOnlyInRace, LookupFinds, GetChannel
<1> QED  BY <1>0, <1>1 DEF RefusedOnlyInRace

LEMMA NextRInv == IInv /\ RInv /\ [Next]_vars => RInv'
<1> SUFFICES ASSUME IInv, RInv, [Next]_vars PROVE RInv'
  OBVIOUS
<1>1. ASSUME NEW q \in Requests, NEW c \in Rooms,
             HandleGet(q, c) \/ HandleReset(q, c) \/ HandleDelete(q, c) \/ HandleNoAuth(q, c)
      PROVE  RInv'
  BY <1>1, BeginRace DEF HandleGet, HandleReset, HandleDelete, HandleNoAuth
<1>2. ASSUME NEW q \in Requests, Work(q) PROVE RInv'
  BY <1>2, WorkRaceKnown, WorkKeyOfRoom, WorkLookupFinds, WorkRefused DEF RInv
<1>3. CASE UNCHANGED vars
  BY <1>3 DEF vars, reqVars, RInv, RaceKnown, KeyOfRoom, LookupFinds, RefusedOnlyInRace, Active
<1> QED  BY <1>1, <1>2, <1>3 DEF Next, Work

\* A publisher that names its room is refused only if another request for that
\* room was under way at the same time, or redis failed: requests for other
\* rooms, however many, never take its key away between SetKey and GetChannel.
THEOREM KeysRefusedOnlyInRace == Spec => []RefusedOnlyInRace
<1>1. Init => RInv
  BY DEF Init, RInv, RaceKnown, KeyOfRoom, LookupFinds, RefusedOnlyInRace, Active
<1>2. RInv => RefusedOnlyInRace  BY DEF RInv
<1> QED  BY <1>1, <1>2, InitIInv, NextIInv, NextRInv, PTL DEF Spec
=============================================================================
