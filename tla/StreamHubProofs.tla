-------------------------- MODULE StreamHubProofs --------------------------
(***************************************************************************)
(* For any number of publishers and writers: the hub is type correct, it   *)
(* never makes more streams than it was called, and no interleaving of its *)
(* operations loses an open writer.  As long as its operations have not    *)
(* overlapped, it has at most one publisher and keeps every open writer in *)
(* the stream of the key.                                                  *)
(***************************************************************************)
EXTENDS StreamHub, FiniteSetTheorems, TLAPS

\* The calls that may still make a stream.
PendingR == {x \in Readers : hpc[x] \in {"idle", "stop", "stopped", "id"}}
PendingW == {w \in Writers : wpc[w] \in {"idle", "load"}}

\* Every stream is paid for by a call, so the next one is in Streams.
StreamCount ==
    nstreams + Cardinality(PendingR) + Cardinality(PendingW)
        <= Cardinality(Readers) + Cardinality(Writers)

\* An operation that is under way works on streams that exist.
Targets ==
    /\ \A x \in Readers : hpc[x] \notin {"idle", "done"} => hst[x] \in Streams
    /\ \A x \in Readers : hpc[x] \in {"copy", "delete", "addw"} => hdst[x] \in Streams
    /\ \A x \in Readers : tpc[x] \notin {"none", "ended"} => tst[x] \in Streams
    /\ \A w \in Writers : wpc[w] \in {"add", "store"} => wst[w] \in Streams
    /\ jpc # "idle" => jst \in Streams

\* A Copy between its steps, and a janitor before its Close, hold a writer; a
\* closeInter holds one that is closed already.
Holds ==
    /\ \A x \in Readers : hpc[x] \in {"delete", "addw"} => hheld[x] \in Writers
    /\ jpc = "close" => jheld \in Writers
    /\ \A x \in Readers : theld[x] # None => theld[x] \in wclosed

IInv == TypeOK /\ StreamCount /\ Targets /\ Holds /\ NoWriterLost

---------------------------------------------------------------------------
\* The pending calls are finitely many.
LEMMA PendingFinite ==
    /\ IsFiniteSet(PendingR) /\ Cardinality(PendingR) \in Nat
    /\ IsFiniteSet(PendingW) /\ Cardinality(PendingW) \in Nat
    /\ Cardinality(Readers) \in Nat /\ Cardinality(Writers) \in Nat
<1>1. IsFiniteSet(Readers) /\ IsFiniteSet(Writers)
  BY HubAssumption
<1>2. IsFiniteSet(PendingR) /\ IsFiniteSet(PendingW)
  BY <1>1, FS_Subset DEF PendingR, PendingW
<1> QED  BY <1>1, <1>2, FS_CardinalityType

\* While a call is pending its stream can still be made.
LEMMA RoomForOne ==
    ASSUME TypeOK, StreamCount, PendingR # {} \/ PendingW # {}
    PROVE  NewStream \in Streams
<1>1. nstreams \in Nat  BY DEF TypeOK
<1>2. Cardinality(PendingR) > 0 \/ Cardinality(PendingW) > 0
  <2>1. Cardinality(PendingR) # 0 \/ Cardinality(PendingW) # 0
    BY PendingFinite, FS_EmptySet
  <2> QED  BY <2>1, PendingFinite
<1> QED  BY <1>1, <1>2, PendingFinite DEF StreamCount, NewStream, Streams

\* A step that leaves the pending calls alone makes no stream; a step that
\* makes one ends a pending call.
LEMMA CountKept ==
    ASSUME TypeOK, StreamCount, PendingR' = PendingR, PendingW' = PendingW,
           nstreams' = nstreams
    PROVE  StreamCount'
<1>1. Cardinality(PendingR') = Cardinality(PendingR)
      /\ Cardinality(PendingW') = Cardinality(PendingW)
  OBVIOUS
<1> QED  BY <1>1 DEF StreamCount

LEMMA CountReader ==
    ASSUME TypeOK, StreamCount, NEW x \in PendingR, PendingR' = PendingR \ {x},
           PendingW' = PendingW, nstreams' = nstreams \/ nstreams' = NewStream
    PROVE  StreamCount'
<1>1. nstreams \in Nat  BY DEF TypeOK
<1>2. Cardinality(PendingR \ {x}) = Cardinality(PendingR) - 1
  BY PendingFinite, FS_RemoveElement
<1>3. Cardinality(PendingR') = Cardinality(PendingR) - 1
      /\ Cardinality(PendingW') = Cardinality(PendingW)
  BY <1>2
<1> QED  BY <1>1, <1>3, PendingFinite DEF StreamCount, NewStream

LEMMA CountWriter ==
    ASSUME TypeOK, StreamCount, NEW w \in PendingW, PendingW' = PendingW \ {w},
           PendingR' = PendingR, nstreams' = nstreams \/ nstreams' = NewStream
    PROVE  StreamCount'
<1>1. nstreams \in Nat  BY DEF TypeOK
<1>2. Cardinality(PendingW \ {w}) = Cardinality(PendingW) - 1
  BY PendingFinite, FS_RemoveElement
<1>3. Cardinality(PendingW') = Cardinality(PendingW) - 1
      /\ Cardinality(PendingR') = Cardinality(PendingR)
  BY <1>2
<1> QED  BY <1>1, <1>3, PendingFinite DEF StreamCount, NewStream

---------------------------------------------------------------------------
LEMMA InitIInv == Init => IInv
<1> SUFFICES ASSUME Init PROVE IInv
  OBVIOUS
<1>1. TypeOK
  BY DEF Init, TypeOK, HPc, TPc, WPc, JPc, NoStream
<1>2. StreamCount
  <2>1. PendingR = Readers /\ PendingW = Writers
    BY DEF Init, PendingR, PendingW
  <2> QED  BY <2>1, PendingFinite DEF Init, StreamCount
<1>3. Targets /\ Holds /\ NoWriterLost
  BY DEF Init, Targets, Holds, NoWriterLost
<1> QED  BY <1>1, <1>2, <1>3 DEF IInv

---------------------------------------------------------------------------
(* The type invariant.                                                     *)

LEMMA TypeHandleReader ==
    ASSUME IInv, NEW x \in Readers, HandleReader(x)
    PROVE  TypeOK'
<1> USE DEF HPc, TPc, WPc, JPc, NoStream
<1>0. TypeOK /\ Targets /\ Holds  BY DEF IInv
<1>1. CASE HLoad(x)
  <2>1. x \in PendingR  BY <1>1 DEF HLoad, PendingR
  <2>2. NewStream \in Streams /\ NewStream \in Nat
    BY <1>0, <2>1, RoomForOne DEF IInv, TypeOK, NewStream
  <2> QED  BY <1>0, <1>1, <2>2 DEF TypeOK, Targets, Holds, HLoad, HGoto,
     Begin, fieldVars, connVars, tVars, wVars, jVars
<1>2. CASE HStop(x)
  BY <1>0, <1>2 DEF TypeOK, Targets, Holds, HStop, HGoto, CloseOld, mapVars,
     fieldVars, tVars, wVars, jVars
<1>3. CASE HStopped(x)
  BY <1>0, <1>3 DEF TypeOK, Targets, Holds, HStopped, HGoto, mapVars,
     connVars, tVars, wVars, jVars
<1>4. CASE HId(x)
  <2>1. x \in PendingR  BY <1>4 DEF HId, PendingR
  <2>2. NewStream \in Streams /\ NewStream \in Nat
    BY <1>0, <2>1, RoomForOne DEF IInv, TypeOK, NewStream
  <2>3. ws[hst[x]] \subseteq Writers
    BY <1>0, <1>4 DEF TypeOK, Targets, HId
  <2>4. /\ nstreams' \in Nat
        /\ hdst' \in [Readers -> Streams \cup {NoStream}]
        /\ htodo' \in [Readers -> SUBSET Writers]
        /\ hpc' \in [Readers -> HPc]
    BY <1>0, <1>4, <2>2, <2>3 DEF TypeOK, HId, HGoto
  <2> QED  BY <1>0, <1>4, <2>4 DEF TypeOK, HId, fieldVars, connVars, tVars, wVars, jVars
<1>5. CASE HCopy(x)
  <2> DEFINE Moved == /\ htodo' \in [Readers -> SUBSET Writers]
                      /\ hheld' \in [Readers -> Writers \cup {None}]
                      /\ hst' \in [Readers -> Streams \cup {NoStream}]
                      /\ hpc' \in [Readers -> HPc]
  <2>1. Moved
    <3>1. ASSUME NEW w \in htodo[x] \cap ws[hst[x]],
                 hheld' = [hheld EXCEPT ![x] = w],
                 htodo' = [htodo EXCEPT ![x] = @ \ {w}],
                 HGoto(x, "delete"), UNCHANGED hst
          PROVE  Moved
      <4>1. w \in Writers /\ htodo[x] \ {w} \subseteq Writers
        BY <1>0, <3>1 DEF TypeOK
      <4> QED  BY <1>0, <3>1, <4>1 DEF TypeOK, HGoto
    <3>2. CASE /\ hst' = [hst EXCEPT ![x] = hdst[x]]
               /\ htodo' = [htodo EXCEPT ![x] = {}]
               /\ HGoto(x, "store") /\ UNCHANGED hheld
      BY <1>0, <3>2 DEF TypeOK, HGoto
    <3> QED  BY <1>5, <3>1, <3>2 DEF HCopy
  <2> QED  BY <1>0, <1>5, <2>1 DEF TypeOK, HCopy, mapVars, fieldVars, connVars, tVars, wVars, jVars
<1>6. CASE HCopyDelete(x)
  BY <1>0, <1>6 DEF TypeOK, Targets, Holds, HCopyDelete, HGoto, mapVars,
     connVars, tVars, wVars, jVars
<1>7. CASE HCopyAdd(x)
  BY <1>0, <1>7 DEF TypeOK, Targets, Holds, HCopyAdd, HGoto, CopyTarget,
     mapVars, connVars, tVars, wVars, jVars
<1>8. CASE HStore(x)
  BY <1>0, <1>8 DEF TypeOK, Targets, Holds, HStore, HGoto, fieldVars,
     connVars, tVars, wVars, jVars
<1>9. CASE HAddReader(x)
  BY <1>0, <1>9 DEF TypeOK, Targets, Holds, HAddReader, HGoto, mapVars,
     connVars, wVars, jVars
<1> QED  BY <1>1, <1>2, <1>3, <1>4, <1>5, <1>6, <1>7, <1>8, <1>9 DEF HandleReader

LEMMA TypeTrans ==
    ASSUME IInv, NEW x \in Readers, Trans(x)
    PROVE  TypeOK'
<1> USE DEF HPc, TPc, WPc, JPc, NoStream
<1>0. TypeOK /\ Targets /\ Holds  BY DEF IInv
<1>1. CASE TransStart(x)
  BY <1>0, <1>1 DEF TypeOK, Targets, Holds, TransStart, TGoto, mapVars,
     connVars, hVars, wVars, jVars
<1>2. CASE TransCheck(x)
  BY <1>0, <1>2 DEF TypeOK, Targets, Holds, TransCheck, TGoto, mapVars,
     fieldVars, hVars, wVars, jVars
<1>3. CASE ReadError(x)
  BY <1>0, <1>3 DEF TypeOK, Targets, Holds, ReadError, TGoto, mapVars,
     fieldVars, connVars, hVars, wVars, jVars
<1>4. CASE ReadPacket(x)
  BY <1>0, <1>4 DEF TypeOK, Targets, Holds, ReadPacket, TGoto, mapVars, hVars,
     wVars, jVars
<1>5. CASE CloseWriter(x)
  BY <1>0, <1>5 DEF TypeOK, Targets, Holds, CloseWriter, Closing, mapVars,
     fieldVars, hVars, wVars, jVars
<1>6. CASE CloseRemove(x)
  BY <1>0, <1>6 DEF TypeOK, Targets, Holds, CloseRemove, Closing, mapVars,
     connVars, hVars, wVars, jVars
<1>7. CASE TransEnd(x)
  BY <1>0, <1>7 DEF TypeOK, Targets, Holds, TransEnd, TGoto, Closing, mapVars,
     connVars, hVars, wVars, jVars
<1> QED  BY <1>1, <1>2, <1>3, <1>4, <1>5, <1>6, <1>7 DEF Trans, TransMove

LEMMA TypeHandleWriter ==
    ASSUME IInv, NEW w \in Writers, HandleWriter(w)
    PROVE  TypeOK'
<1> USE DEF HPc, TPc, WPc, JPc, NoStream
<1>0. TypeOK /\ Targets /\ Holds  BY DEF IInv
<1>1. CASE FlvRefuse(w)
  BY <1>0, <1>1 DEF TypeOK, Targets, Holds, FlvRefuse, mapVars, fieldVars,
     hVars, tVars, jVars
<1>2. CASE FlvAdmit(w)
  BY <1>0, <1>2 DEF TypeOK, Targets, Holds, FlvAdmit, mapVars, fieldVars,
     connVars, hVars, tVars, jVars
<1>3. CASE WLoad(w)
  <2>1. w \in PendingW  BY <1>3 DEF WLoad, PendingW
  <2>2. NewStream \in Streams /\ NewStream \in Nat
    BY <1>0, <2>1, RoomForOne DEF IInv, TypeOK, NewStream
  <2> QED  BY <1>0, <1>3, <2>2 DEF TypeOK, Targets, Holds, WLoad, Begin,
     fieldVars, connVars, hVars, tVars, jVars
<1>4. CASE WAdd(w)
  BY <1>0, <1>4 DEF TypeOK, Targets, Holds, WAdd, mapVars, connVars, hVars,
     tVars, jVars
<1>5. CASE WStore(w)
  BY <1>0, <1>5 DEF TypeOK, Targets, Holds, WStore, fieldVars, connVars,
     hVars, tVars, jVars
<1> QED  BY <1>1, <1>2, <1>3, <1>4, <1>5 DEF HandleWriter

LEMMA TypeJanitor ==
    ASSUME IInv, Janitor
    PROVE  TypeOK'
<1> USE DEF HPc, TPc, WPc, JPc, NoStream
<1>0. TypeOK /\ Targets /\ Holds  BY DEF IInv
<1>1. CASE JanitorLoad
  BY <1>0, <1>1 DEF TypeOK, Targets, Holds, JanitorLoad, Begin, mapVars,
     fieldVars, connVars, hVars, tVars, wVars
<1>2. CASE JanitorReader
  BY <1>0, <1>2 DEF TypeOK, Targets, Holds, JanitorReader, mapVars, fieldVars,
     hVars, tVars, wVars
<1>3. ASSUME NEW w \in Writers, JanitorAlive(w) PROVE TypeOK'
  BY <1>0, <1>3 DEF TypeOK, Targets, Holds, JanitorAlive, mapVars, fieldVars,
     connVars, hVars, tVars, wVars
<1>4. ASSUME NEW w \in Writers, JanitorRemove(w) PROVE TypeOK'
  BY <1>0, <1>4 DEF TypeOK, Targets, Holds, JanitorRemove, mapVars, connVars,
     hVars, tVars, wVars
<1>5. CASE JanitorClose
  BY <1>0, <1>5 DEF TypeOK, Targets, Holds, JanitorClose, mapVars, fieldVars,
     hVars, tVars, wVars
<1>6. CASE JanitorEnd
  BY <1>0, <1>6 DEF TypeOK, Targets, Holds, JanitorEnd, fieldVars, connVars,
     hVars, tVars, wVars
<1> QED  BY <1>1, <1>2, <1>3, <1>4, <1>5, <1>6 DEF Janitor

LEMMA TypeConn ==
    ASSUME IInv,
           \/ \E x \in Readers : ReaderGone(x)
           \/ \E w \in Writers : WriterGone(w)
           \/ \E c \in Readers \cup Writers : Timeout(c)
           \/ UNCHANGED vars
    PROVE  TypeOK'
<1> USE DEF HPc, TPc, WPc, JPc, NoStream
<1>0. TypeOK /\ Targets /\ Holds  BY DEF IInv
<1>1. ASSUME NEW x \in Readers, ReaderGone(x) PROVE TypeOK'
  BY <1>0, <1>1 DEF TypeOK, Targets, Holds, ReaderGone, mapVars, fieldVars,
     hVars, tVars, wVars, jVars
<1>2. ASSUME NEW w \in Writers, WriterGone(w) PROVE TypeOK'
  BY <1>0, <1>2 DEF TypeOK, Targets, Holds, WriterGone, mapVars, fieldVars,
     hVars, tVars, wVars, jVars
<1>3. ASSUME NEW c \in Readers \cup Writers, Timeout(c) PROVE TypeOK'
  BY <1>0, <1>3 DEF TypeOK, Targets, Holds, Timeout, mapVars, fieldVars,
     hVars, tVars, wVars, jVars
<1>4. CASE UNCHANGED vars
  BY <1>0, <1>4 DEF TypeOK, Targets, Holds, vars, mapVars, fieldVars,
     connVars, hVars, tVars, wVars, jVars
<1> QED  BY <1>1, <1>2, <1>3, <1>4


---------------------------------------------------------------------------
(* The streams that operations work on exist.                              *)

LEMMA TargetsHandleReader ==
    ASSUME IInv, NEW x \in Readers, HandleReader(x)
    PROVE  Targets'
<1> USE DEF HPc, TPc, WPc, JPc, NoStream
<1>0. TypeOK /\ Targets  BY DEF IInv
<1>1. CASE HLoad(x)
  <2>1. x \in PendingR  BY <1>1 DEF HLoad, PendingR
  <2>2. NewStream \in Streams /\ NewStream \in Nat
    BY <1>0, <2>1, RoomForOne DEF IInv, TypeOK, NewStream
  <2> QED  BY <1>0, <1>1, <2>2 DEF TypeOK, Targets, HLoad, HGoto, Begin,
     fieldVars, connVars, tVars, wVars, jVars
<1>2. CASE HStop(x)
  BY <1>0, <1>2 DEF TypeOK, Targets, HStop, HGoto, CloseOld, mapVars,
     fieldVars, tVars, wVars, jVars
<1>3. CASE HStopped(x)
  BY <1>0, <1>3 DEF TypeOK, Targets, HStopped, HGoto, mapVars, connVars,
     tVars, wVars, jVars
<1>4. CASE HId(x)
  <2>1. x \in PendingR  BY <1>4 DEF HId, PendingR
  <2>2. NewStream \in Streams /\ NewStream \in Nat
    BY <1>0, <2>1, RoomForOne DEF IInv, TypeOK, NewStream
  <2> QED  BY <1>0, <1>4, <2>2 DEF TypeOK, Targets, HId, HGoto, fieldVars,
     connVars, tVars, wVars, jVars
<1>5. CASE HCopy(x)
  BY <1>0, <1>5 DEF TypeOK, Targets, HCopy, HGoto, mapVars, fieldVars,
     connVars, tVars, wVars, jVars
<1>6. CASE HCopyDelete(x)
  BY <1>0, <1>6 DEF TypeOK, Targets, HCopyDelete, HGoto, mapVars, connVars,
     tVars, wVars, jVars
<1>7. CASE HCopyAdd(x)
  BY <1>0, <1>7 DEF TypeOK, Targets, HCopyAdd, HGoto, CopyTarget, mapVars,
     connVars, tVars, wVars, jVars
<1>8. CASE HStore(x)
  BY <1>0, <1>8 DEF TypeOK, Targets, HStore, HGoto, fieldVars, connVars,
     tVars, wVars, jVars
<1>9. CASE HAddReader(x)
  BY <1>0, <1>9 DEF TypeOK, Targets, HAddReader, HGoto, mapVars, connVars,
     wVars, jVars
<1> QED  BY <1>1, <1>2, <1>3, <1>4, <1>5, <1>6, <1>7, <1>8, <1>9 DEF HandleReader

LEMMA TargetsTrans ==
    ASSUME IInv, NEW x \in Readers, Trans(x)
    PROVE  Targets'
<1> USE DEF HPc, TPc, WPc, JPc, NoStream
<1>0. TypeOK /\ Targets  BY DEF IInv
<1>1. CASE TransStart(x)
  BY <1>0, <1>1 DEF TypeOK, Targets, TransStart, TGoto, mapVars, connVars,
     hVars, wVars, jVars
<1>2. CASE TransCheck(x)
  BY <1>0, <1>2 DEF TypeOK, Targets, TransCheck, TGoto, mapVars, fieldVars,
     hVars, wVars, jVars
<1>3. CASE ReadError(x)
  BY <1>0, <1>3 DEF TypeOK, Targets, ReadError, TGoto, mapVars, fieldVars,
     connVars, hVars, wVars, jVars
<1>4. CASE ReadPacket(x)
  BY <1>0, <1>4 DEF TypeOK, Targets, ReadPacket, TGoto, mapVars, hVars, wVars,
     jVars
<1>5. CASE CloseWriter(x)
  BY <1>0, <1>5 DEF TypeOK, Targets, CloseWriter, Closing, mapVars, fieldVars,
     hVars, wVars, jVars
<1>6. CASE CloseRemove(x)
  BY <1>0, <1>6 DEF TypeOK, Targets, CloseRemove, Closing, mapVars, connVars,
     hVars, wVars, jVars
<1>7. CASE TransEnd(x)
  BY <1>0, <1>7 DEF TypeOK, Targets, TransEnd, TGoto, Closing, mapVars,
     connVars, hVars, wVars, jVars
<1> QED  BY <1>1, <1>2, <1>3, <1>4, <1>5, <1>6, <1>7 DEF Trans, TransMove

LEMMA TargetsHandleWriter ==
    ASSUME IInv, NEW w \in Writers, HandleWriter(w)
    PROVE  Targets'
<1> USE DEF HPc, TPc, WPc, JPc, NoStream
<1>0. TypeOK /\ Targets  BY DEF IInv
<1>1. CASE FlvRefuse(w)
  BY <1>0, <1>1 DEF TypeOK, Targets, FlvRefuse, mapVars, fieldVars, hVars,
     tVars, jVars
<1>2. CASE FlvAdmit(w)
  BY <1>0, <1>2 DEF TypeOK, Targets, FlvAdmit, mapVars, fieldVars, connVars,
     hVars, tVars, jVars
<1>3. CASE WLoad(w)
  <2>1. w \in PendingW  BY <1>3 DEF WLoad, PendingW
  <2>2. NewStream \in Streams /\ NewStream \in Nat
    BY <1>0, <2>1, RoomForOne DEF IInv, TypeOK, NewStream
  <2> QED  BY <1>0, <1>3, <2>2 DEF TypeOK, Targets, WLoad, Begin, fieldVars,
     connVars, hVars, tVars, jVars
<1>4. CASE WAdd(w)
  BY <1>0, <1>4 DEF TypeOK, Targets, WAdd, mapVars, connVars, hVars, tVars,
     jVars
<1>5. CASE WStore(w)
  BY <1>0, <1>5 DEF TypeOK, Targets, WStore, fieldVars, connVars, hVars,
     tVars, jVars
<1> QED  BY <1>1, <1>2, <1>3, <1>4, <1>5 DEF HandleWriter

LEMMA TargetsJanitor ==
    ASSUME IInv, Janitor
    PROVE  Targets'
<1> USE DEF HPc, TPc, WPc, JPc, NoStream
<1>0. TypeOK /\ Targets  BY DEF IInv
<1>1. CASE JanitorLoad
  BY <1>0, <1>1 DEF TypeOK, Targets, JanitorLoad, Begin, mapVars, fieldVars,
     connVars, hVars, tVars, wVars
<1>2. CASE JanitorReader
  BY <1>0, <1>2 DEF TypeOK, Targets, JanitorReader, mapVars, fieldVars, hVars,
     tVars, wVars
<1>3. ASSUME NEW w \in Writers, JanitorAlive(w) PROVE Targets'
  BY <1>0, <1>3 DEF TypeOK, Targets, JanitorAlive, mapVars, fieldVars,
     connVars, hVars, tVars, wVars
<1>4. ASSUME NEW w \in Writers, JanitorRemove(w) PROVE Targets'
  BY <1>0, <1>4 DEF TypeOK, Targets, JanitorRemove, mapVars, connVars, hVars,
     tVars, wVars
<1>5. CASE JanitorClose
  BY <1>0, <1>5 DEF TypeOK, Targets, JanitorClose, mapVars, fieldVars, hVars,
     tVars, wVars
<1>6. CASE JanitorEnd
  BY <1>0, <1>6 DEF TypeOK, Targets, JanitorEnd, fieldVars, connVars, hVars,
     tVars, wVars
<1> QED  BY <1>1, <1>2, <1>3, <1>4, <1>5, <1>6 DEF Janitor

LEMMA TargetsConn ==
    ASSUME IInv,
           \/ \E x \in Readers : ReaderGone(x)
           \/ \E w \in Writers : WriterGone(w)
           \/ \E c \in Readers \cup Writers : Timeout(c)
           \/ UNCHANGED vars
    PROVE  Targets'
<1> USE DEF HPc, TPc, WPc, JPc, NoStream
<1>0. TypeOK /\ Targets  BY DEF IInv
<1>1. ASSUME NEW x \in Readers, ReaderGone(x) PROVE Targets'
  BY <1>0, <1>1 DEF TypeOK, Targets, ReaderGone, mapVars, fieldVars, hVars,
     tVars, wVars, jVars
<1>2. ASSUME NEW w \in Writers, WriterGone(w) PROVE Targets'
  BY <1>0, <1>2 DEF TypeOK, Targets, WriterGone, mapVars, fieldVars, hVars,
     tVars, wVars, jVars
<1>3. ASSUME NEW c \in Readers \cup Writers, Timeout(c) PROVE Targets'
  BY <1>0, <1>3 DEF TypeOK, Targets, Timeout, mapVars, fieldVars, hVars,
     tVars, wVars, jVars
<1>4. CASE UNCHANGED vars
  BY <1>0, <1>4 DEF TypeOK, Targets, vars, mapVars, fieldVars, connVars,
     hVars, tVars, wVars, jVars
<1> QED  BY <1>1, <1>2, <1>3, <1>4


---------------------------------------------------------------------------
(* What a Copy, a closeInter and the janitor hold between two steps.       *)

LEMMA HoldsHandleReader ==
    ASSUME IInv, NEW x \in Readers, HandleReader(x)
    PROVE  Holds'
<1> USE DEF HPc, TPc, WPc, JPc, NoStream
<1>0. TypeOK /\ Holds  BY DEF IInv
<1>1. CASE HLoad(x)
  BY <1>0, <1>1 DEF TypeOK, Holds, HLoad, HGoto, Begin, fieldVars, connVars,
     tVars, wVars, jVars
<1>2. CASE HStop(x)
  BY <1>0, <1>2 DEF TypeOK, Holds, HStop, HGoto, CloseOld, mapVars, fieldVars,
     tVars, wVars, jVars
<1>3. CASE HStopped(x)
  BY <1>0, <1>3 DEF TypeOK, Holds, HStopped, HGoto, mapVars, connVars, tVars,
     wVars, jVars
<1>4. CASE HId(x)
  BY <1>0, <1>4 DEF TypeOK, Holds, HId, HGoto, fieldVars, connVars, tVars,
     wVars, jVars
<1>5. CASE HCopy(x)
  BY <1>0, <1>5 DEF TypeOK, Holds, HCopy, HGoto, mapVars, fieldVars, connVars,
     tVars, wVars, jVars
<1>6. CASE HCopyDelete(x)
  BY <1>0, <1>6 DEF TypeOK, Holds, HCopyDelete, HGoto, mapVars, connVars,
     tVars, wVars, jVars
<1>7. CASE HCopyAdd(x)
  BY <1>0, <1>7 DEF TypeOK, Holds, HCopyAdd, HGoto, CopyTarget, mapVars,
     connVars, tVars, wVars, jVars
<1>8. CASE HStore(x)
  BY <1>0, <1>8 DEF TypeOK, Holds, HStore, HGoto, fieldVars, connVars, tVars,
     wVars, jVars
<1>9. CASE HAddReader(x)
  BY <1>0, <1>9 DEF TypeOK, Holds, HAddReader, HGoto, mapVars, connVars,
     wVars, jVars
<1> QED  BY <1>1, <1>2, <1>3, <1>4, <1>5, <1>6, <1>7, <1>8, <1>9 DEF HandleReader

LEMMA HoldsTrans ==
    ASSUME IInv, NEW x \in Readers, Trans(x)
    PROVE  Holds'
<1> USE DEF HPc, TPc, WPc, JPc, NoStream
<1>0. TypeOK /\ Holds  BY DEF IInv
<1>1. CASE TransStart(x)
  BY <1>0, <1>1 DEF TypeOK, Holds, TransStart, TGoto, mapVars, connVars,
     hVars, wVars, jVars
<1>2. CASE TransCheck(x)
  BY <1>0, <1>2 DEF TypeOK, Holds, TransCheck, TGoto, mapVars, fieldVars,
     hVars, wVars, jVars
<1>3. CASE ReadError(x)
  BY <1>0, <1>3 DEF TypeOK, Holds, ReadError, TGoto, mapVars, fieldVars,
     connVars, hVars, wVars, jVars
<1>4. CASE ReadPacket(x)
  BY <1>0, <1>4 DEF TypeOK, Holds, ReadPacket, TGoto, mapVars, hVars, wVars,
     jVars
<1>5. CASE CloseWriter(x)
  BY <1>0, <1>5 DEF TypeOK, Holds, CloseWriter, Closing, mapVars, fieldVars,
     hVars, wVars, jVars
<1>6. CASE CloseRemove(x)
  BY <1>0, <1>6 DEF TypeOK, Holds, CloseRemove, Closing, mapVars, connVars,
     hVars, wVars, jVars
<1>7. CASE TransEnd(x)
  BY <1>0, <1>7 DEF TypeOK, Holds, TransEnd, TGoto, Closing, mapVars,
     connVars, hVars, wVars, jVars
<1> QED  BY <1>1, <1>2, <1>3, <1>4, <1>5, <1>6, <1>7 DEF Trans, TransMove

LEMMA HoldsHandleWriter ==
    ASSUME IInv, NEW w \in Writers, HandleWriter(w)
    PROVE  Holds'
<1> USE DEF HPc, TPc, WPc, JPc, NoStream
<1>0. TypeOK /\ Holds  BY DEF IInv
<1>1. CASE FlvRefuse(w)
  BY <1>0, <1>1 DEF TypeOK, Holds, FlvRefuse, mapVars, fieldVars, hVars,
     tVars, jVars
<1>2. CASE FlvAdmit(w)
  BY <1>0, <1>2 DEF TypeOK, Holds, FlvAdmit, mapVars, fieldVars, connVars,
     hVars, tVars, jVars
<1>3. CASE WLoad(w)
  BY <1>0, <1>3 DEF TypeOK, Holds, WLoad, Begin, fieldVars, connVars, hVars,
     tVars, jVars
<1>4. CASE WAdd(w)
  BY <1>0, <1>4 DEF TypeOK, Holds, WAdd, mapVars, connVars, hVars, tVars,
     jVars
<1>5. CASE WStore(w)
  BY <1>0, <1>5 DEF TypeOK, Holds, WStore, fieldVars, connVars, hVars, tVars,
     jVars
<1> QED  BY <1>1, <1>2, <1>3, <1>4, <1>5 DEF HandleWriter

LEMMA HoldsJanitor ==
    ASSUME IInv, Janitor
    PROVE  Holds'
<1> USE DEF HPc, TPc, WPc, JPc, NoStream
<1>0. TypeOK /\ Holds  BY DEF IInv
<1>1. CASE JanitorLoad
  BY <1>0, <1>1 DEF TypeOK, Holds, JanitorLoad, Begin, mapVars, fieldVars,
     connVars, hVars, tVars, wVars
<1>2. CASE JanitorReader
  BY <1>0, <1>2 DEF TypeOK, Holds, JanitorReader, mapVars, fieldVars, hVars,
     tVars, wVars
<1>3. ASSUME NEW w \in Writers, JanitorAlive(w) PROVE Holds'
  BY <1>0, <1>3 DEF TypeOK, Holds, JanitorAlive, mapVars, fieldVars, connVars,
     hVars, tVars, wVars
<1>4. ASSUME NEW w \in Writers, JanitorRemove(w) PROVE Holds'
  BY <1>0, <1>4 DEF TypeOK, Holds, JanitorRemove, mapVars, connVars, hVars,
     tVars, wVars
<1>5. CASE JanitorClose
  BY <1>0, <1>5 DEF TypeOK, Holds, JanitorClose, mapVars, fieldVars, hVars,
     tVars, wVars
<1>6. CASE JanitorEnd
  BY <1>0, <1>6 DEF TypeOK, Holds, JanitorEnd, fieldVars, connVars, hVars,
     tVars, wVars
<1> QED  BY <1>1, <1>2, <1>3, <1>4, <1>5, <1>6 DEF Janitor

LEMMA HoldsConn ==
    ASSUME IInv,
           \/ \E x \in Readers : ReaderGone(x)
           \/ \E w \in Writers : WriterGone(w)
           \/ \E c \in Readers \cup Writers : Timeout(c)
           \/ UNCHANGED vars
    PROVE  Holds'
<1> USE DEF HPc, TPc, WPc, JPc, NoStream
<1>0. TypeOK /\ Holds  BY DEF IInv
<1>1. ASSUME NEW x \in Readers, ReaderGone(x) PROVE Holds'
  BY <1>0, <1>1 DEF TypeOK, Holds, ReaderGone, mapVars, fieldVars, hVars,
     tVars, wVars, jVars
<1>2. ASSUME NEW w \in Writers, WriterGone(w) PROVE Holds'
  BY <1>0, <1>2 DEF TypeOK, Holds, WriterGone, mapVars, fieldVars, hVars,
     tVars, wVars, jVars
<1>3. ASSUME NEW c \in Readers \cup Writers, Timeout(c) PROVE Holds'
  BY <1>0, <1>3 DEF TypeOK, Holds, Timeout, mapVars, fieldVars, hVars, tVars,
     wVars, jVars
<1>4. CASE UNCHANGED vars
  BY <1>0, <1>4 DEF TypeOK, Holds, vars, mapVars, fieldVars, connVars, hVars,
     tVars, wVars, jVars
<1> QED  BY <1>1, <1>2, <1>3, <1>4

---------------------------------------------------------------------------
(* The number of streams.                                                  *)

LEMMA CountStep ==
    ASSUME IInv, [Next]_vars
    PROVE  StreamCount'
<1>0. TypeOK /\ StreamCount  BY DEF IInv
<1>1. ASSUME hpc' = hpc, wpc' = wpc, nstreams' = nstreams PROVE StreamCount'
  <2>1. PendingR' = PendingR /\ PendingW' = PendingW
    BY <1>1 DEF PendingR, PendingW
  <2> QED  BY <1>0, <1>1, <2>1, CountKept
<1>2. ASSUME NEW x \in Readers, HandleReader(x) PROVE StreamCount'
  <2>1. PendingW' = PendingW
    BY <1>2 DEF HandleReader, HLoad, HStop, HStopped, HId, HCopy, HCopyDelete,
       HCopyAdd, HStore, HAddReader, wVars, PendingW
  <2>2. CASE HLoad(x) \/ HId(x)
    <3>1. x \in PendingR /\ (nstreams' = nstreams \/ nstreams' = NewStream)
      BY <2>2 DEF HLoad, HId, PendingR
    <3>2. PendingR' = PendingR \/ PendingR' = PendingR \ {x}
      BY <1>0, <2>2 DEF HLoad, HId, HGoto, PendingR, TypeOK
    <3>3. PendingR' = PendingR => nstreams' = nstreams
      BY <1>0, <2>2 DEF HLoad, HId, HGoto, PendingR, TypeOK
    <3>4. CASE PendingR' = PendingR
      BY <1>0, <2>1, <3>3, <3>4, CountKept
    <3>5. CASE PendingR' = PendingR \ {x}
      BY <1>0, <2>1, <3>1, <3>5, CountReader
    <3> QED  BY <3>2, <3>4, <3>5
  <2>3. CASE HStop(x) \/ HStopped(x) \/ HCopy(x) \/ HCopyDelete(x)
               \/ HCopyAdd(x) \/ HStore(x) \/ HAddReader(x)
    <3>1. nstreams' = nstreams
      BY <2>3 DEF HStop, HStopped, HCopy, HCopyDelete, HCopyAdd, HStore,
         HAddReader, mapVars
    <3>2. PendingR' = PendingR
      BY <1>0, <2>3 DEF HStop, HStopped, HCopy, HCopyDelete, HCopyAdd, HStore,
         HAddReader, HGoto, PendingR, TypeOK
    <3> QED  BY <1>0, <2>1, <3>1, <3>2, CountKept
  <2> QED  BY <1>2, <2>2, <2>3 DEF HandleReader
<1>3. ASSUME NEW w \in Writers, HandleWriter(w) PROVE StreamCount'
  <2>1. PendingR' = PendingR
    BY <1>3 DEF HandleWriter, FlvRefuse, FlvAdmit, WLoad, WAdd, WStore, hVars, PendingR
  <2>2. CASE WLoad(w) \/ FlvRefuse(w)
    <3>1. /\ w \in PendingW /\ PendingW' = PendingW \ {w}
          /\ nstreams' = nstreams \/ nstreams' = NewStream
      BY <1>0, <2>2 DEF WLoad, FlvRefuse, PendingW, TypeOK, mapVars
    <3> QED  BY <1>0, <2>1, <3>1, CountWriter
  <2>3. CASE FlvAdmit(w) \/ WAdd(w) \/ WStore(w)
    <3>1. PendingW' = PendingW /\ nstreams' = nstreams
      BY <1>0, <2>3 DEF FlvAdmit, WAdd, WStore, PendingW, TypeOK, mapVars
    <3> QED  BY <1>0, <2>1, <3>1, CountKept
  <2> QED  BY <1>3, <2>2, <2>3 DEF HandleWriter
<1>4. ASSUME NEW x \in Readers, Trans(x) PROVE StreamCount'
  BY <1>1, <1>4 DEF Trans, TransMove, TransStart, TransCheck, ReadError,
     ReadPacket, CloseWriter, CloseRemove, TransEnd, mapVars, hVars, wVars
<1>5. CASE Janitor
  BY <1>1, <1>5 DEF Janitor, JanitorLoad, JanitorReader, JanitorAlive,
     JanitorRemove, JanitorClose, JanitorEnd, mapVars, hVars, wVars
<1>6. CASE \/ \E x \in Readers : ReaderGone(x)
           \/ \E w \in Writers : WriterGone(w)
           \/ \E c \in Readers \cup Writers : Timeout(c)
           \/ UNCHANGED vars
  BY <1>1, <1>6 DEF ReaderGone, WriterGone, Timeout, vars, mapVars, hVars, wVars
<1> QED  BY <1>2, <1>3, <1>4, <1>5, <1>6 DEF Next

---------------------------------------------------------------------------
(* No writer is lost.                                                      *)

\* Where an open writer may be.
Somewhere(w) ==
    \/ \E s \in Streams : w \in ws[s]
    \/ \E x \in Readers : hpc[x] = "addw" /\ hheld[x] = w
    \/ jpc = "close" /\ jheld = w

LEMMA LostHandleReader ==
    ASSUME IInv, NEW x \in Readers, HandleReader(x), NEW w \in added' \ wclosed'
    PROVE  Somewhere(w)'
<1>0. TypeOK /\ Targets /\ Holds  BY DEF IInv
<1>1. w \in added \ wclosed
  BY DEF HandleReader, HLoad, HStop, HStopped, HId, HCopy, HCopyDelete,
     HCopyAdd, HStore, HAddReader, connVars
<1>2. Somewhere(w)  BY <1>1 DEF IInv, NoWriterLost, Somewhere
<1>3. CASE HCopyDelete(x)
  <2>1. hpc'[x] = "addw" /\ hheld'[x] = hheld[x]
    BY <1>0, <1>3 DEF HCopyDelete, HGoto, TypeOK
  <2>2. CASE w = hheld[x]
    BY <2>1, <2>2 DEF Somewhere
  <2>3. CASE w # hheld[x]
    BY <1>0, <1>2, <1>3, <2>3 DEF Somewhere, HCopyDelete, HGoto, TypeOK, jVars
  <2> QED  BY <2>2, <2>3
<1>4. CASE HCopyAdd(x)
  <2>1. hheld[x] \in ws'[hdst[x]] /\ hdst[x] \in Streams
    BY <1>0, <1>4 DEF HCopyAdd, CopyTarget, Targets, TypeOK
  <2>2. CASE w = hheld[x]
    BY <2>1, <2>2 DEF Somewhere
  <2>3. CASE w # hheld[x]
    BY <1>0, <1>2, <1>4, <2>3 DEF Somewhere, HCopyAdd, CopyTarget, HGoto, TypeOK, jVars
  <2> QED  BY <2>2, <2>3
<1>5. CASE HLoad(x) \/ HStop(x) \/ HStopped(x) \/ HId(x) \/ HCopy(x)
             \/ HStore(x) \/ HAddReader(x)
  <2>1. ws' = ws /\ jpc' = jpc /\ jheld' = jheld
    BY <1>5 DEF HLoad, HStop, HStopped, HId, HCopy, HStore, HAddReader, fieldVars, jVars
  <2>2. hpc[x] # "addw"
    BY <1>5 DEF HLoad, HStop, HStopped, HId, HCopy, HStore, HAddReader
  <2>3. \A y \in Readers \ {x} : hpc'[y] = hpc[y] /\ hheld'[y] = hheld[y]
    BY <1>0, <1>5 DEF HLoad, HStop, HStopped, HId, HCopy, HStore, HAddReader, HGoto, TypeOK
  <2> QED  BY <1>2, <2>1, <2>2, <2>3 DEF Somewhere
<1> QED  BY <1>3, <1>4, <1>5 DEF HandleReader

LEMMA LostStep ==
    ASSUME IInv, [Next]_vars
    PROVE  NoWriterLost'
<1> SUFFICES ASSUME NEW w \in added' \ wclosed'
             PROVE  Somewhere(w)'
  BY DEF NoWriterLost, Somewhere
<1>0. TypeOK /\ Targets /\ Holds  BY DEF IInv
<1>1. w \in added \ wclosed => Somewhere(w)
  BY DEF IInv, NoWriterLost, Somewhere
<1>2. ASSUME ws' = ws, hpc' = hpc, hheld' = hheld, jpc' = jpc, jheld' = jheld,
             w \in added \ wclosed
      PROVE  Somewhere(w)'
  BY <1>1, <1>2 DEF Somewhere
<1>3. ASSUME NEW x \in Readers, HandleReader(x) PROVE Somewhere(w)'
  BY <1>3, LostHandleReader
<1>4. ASSUME NEW v \in Writers, HandleWriter(v) PROVE Somewhere(w)'
  <2>1. CASE WAdd(v)
    <3>1. \A s \in Streams : ws[s] \subseteq ws'[s]
      BY <1>0, <2>1 DEF WAdd, TypeOK
    <3>2. wst[v] \in Streams /\ v \in ws'[wst[v]]
      BY <1>0, <2>1 DEF WAdd, Targets, TypeOK
    <3>3. w = v \/ w \in added \ wclosed
      BY <2>1 DEF WAdd, connVars
    <3> QED  BY <1>1, <2>1, <3>1, <3>2, <3>3 DEF Somewhere, WAdd, hVars, jVars
  <2>2. CASE FlvRefuse(v) \/ FlvAdmit(v) \/ WLoad(v) \/ WStore(v)
    BY <1>2, <2>2 DEF FlvRefuse, FlvAdmit, WLoad, WStore, fieldVars, connVars, hVars, jVars
  <2> QED  BY <1>4, <2>1, <2>2 DEF HandleWriter
<1>5. ASSUME NEW x \in Readers, Trans(x) PROVE Somewhere(w)'
  <2>1. w \in added \ wclosed /\ hpc' = hpc /\ hheld' = hheld /\ jpc' = jpc /\ jheld' = jheld
    BY <1>5 DEF Trans, TransMove, TransStart, TransCheck, ReadError, ReadPacket,
       CloseWriter, CloseRemove, TransEnd, connVars, hVars, jVars
  <2>2. \A s \in Streams : w \in ws[s] => w \in ws'[s]
    <3>1. CASE ReadPacket(x)
      BY <1>0, <2>1, <3>1 DEF ReadPacket, TypeOK
    <3>2. CASE CloseRemove(x)
      <4>1. w # theld[x]
        BY <1>0, <2>1, <3>2 DEF CloseRemove, Holds
      <4> QED  BY <1>0, <3>2, <4>1 DEF CloseRemove, TypeOK
    <3>3. CASE ws' = ws
      BY <3>3
    <3> QED  BY <1>5, <3>1, <3>2, <3>3 DEF Trans, TransMove, TransStart,
                TransCheck, ReadError, CloseWriter, TransEnd, fieldVars
  <2> QED  BY <1>1, <2>1, <2>2 DEF Somewhere
<1>6. CASE Janitor
  <2>1. ASSUME NEW v \in Writers, JanitorRemove(v) PROVE Somewhere(w)'
    <3>1. w \in added \ wclosed /\ jpc # "close" /\ jpc' = "close" /\ jheld' = v
      BY <2>1 DEF JanitorRemove, connVars
    <3>2. w # v => \A s \in Streams : w \in ws[s] => w \in ws'[s]
      BY <1>0, <2>1 DEF JanitorRemove, TypeOK
    <3> QED  BY <1>1, <2>1, <3>1, <3>2 DEF Somewhere, JanitorRemove, hVars
  <2>2. CASE JanitorClose
    BY <1>1, <2>2 DEF Somewhere, JanitorClose, fieldVars, hVars
  <2>3. ASSUME NEW v \in Writers, JanitorAlive(v) PROVE Somewhere(w)'
    BY <1>2, <2>3 DEF JanitorAlive, fieldVars, connVars, hVars
  <2>4. CASE JanitorLoad \/ JanitorReader \/ JanitorEnd
    BY <1>1, <2>4 DEF Somewhere, JanitorLoad, JanitorReader, JanitorEnd,
       fieldVars, connVars, hVars
  <2> QED  BY <1>6, <2>1, <2>2, <2>3, <2>4 DEF Janitor
<1>7. CASE \/ \E x \in Readers : ReaderGone(x)
           \/ \E v \in Writers : WriterGone(v)
           \/ \E c \in Readers \cup Writers : Timeout(c)
           \/ UNCHANGED vars
  BY <1>2, <1>7 DEF ReaderGone, WriterGone, Timeout, vars, fieldVars, connVars, hVars, jVars
<1> QED  BY <1>3, <1>4, <1>5, <1>6, <1>7 DEF Next

---------------------------------------------------------------------------
LEMMA NextIInv == IInv /\ [Next]_vars => IInv'
<1> SUFFICES ASSUME IInv, [Next]_vars PROVE IInv'
  OBVIOUS
<1>1. TypeOK'
  BY TypeHandleReader, TypeTrans, TypeHandleWriter, TypeJanitor, TypeConn DEF Next
<1>2. Targets'
  BY TargetsHandleReader, TargetsTrans, TargetsHandleWriter, TargetsJanitor, TargetsConn DEF Next
<1>3. Holds'
  BY HoldsHandleReader, HoldsTrans, HoldsHandleWriter, HoldsJanitor, HoldsConn DEF Next
<1> QED  BY <1>1, <1>2, <1>3, CountStep, LostStep DEF IInv

LEMMA Inductive == Spec => []IInv
<1> QED  BY InitIInv, NextIInv, PTL DEF Spec

\* The hub is type correct, whatever the number of publishers and writers; in
\* particular the streams that its calls make are at most as many as the calls.
THEOREM HubTypeCorrect == Spec => []TypeOK
<1>1. IInv => TypeOK  BY DEF IInv
<1> QED  BY <1>1, Inductive, PTL

\* No interleaving of HandleReader, HandleWriter, the TransStart loops and the
\* janitor loses an open writer between the ws.Delete of one of them and its
\* AddWriter or Close.
THEOREM HubLosesNoWriter == Spec => []NoWriterLost
<1>1. IInv => NoWriterLost  BY DEF IInv
<1> QED  BY <1>1, Inductive, PTL

---------------------------------------------------------------------------
(* While no two operations have overlapped.                                *)

\* The operations on the hub, as Busy counts them.
OpR(x) == hpc[x] \notin {"idle", "done"} \/ tpc[x] = "start"
OpW(w) == wpc[w] \in {"add", "store"}
OpJ    == jpc # "idle"

Copying  == {"copy", "delete", "addw"}
Moving   == Copying \cup {"store"}

\* One operation at a time.
Alone ==
    /\ \A x, y \in Readers : OpR(x) /\ OpR(y) => x = y
    /\ \A w, v \in Writers : OpW(w) /\ OpW(v) => w = v
    /\ \A x \in Readers, w \in Writers : ~(OpR(x) /\ OpW(w))
    /\ OpJ => (\A x \in Readers : ~OpR(x)) /\ (\A w \in Writers : ~OpW(w))

\* A loop runs after the HandleReader that started it.
LoopAfter == \A x \in Readers : tpc[x] # "none" => hpc[x] = "done"

\* No operation has a stream that was not made, and such a stream has no reader.
Made ==
    /\ cur <= nstreams
    /\ \A x \in Readers : hst[x] <= nstreams /\ hdst[x] <= nstreams
    /\ \A w \in Writers : wst[w] <= nstreams
    /\ \A s \in Streams : s > nstreams => r[s] = None

\* The operation under way works on the stream of the key, or there is none.
OnCur ==
    /\ \A x \in Readers : hpc[x] \in {"stop", "stopped", "id", "reader"} => hst[x] = cur
    /\ \A x \in Readers : tpc[x] = "start" => tst[x] = cur
    /\ \A w \in Writers : wpc[w] = "add" => wst[w] = cur
    /\ \A w \in Writers : wpc[w] = "store" => cur = NoStream
    /\ jpc # "idle" => jst = cur

\* AddReader is called on a stream without a reader, so a loop keeps its reader.
OneReader ==
    /\ \A x \in Readers : hpc[x] \in {"store", "reader"} => r[hst[x]] = None
    /\ \A x \in Readers : hpc[x] \in Copying => r[hdst[x]] = None
    /\ \A x \in Readers : tpc[x] \notin {"none", "ended"} => r[tst[x]] = x

\* A loop whose connection is open feeds the stream of the key, which is
\* started, no takeover is past its TransStop, and the janitor counts it.
OpenLoop ==
    \A x \in Readers : Looping(x) /\ x \notin rclosed =>
        /\ tst[x] = cur /\ isStart[cur]
        /\ \A y \in Readers : hpc[y] \in {"idle", "done", "stop"} /\ tpc[y] # "start"
        /\ jpc \in {"writers", "close"} => jsome

\* Where an open writer is during each operation.
PlacedAt(w) ==
    /\ (\A y \in Readers : hpc[y] \notin Moving) =>
          \/ cur # NoStream /\ w \in ws[cur]
          \/ jpc = "close" /\ jheld = w
    /\ \A y \in Readers : hpc[y] \in Copying =>
          \/ w \in ws[hdst[y]]
          \/ w \in htodo[y] /\ w \in ws[hst[y]]
          \/ hpc[y] # "copy" /\ hheld[y] = w
    /\ \A y \in Readers : hpc[y] = "store" => w \in ws[hst[y]]
    /\ jpc \in {"writers", "close"} /\ ~jsome =>
          w \in jtodo \/ (jpc = "close" /\ jheld = w)

Placed == \A w \in added \ wclosed : PlacedAt(w)

SInv == LoopAfter /\ Made /\ (~raced => Alone /\ OnCur /\ OneReader /\ OpenLoop /\ Placed)

\* Streams are numbered from 1.
LEMMA StreamsNat == Streams \subseteq Nat /\ NoStream \notin Streams /\ NoStream \in Nat
BY PendingFinite DEF Streams, NoStream

LEMMA StillNotRaced == ASSUME IInv, [Next]_vars, ~raced' PROVE ~raced
<1> USE DEF TypeOK
<1>1. raced' = raced \/ raced' = (raced \/ Busy)
  BY DEF Next, HandleReader, HLoad, HStop, HStopped, HId, HCopy, HCopyDelete, HCopyAdd,
     HStore, HAddReader, HandleWriter, FlvRefuse, FlvAdmit, WLoad, WAdd, WStore, Trans,
     TransMove, TransStart, TransCheck, ReadError, ReadPacket, CloseWriter, CloseRemove,
     TransEnd, Janitor, JanitorLoad, JanitorReader, JanitorAlive, JanitorRemove,
     JanitorClose, JanitorEnd, ReaderGone, WriterGone, Timeout, Begin, vars
<1> QED  BY <1>1

\* An operation that begins, while none has overlapped, finds no other one.
LEMMA BeginsAlone ==
    ASSUME IInv, Begin, ~raced'
    PROVE  /\ \A x \in Readers : ~OpR(x)
           /\ \A w \in Writers : ~OpW(w)
           /\ ~OpJ
<1>1. ~Busy  BY DEF Begin, IInv, TypeOK
<1> QED  BY <1>1 DEF Busy, OpR, OpW, OpJ

\* A loop runs after the HandleReader that started it.
LEMMA LoopAfterStep ==
    ASSUME IInv, LoopAfter, [Next]_vars
    PROVE  LoopAfter'
<1> USE DEF LoopAfter
<1>0. TypeOK  BY DEF IInv
<1>1. ASSUME NEW x \in Readers, HandleReader(x) PROVE LoopAfter'
  <2>1. CASE HAddReader(x)
    BY <1>0, <2>1 DEF HAddReader, HGoto, TypeOK
  <2>2. CASE HLoad(x) \/ HStop(x) \/ HStopped(x) \/ HId(x) \/ HCopy(x)
               \/ HCopyDelete(x) \/ HCopyAdd(x) \/ HStore(x)
    <3>1. tpc' = tpc /\ hpc[x] # "done" /\ \A y \in Readers \ {x} : hpc'[y] = hpc[y]
      BY <1>0, <2>2 DEF HLoad, HStop, HStopped, HId, HCopy, HCopyDelete, HCopyAdd,
         HStore, HGoto, TypeOK, tVars
    <3> QED  BY <3>1
  <2> QED  BY <1>1, <2>1, <2>2 DEF HandleReader
<1>2. ASSUME NEW x \in Readers, Trans(x) PROVE LoopAfter'
  <2>1. hpc' = hpc /\ tpc[x] # "none" /\ \A y \in Readers \ {x} : tpc'[y] = tpc[y]
    BY <1>0, <1>2 DEF Trans, TransMove, TransStart, TransCheck, ReadError, ReadPacket,
       CloseWriter, CloseRemove, TransEnd, Closing, TGoto, TypeOK, hVars
  <2> QED  BY <2>1
<1>3. ASSUME hpc' = hpc, tpc' = tpc PROVE LoopAfter'
  BY <1>3
<1>4. ASSUME NEW w \in Writers, HandleWriter(w) PROVE LoopAfter'
  BY <1>3, <1>4 DEF HandleWriter, FlvRefuse, FlvAdmit, WLoad, WAdd, WStore, hVars, tVars
<1>5. CASE Janitor
  BY <1>3, <1>5 DEF Janitor, JanitorLoad, JanitorReader, JanitorAlive, JanitorRemove,
     JanitorClose, JanitorEnd, hVars, tVars
<1>6. CASE \/ \E x \in Readers : ReaderGone(x)
           \/ \E w \in Writers : WriterGone(w)
           \/ \E c \in Readers \cup Writers : Timeout(c)
           \/ UNCHANGED vars
  BY <1>3, <1>6 DEF ReaderGone, WriterGone, Timeout, vars, hVars, tVars
<1> QED  BY <1>1, <1>2, <1>4, <1>5, <1>6 DEF Next

\* Streams are numbered as they are made.
LEMMA MadeStep ==
    ASSUME IInv, Made, [Next]_vars
    PROVE  Made'
<1> USE DEF Made
<1>0. TypeOK /\ Targets  BY DEF IInv
<1>1. ASSUME UNCHANGED <<cur, nstreams, hst, hdst, wst, r>> PROVE Made'
  BY <1>1
<1>2. ASSUME NEW x \in Readers, HandleReader(x) PROVE Made'
  <2>1. CASE HLoad(x) \/ HId(x)
    <3>1. /\ nstreams' = nstreams \/ nstreams' = nstreams + 1
          /\ UNCHANGED <<cur, wst, r>>
          /\ \A y \in Readers : hst'[y] = hst[y] \/ hst'[y] = cur \/ hst'[y] = nstreams'
          /\ \A y \in Readers : hdst'[y] = hdst[y] \/ hdst'[y] = nstreams'
      BY <1>0, <2>1 DEF HLoad, HId, NewStream, TypeOK, fieldVars, wVars
    <3>2. /\ cur \in Nat /\ nstreams \in Nat
          /\ \A y \in Readers : hst[y] \in Nat /\ hdst[y] \in Nat
          /\ \A w \in Writers : wst[w] \in Nat
      BY <1>0, StreamsNat DEF TypeOK
    <3>3. ASSUME NEW s \in Streams, s > nstreams' PROVE s > nstreams
      <4>1. s \in Nat  BY StreamsNat
      <4>2. nstreams' = nstreams \/ nstreams' = nstreams + 1  BY <3>1
      <4> QED  BY <3>2, <3>3, <4>1, <4>2
    <3> QED  BY <3>1, <3>2, <3>3
  <2>2. CASE HCopy(x) \/ HStore(x)
    BY <1>0, <2>2 DEF HCopy, HStore, TypeOK, mapVars, fieldVars, wVars
  <2>3. CASE HAddReader(x)
    BY <1>0, <2>3 DEF HAddReader, TypeOK, Targets, Streams, NoStream, mapVars, wVars
  <2>4. CASE HStop(x) \/ HStopped(x) \/ HCopyDelete(x) \/ HCopyAdd(x)
    BY <1>1, <2>4 DEF HStop, HStopped, HCopyDelete, HCopyAdd, mapVars, fieldVars, wVars
  <2> QED  BY <1>2, <2>1, <2>2, <2>3, <2>4 DEF HandleReader
<1>3. ASSUME NEW w \in Writers, HandleWriter(w) PROVE Made'
  <2>1. CASE WLoad(w)
    BY <1>0, <2>1 DEF WLoad, NewStream, TypeOK, Streams, NoStream, fieldVars, hVars
  <2>2. CASE WAdd(w) \/ WStore(w)
    BY <1>0, <2>2 DEF WAdd, WStore, TypeOK, NoStream, mapVars, fieldVars, hVars
  <2>3. CASE FlvRefuse(w) \/ FlvAdmit(w)
    BY <1>1, <2>3 DEF FlvRefuse, FlvAdmit, mapVars, fieldVars, hVars
  <2> QED  BY <1>3, <2>1, <2>2, <2>3 DEF HandleWriter
<1>4. ASSUME NEW x \in Readers, Trans(x) PROVE Made'
  BY <1>1, <1>4 DEF Trans, TransMove, TransStart, TransCheck, ReadError, ReadPacket,
     CloseWriter, CloseRemove, TransEnd, mapVars, fieldVars, hVars, wVars
<1>5. CASE Janitor
  <2>1. CASE JanitorEnd
    BY <1>0, <2>1 DEF JanitorEnd, TypeOK, NoStream, fieldVars, hVars, wVars
  <2>2. CASE UNCHANGED <<cur, nstreams, hst, hdst, wst, r>>
    BY <1>1, <2>2
  <2> QED  BY <1>5, <2>1, <2>2 DEF Janitor, JanitorLoad, JanitorReader, JanitorAlive,
              JanitorRemove, JanitorClose, mapVars, fieldVars, hVars, wVars
<1>6. CASE \/ \E x \in Readers : ReaderGone(x)
           \/ \E w \in Writers : WriterGone(w)
           \/ \E c \in Readers \cup Writers : Timeout(c)
           \/ UNCHANGED vars
  BY <1>1, <1>6 DEF ReaderGone, WriterGone, Timeout, vars, mapVars, fieldVars, hVars, wVars
<1> QED  BY <1>2, <1>3, <1>4, <1>5, <1>6 DEF Next

\* Every step but the first of an operation leaves the operations under way
\* alone or ends one.
LEMMA AloneStep ==
    ASSUME IInv, Alone, [Next]_vars, ~raced'
    PROVE  Alone'
<1> USE DEF Alone, OpR, OpW, OpJ
<1>0. TypeOK  BY DEF IInv
<1>1. ASSUME \A x \in Readers : OpR(x)' => OpR(x),
             \A w \in Writers : OpW(w)' => OpW(w), OpJ' => OpJ
      PROVE  Alone'
  BY <1>1
<1>2. ASSUME NEW x \in Readers, HandleReader(x) PROVE Alone'
  <2>1. CASE HLoad(x)
    <3>1. /\ \A y \in Readers : ~OpR(y)
          /\ \A w \in Writers : ~OpW(w)
          /\ ~OpJ
      BY <2>1, BeginsAlone DEF HLoad
    <3>2. tpc' = tpc /\ wpc' = wpc /\ jpc' = jpc /\ \A y \in Readers \ {x} : hpc'[y] = hpc[y]
      BY <1>0, <2>1 DEF HLoad, HGoto, TypeOK, tVars, wVars, jVars
    <3> QED  BY <3>1, <3>2
  <2>2. CASE HStop(x) \/ HStopped(x) \/ HId(x) \/ HCopy(x) \/ HCopyDelete(x)
               \/ HCopyAdd(x) \/ HStore(x) \/ HAddReader(x)
    <3>1. /\ OpR(x) /\ wpc' = wpc /\ jpc' = jpc
          /\ \A y \in Readers \ {x} : hpc'[y] = hpc[y] /\ tpc'[y] = tpc[y]
      BY <1>0, <2>2 DEF HStop, HStopped, HId, HCopy, HCopyDelete, HCopyAdd, HStore,
         HAddReader, HGoto, TypeOK, tVars, wVars, jVars
    <3> QED  BY <1>1, <3>1
  <2> QED  BY <1>2, <2>1, <2>2 DEF HandleReader
<1>3. ASSUME NEW w \in Writers, HandleWriter(w) PROVE Alone'
  <2>1. CASE WLoad(w)
    <3>1. /\ \A y \in Readers : ~OpR(y)
          /\ \A v \in Writers : ~OpW(v)
          /\ ~OpJ
      BY <2>1, BeginsAlone DEF WLoad
    <3>2. hpc' = hpc /\ tpc' = tpc /\ jpc' = jpc /\ \A v \in Writers \ {w} : wpc'[v] = wpc[v]
      BY <1>0, <2>1 DEF WLoad, TypeOK, hVars, tVars, jVars
    <3> QED  BY <3>1, <3>2
  <2>2. CASE FlvRefuse(w) \/ FlvAdmit(w) \/ WAdd(w) \/ WStore(w)
    <3>1. /\ hpc' = hpc /\ tpc' = tpc /\ jpc' = jpc
          /\ wpc'[w] \notin {"add", "store"} /\ \A v \in Writers \ {w} : wpc'[v] = wpc[v]
      BY <1>0, <2>2 DEF FlvRefuse, FlvAdmit, WAdd, WStore, TypeOK, hVars, tVars, jVars
    <3> QED  BY <1>1, <3>1
  <2> QED  BY <1>3, <2>1, <2>2 DEF HandleWriter
<1>4. ASSUME NEW x \in Readers, Trans(x) PROVE Alone'
  <2>1. /\ hpc' = hpc /\ wpc' = wpc /\ jpc' = jpc
        /\ tpc'[x] # "start" /\ \A y \in Readers \ {x} : tpc'[y] = tpc[y]
    BY <1>0, <1>4 DEF Trans, TransMove, TransStart, TransCheck, ReadError, ReadPacket,
       CloseWriter, CloseRemove, TransEnd, Closing, TGoto, TypeOK, hVars, wVars, jVars
  <2> QED  BY <1>1, <2>1
<1>5. CASE Janitor
  <2>1. hpc' = hpc /\ tpc' = tpc /\ wpc' = wpc
    BY <1>5 DEF Janitor, JanitorLoad, JanitorReader, JanitorAlive, JanitorRemove,
       JanitorClose, JanitorEnd, hVars, tVars, wVars
  <2>2. CASE JanitorLoad
    <3>1. /\ \A y \in Readers : ~OpR(y)
          /\ \A w \in Writers : ~OpW(w)
      BY <2>2, BeginsAlone DEF JanitorLoad
    <3> QED  BY <2>1, <3>1
  <2>3. CASE ~JanitorLoad
    <3>1. OpJ
      BY <1>5, <2>3 DEF Janitor, JanitorReader, JanitorAlive, JanitorRemove,
         JanitorClose, JanitorEnd
    <3> QED  BY <1>1, <2>1, <3>1
  <2> QED  BY <2>2, <2>3
<1>6. CASE \/ \E x \in Readers : ReaderGone(x)
           \/ \E w \in Writers : WriterGone(w)
           \/ \E c \in Readers \cup Writers : Timeout(c)
           \/ UNCHANGED vars
  BY <1>1, <1>6 DEF ReaderGone, WriterGone, Timeout, vars, hVars, tVars, wVars, jVars
<1> QED  BY <1>2, <1>3, <1>4, <1>5, <1>6 DEF Next

\* Only the operation that is under way changes the stream of the key.
LEMMA OnCurStep ==
    ASSUME IInv, LoopAfter, Alone, OnCur, [Next]_vars, ~raced'
    PROVE  OnCur'
<1>0. TypeOK  BY DEF IInv
<1>1. ASSUME NEW x \in Readers, HandleReader(x) PROVE OnCur'
  <2>1. CASE HLoad(x)
    <3>1. /\ \A y \in Readers : ~OpR(y)
          /\ \A w \in Writers : ~OpW(w)
          /\ ~OpJ
      BY <2>1, BeginsAlone DEF HLoad
    <3> QED  BY <1>0, <2>1, <3>1 DEF OnCur, OpR, OpW, OpJ, HLoad, HGoto, TypeOK, tVars, wVars, jVars
  <2>3. CASE HStop(x) \/ HStopped(x) \/ HId(x) \/ HCopy(x) \/ HCopyDelete(x) \/ HCopyAdd(x)
    BY <1>0, <2>3 DEF OnCur, HStop, HStopped, HId, HCopy, HCopyDelete, HCopyAdd, HGoto,
       TypeOK, mapVars, tVars, wVars, jVars
  <2>4. CASE HStore(x)
    <3>1. OpR(x)  BY <2>4 DEF HStore, OpR
    <3>2. /\ \A y \in Readers \ {x} : ~OpR(y)
          /\ \A w \in Writers : ~OpW(w)
          /\ ~OpJ
      BY <3>1 DEF Alone
    <3>3. tpc[x] # "start"
      BY <2>4 DEF HStore, LoopAfter
    <3> QED  BY <1>0, <2>4, <3>2, <3>3 DEF OnCur, OpR, OpW, OpJ, HStore, HGoto, TypeOK, tVars, wVars, jVars
  <2>5. CASE HAddReader(x)
    BY <1>0, <2>5 DEF OnCur, HAddReader, HGoto, TypeOK, mapVars, wVars, jVars
  <2> QED  BY <1>1, <2>1, <2>3, <2>4, <2>5 DEF HandleReader
<1>2. ASSUME NEW w \in Writers, HandleWriter(w) PROVE OnCur'
  <2>1. CASE WLoad(w)
    <3>1. /\ \A y \in Readers : ~OpR(y)
          /\ \A v \in Writers : ~OpW(v)
          /\ ~OpJ
      BY <2>1, BeginsAlone DEF WLoad
    <3> QED  BY <1>0, <2>1, <3>1 DEF OnCur, OpR, OpW, OpJ, WLoad, TypeOK, hVars, tVars, jVars
  <2>2. CASE WStore(w)
    <3>1. /\ \A y \in Readers : ~OpR(y)
          /\ \A v \in Writers \ {w} : ~OpW(v)
          /\ ~OpJ
      BY <2>2 DEF Alone, OpW, WStore
    <3> QED  BY <1>0, <2>2, <3>1 DEF OnCur, OpR, OpW, OpJ, WStore, TypeOK, hVars, tVars, jVars
  <2>3. CASE FlvRefuse(w) \/ FlvAdmit(w) \/ WAdd(w)
    BY <1>0, <2>3 DEF OnCur, FlvRefuse, FlvAdmit, WAdd, TypeOK, mapVars, hVars, tVars, jVars
  <2> QED  BY <1>2, <2>1, <2>2, <2>3 DEF HandleWriter
<1>3. ASSUME NEW x \in Readers, Trans(x) PROVE OnCur'
  <2>1. /\ UNCHANGED <<cur, hpc, hst, wpc, wst, jpc, jst>> /\ tpc'[x] # "start"
        /\ \A y \in Readers \ {x} : tpc'[y] = tpc[y] /\ tst'[y] = tst[y]
    BY <1>0, <1>3 DEF Trans, TransMove, TransStart, TransCheck, ReadError, ReadPacket,
       CloseWriter, CloseRemove, TransEnd, Closing, TGoto, TypeOK, mapVars, hVars, wVars, jVars
  <2> QED  BY <2>1 DEF OnCur
<1>4. CASE Janitor
  <2>1. UNCHANGED <<hpc, hst, tpc, tst, wpc, wst>>
    BY <1>4 DEF Janitor, JanitorLoad, JanitorReader, JanitorAlive, JanitorRemove,
       JanitorClose, JanitorEnd, hVars, tVars, wVars
  <2>2. CASE JanitorEnd
    <3>1. /\ \A y \in Readers : ~OpR(y)
          /\ \A w \in Writers : ~OpW(w)
      BY <2>2 DEF Alone, OpJ, JanitorEnd
    <3> QED  BY <2>1, <2>2, <3>1 DEF OnCur, OpR, OpW, JanitorEnd
  <2>3. CASE ~JanitorEnd
    <3>1. cur' = cur /\ (jst' = cur \/ (jst' = jst /\ jpc # "idle"))
      BY <1>4, <2>3 DEF Janitor, JanitorLoad, JanitorReader, JanitorAlive, JanitorRemove,
         JanitorClose, mapVars
    <3> QED  BY <2>1, <3>1 DEF OnCur
  <2> QED  BY <2>2, <2>3
<1>5. CASE \/ \E x \in Readers : ReaderGone(x)
           \/ \E w \in Writers : WriterGone(w)
           \/ \E c \in Readers \cup Writers : Timeout(c)
           \/ UNCHANGED vars
  BY <1>5 DEF OnCur, ReaderGone, WriterGone, Timeout, vars, mapVars, hVars, tVars, wVars, jVars
<1> QED  BY <1>1, <1>2, <1>3, <1>4, <1>5 DEF Next

\* A stream gets one reader in its life: the one that was made for it, or that
\* found it without.
LEMMA OneReaderStep ==
    ASSUME IInv, Made, Alone, OneReader, [Next]_vars, ~raced'
    PROVE  OneReader'
<1>0. TypeOK /\ Targets /\ StreamCount  BY DEF IInv
<1>1. ASSUME UNCHANGED <<hpc, hst, hdst, tpc, tst, r>> PROVE OneReader'
  BY <1>1 DEF OneReader
<1>2. ASSUME NEW x \in Readers, HandleReader(x) PROVE OneReader'
  <2>1. CASE HLoad(x) \/ HId(x)
    <3>1. NewStream \in Streams /\ r[NewStream] = None
      <4>1. x \in PendingR  BY <2>1 DEF HLoad, HId, PendingR
      <4>2. NewStream \in Streams  BY <1>0, <4>1, RoomForOne
      <4>3. NewStream > nstreams  BY <1>0 DEF TypeOK, NewStream
      <4> QED  BY <4>2, <4>3 DEF Made
    <3>2. CASE HLoad(x)
      BY <1>0, <3>1, <3>2 DEF OneReader, Copying, HLoad, HGoto, TypeOK, fieldVars, tVars
    <3>3. CASE HId(x)
      BY <1>0, <3>1, <3>3 DEF OneReader, Copying, HId, HGoto, TypeOK, fieldVars, tVars
    <3> QED  BY <2>1, <3>2, <3>3
  <2>2. CASE HCopy(x)
    BY <1>0, <2>2 DEF OneReader, Copying, HCopy, HGoto, TypeOK, fieldVars, tVars
  <2>3. CASE HStop(x) \/ HStopped(x) \/ HCopyDelete(x) \/ HCopyAdd(x) \/ HStore(x)
    BY <1>0, <2>3 DEF OneReader, Copying, HStop, HStopped, HCopyDelete, HCopyAdd, HStore,
       HGoto, TypeOK, fieldVars, tVars
  <2>4. CASE HAddReader(x)
    <3>1. hst[x] \in Streams /\ r[hst[x]] = None /\ OpR(x)
      BY <1>0, <2>4 DEF HAddReader, Targets, OneReader, OpR
    <3>2. \A y \in Readers \ {x} : hpc[y] \in {"idle", "done"}
      BY <3>1 DEF Alone, OpR
    <3>3. \A y \in Readers : hpc'[y] \in {"idle", "done"}
      BY <1>0, <2>4, <3>2 DEF HAddReader, HGoto, TypeOK
    <3>4. ASSUME NEW y \in Readers, tpc'[y] \notin {"none", "ended"} PROVE r'[tst'[y]] = y
      <4>1. CASE y = x
        BY <1>0, <2>4, <3>1, <4>1 DEF HAddReader, TypeOK
      <4>2. CASE y # x
        <5>1. tpc'[y] = tpc[y] /\ tst'[y] = tst[y]
          BY <1>0, <2>4, <4>2 DEF HAddReader, TypeOK
        <5>2. r[tst[y]] = y /\ tst[y] \in Streams /\ y # None
          BY <1>0, <3>4, <5>1, HubAssumption DEF OneReader, Targets
        <5> QED  BY <1>0, <2>4, <3>1, <5>1, <5>2 DEF HAddReader, TypeOK
      <4> QED  BY <4>1, <4>2
    <3> QED  BY <3>3, <3>4 DEF OneReader, Copying
  <2> QED  BY <1>2, <2>1, <2>2, <2>3, <2>4 DEF HandleReader
<1>3. ASSUME NEW x \in Readers, Trans(x) PROVE OneReader'
  <2>1. /\ UNCHANGED <<hpc, hst, hdst, r>>
        /\ tpc[x] \notin {"none", "ended"}
        /\ tpc'[x] = "ended" \/ tst'[x] = tst[x]
        /\ \A y \in Readers \ {x} : tpc'[y] = tpc[y] /\ tst'[y] = tst[y]
    BY <1>0, <1>3 DEF Trans, TransMove, TransStart, TransCheck, ReadError, ReadPacket,
       CloseWriter, CloseRemove, TransEnd, Closing, TGoto, TypeOK, fieldVars, hVars
  <2> QED  BY <2>1 DEF OneReader
<1>4. ASSUME NEW w \in Writers, HandleWriter(w) PROVE OneReader'
  BY <1>1, <1>4 DEF HandleWriter, FlvRefuse, FlvAdmit, WLoad, WAdd, WStore, fieldVars,
     hVars, tVars
<1>5. CASE Janitor
  BY <1>1, <1>5 DEF Janitor, JanitorLoad, JanitorReader, JanitorAlive, JanitorRemove,
     JanitorClose, JanitorEnd, fieldVars, hVars, tVars
<1>6. CASE \/ \E x \in Readers : ReaderGone(x)
           \/ \E w \in Writers : WriterGone(w)
           \/ \E c \in Readers \cup Writers : Timeout(c)
           \/ UNCHANGED vars
  BY <1>1, <1>6 DEF ReaderGone, WriterGone, Timeout, vars, fieldVars, hVars, tVars
<1> QED  BY <1>2, <1>3, <1>4, <1>5, <1>6 DEF Next

\* A takeover closes the open loop at its TransStop, and the janitor keeps the
\* key of an open loop unless it closes it.
LEMMA OpenLoopStep ==
    ASSUME IInv, LoopAfter, Alone, OnCur, OneReader, OpenLoop, [Next]_vars, ~raced'
    PROVE  OpenLoop'
<1> DEFINE Open(x) == Looping(x) /\ x \notin rclosed
<1>0. TypeOK /\ Targets  BY DEF IInv
<1>a. ASSUME NEW x \in Readers, Open(x)
      PROVE  tst[x] = cur /\ cur \in Streams /\ cur # NoStream /\ r[cur] = x /\ isStart[cur]
  BY <1>0, <1>a, StreamsNat DEF OpenLoop, OneReader, Targets, Looping
<1>1. ASSUME NEW x \in Readers, HandleReader(x) PROVE OpenLoop'
  <2>0. ASSUME \A y \in Readers : ~(Open(y)') PROVE OpenLoop'
    BY <2>0 DEF OpenLoop
  <2>1. CASE HLoad(x)
    <3>1. UNCHANGED <<cur, isStart, rclosed, tpc, tst, jpc, jsome>>
      BY <2>1 DEF HLoad, fieldVars, connVars, tVars, jVars
    <3>2. CASE cur = NoStream
      BY <1>a, <2>0, <3>1, <3>2 DEF Looping
    <3>3. CASE cur # NoStream
      <4>1. \A y \in Readers : hpc'[y] = hpc[y] \/ hpc'[y] = "stop"
        BY <1>0, <2>1, <3>3 DEF HLoad, HGoto, TypeOK
      <4> QED  BY <3>1, <4>1 DEF OpenLoop, Looping
    <3> QED  BY <3>2, <3>3
  <2>2. CASE HStop(x)
    <3>1. hst[x] = cur /\ tpc' = tpc /\ rclosed \subseteq rclosed'
      BY <2>2 DEF HStop, OnCur, CloseOld, tVars
    <3>2. \A y \in Readers : Open(y) => y \in rclosed'
      BY <1>a, <2>2, <3>1, HubAssumption DEF HStop, CloseOld
    <3> QED  BY <2>0, <3>1, <3>2 DEF Looping
  <2>3. CASE HStopped(x) \/ HId(x) \/ HCopy(x) \/ HCopyDelete(x) \/ HCopyAdd(x) \/ HStore(x)
    <3>1. hpc[x] \notin {"idle", "done", "stop"} /\ tpc' = tpc /\ rclosed' = rclosed
      BY <2>3 DEF HStopped, HId, HCopy, HCopyDelete, HCopyAdd, HStore, connVars, tVars
    <3> QED  BY <2>0, <3>1 DEF OpenLoop, Looping
  <2>4. CASE HAddReader(x)
    <3>1. hpc[x] \notin {"idle", "done", "stop"} /\ rclosed' = rclosed
      BY <2>4 DEF HAddReader, connVars
    <3>2. \A y \in Readers : Looping(y)' => Looping(y)
      BY <1>0, <2>4 DEF HAddReader, Looping, TypeOK
    <3> QED  BY <2>0, <3>1, <3>2 DEF OpenLoop
  <2> QED  BY <1>1, <2>1, <2>2, <2>3, <2>4 DEF HandleReader
<1>2. ASSUME NEW x \in Readers, Trans(x) PROVE OpenLoop'
  <2>1. CASE TransStart(x)
    <3>1. OpR(x) /\ hpc[x] = "done"
      BY <2>1 DEF TransStart, OpR, LoopAfter
    <3>2. /\ \A y \in Readers : hpc[y] \in {"idle", "done"}
          /\ \A y \in Readers \ {x} : tpc[y] # "start"
          /\ jpc = "idle"
      BY <3>1 DEF Alone, OpR, OpJ
    <3>3. \A y \in Readers \ {x} : ~Open(y)
      BY <2>1 DEF TransStart, OpenLoop
    <3>4. /\ UNCHANGED <<cur, hpc, rclosed, jpc, tst>> /\ tpc'[x] = "check"
          /\ \A y \in Readers \ {x} : tpc'[y] = tpc[y]
          /\ tst[x] = cur /\ tst[x] \in Streams /\ isStart'[tst[x]]
      BY <1>0, <2>1 DEF TransStart, TGoto, OnCur, Targets, TypeOK, mapVars, connVars, hVars, jVars
    <3> QED  BY <3>2, <3>3, <3>4 DEF OpenLoop, Looping
  <2>2. CASE TransEnd(x)
    <3>1. /\ UNCHANGED <<cur, hpc, rclosed, jpc, jsome>>
          /\ tpc[x] \notin {"none", "ended"} /\ ~Looping(x) /\ tpc'[x] = "ended"
          /\ \A y \in Readers \ {x} : tpc'[y] = tpc[y] /\ tst'[y] = tst[y]
      BY <1>0, <2>2 DEF TransEnd, Closing, Looping, TGoto, TypeOK, mapVars, connVars, hVars, jVars
    <3>2. ASSUME NEW y \in Readers, Open(y)' PROVE y # x /\ Open(y) /\ isStart'[cur]
      <4>1. y # x /\ Open(y)
        BY <3>1, <3>2 DEF Looping
      <4>2. tst[x] # cur
        BY <1>a, <3>1, <4>1 DEF OneReader
      <4> QED  BY <1>0, <1>a, <2>2, <4>1, <4>2 DEF TransEnd, TypeOK
    <3>3. \A y \in Readers : tpc'[y] = tpc[y] \/ tpc'[y] = "ended"
      BY <3>1
    <3> QED  BY <3>1, <3>2, <3>3 DEF OpenLoop
  <2>3. CASE TransCheck(x) \/ ReadError(x) \/ ReadPacket(x) \/ CloseWriter(x) \/ CloseRemove(x)
    <3>1. /\ UNCHANGED <<cur, isStart, hpc, rclosed, tst, jpc, jsome>>
          /\ \A y \in Readers : Looping(y)' => Looping(y)
          /\ \A y \in Readers : tpc'[y] # "start" \/ tpc'[y] = tpc[y]
      BY <1>0, <2>3 DEF TransCheck, ReadError, ReadPacket, CloseWriter, CloseRemove,
         Looping, TGoto, TypeOK, mapVars, fieldVars, connVars, hVars, jVars
    <3> QED  BY <3>1 DEF OpenLoop
  <2> QED  BY <1>2, <2>1, <2>2, <2>3 DEF Trans, TransMove
<1>3. ASSUME NEW w \in Writers, HandleWriter(w) PROVE OpenLoop'
  <2>1. UNCHANGED <<isStart, hpc, rclosed, tpc, tst, jpc, jsome>>
    BY <1>3 DEF HandleWriter, FlvRefuse, FlvAdmit, WLoad, WAdd, WStore, fieldVars, connVars,
       hVars, tVars, jVars
  <2>2. cur' = cur \/ cur = NoStream
    BY <1>3 DEF HandleWriter, FlvRefuse, FlvAdmit, WLoad, WAdd, WStore, mapVars, OnCur
  <2> QED  BY <1>a, <2>1, <2>2 DEF OpenLoop, Looping
<1>4. CASE Janitor
  <2>1. UNCHANGED <<isStart, hpc, tpc, tst>>
    BY <1>4 DEF Janitor, JanitorLoad, JanitorReader, JanitorAlive, JanitorRemove,
       JanitorClose, JanitorEnd, fieldVars, hVars, tVars
  <2>2. CASE JanitorReader
    <3>1. jst = cur /\ cur' = cur /\ rclosed \subseteq rclosed'
      BY <2>2 DEF JanitorReader, OnCur, mapVars
    <3>2. ASSUME NEW y \in Readers, Open(y)' PROVE Open(y) /\ jsome'
      <4>1. Open(y)  BY <2>1, <3>1, <3>2 DEF Looping
      <4> QED  BY <1>a, <2>2, <3>1, <3>2, <4>1, HubAssumption DEF JanitorReader
    <3> QED  BY <2>1, <3>1, <3>2 DEF OpenLoop
  <2>3. CASE JanitorEnd
    BY <2>1, <2>3 DEF OpenLoop, Looping, JanitorEnd, connVars
  <2>4. CASE JanitorLoad
    BY <2>1, <2>4 DEF OpenLoop, Looping, JanitorLoad, mapVars, connVars
  <2>5. ASSUME NEW w \in Writers, JanitorAlive(w) \/ JanitorRemove(w) PROVE OpenLoop'
    BY <2>1, <2>5 DEF OpenLoop, Looping, JanitorAlive, JanitorRemove, mapVars, connVars
  <2>6. CASE JanitorClose
    BY <2>1, <2>6 DEF OpenLoop, Looping, JanitorClose, mapVars, connVars
  <2> QED  BY <1>4, <2>2, <2>3, <2>4, <2>5, <2>6 DEF Janitor
<1>5. CASE \/ \E x \in Readers : ReaderGone(x)
           \/ \E w \in Writers : WriterGone(w)
           \/ \E c \in Readers \cup Writers : Timeout(c)
           \/ UNCHANGED vars
  <2>1. UNCHANGED <<cur, isStart, hpc, tpc, tst, jpc, jsome>> /\ rclosed \subseteq rclosed'
    BY <1>5 DEF ReaderGone, WriterGone, Timeout, vars, mapVars, fieldVars, connVars, hVars, tVars, jVars
  <2> QED  BY <2>1 DEF OpenLoop, Looping
<1> QED  BY <1>1, <1>2, <1>3, <1>4, <1>5 DEF Next

LEMMA PlacedHandleReader ==
    ASSUME IInv, Alone, OnCur, Placed, ~raced', NEW x \in Readers, HandleReader(x),
           NEW w \in added \ wclosed
    PROVE  PlacedAt(w)'
<1>0. TypeOK /\ Targets /\ PlacedAt(w)  BY DEF IInv, Placed
<1>1. CASE HLoad(x)
  <2>1. /\ \A y \in Readers : hpc[y] \in {"idle", "done"}
        /\ jpc = "idle"
    BY <1>1, BeginsAlone DEF HLoad, OpR, OpJ
  <2>2. cur # NoStream /\ w \in ws[cur]
    BY <1>0, <2>1 DEF PlacedAt, Moving, Copying
  <2>3. UNCHANGED <<cur, ws, jpc>> /\ \A y \in Readers : hpc'[y] \notin Moving
    BY <1>0, <1>1, <2>1, <2>2 DEF HLoad, HGoto, TypeOK, Moving, Copying, fieldVars, jVars
  <2> QED  BY <2>1, <2>2, <2>3 DEF PlacedAt, Moving
<1>2. CASE ~HLoad(x)
  <2>0. OpR(x)
    BY <1>2 DEF HandleReader, HStop, HStopped, HId, HCopy, HCopyDelete, HCopyAdd, HStore,
       HAddReader, OpR
  <2>1. jpc = "idle" /\ \A y \in Readers \ {x} : hpc[y] \in {"idle", "done"}
    BY <2>0 DEF Alone, OpR, OpJ
  <2>2. jpc' = "idle" /\ \A y \in Readers \ {x} : hpc'[y] \in {"idle", "done"}
    BY <1>0, <2>1 DEF HandleReader, HLoad, HStop, HStopped, HId, HCopy, HCopyDelete, HCopyAdd,
       HStore, HAddReader, HGoto, TypeOK, jVars
  <2>3. CASE HStop(x) \/ HStopped(x) \/ HAddReader(x)
    <3>1. UNCHANGED <<cur, ws>> /\ hpc[x] \notin Moving /\ hpc'[x] \notin Moving
      BY <1>0, <2>3 DEF HStop, HStopped, HAddReader, HGoto, TypeOK, Moving, Copying, mapVars, fieldVars
    <3> QED  BY <1>0, <2>1, <2>2, <3>1 DEF PlacedAt, Moving, Copying
  <2>4. CASE HId(x)
    <3>1. cur # NoStream /\ w \in ws[cur] /\ hst[x] = cur
      BY <1>0, <2>1, <2>4 DEF HId, PlacedAt, OnCur, Moving, Copying
    <3>2. UNCHANGED <<cur, ws, hst>>
      BY <2>4 DEF HId, fieldVars
    <3>3. hpc'[x] = "reader" \/ (hpc'[x] = "copy" /\ htodo'[x] = ws[hst[x]])
      BY <1>0, <2>4 DEF HId, HGoto, TypeOK
    <3> QED  BY <2>2, <3>1, <3>2, <3>3 DEF PlacedAt, Moving, Copying
  <2>5. CASE HCopy(x)
    <3>1. UNCHANGED <<cur, ws, hdst>> /\ hpc[x] = "copy"
      BY <2>5 DEF HCopy, mapVars, fieldVars
    <3>2. w \in ws[hdst[x]] \/ (w \in htodo[x] /\ w \in ws[hst[x]])
      BY <1>0, <3>1 DEF PlacedAt, Copying
    <3>3. \/ /\ hpc'[x] = "delete" /\ hst' = hst
             /\ htodo'[x] = htodo[x] \ {hheld'[x]}
          \/ /\ htodo[x] \cap ws[hst[x]] = {}
             /\ hpc'[x] = "store" /\ hst'[x] = hdst[x]
      BY <1>0, <2>5 DEF HCopy, HGoto, TypeOK
    <3> QED  BY <2>2, <3>1, <3>2, <3>3 DEF PlacedAt, Moving, Copying
  <2>6. CASE HCopyDelete(x)
    <3>1. /\ w # hheld[x] => \A s \in Streams : w \in ws[s] => w \in ws'[s]
          /\ hpc[x] = "delete" /\ hpc'[x] = "addw"
          /\ UNCHANGED <<hst, hdst, htodo, hheld>>
          /\ hst[x] \in Streams /\ hdst[x] \in Streams
      BY <1>0, <2>6 DEF HCopyDelete, HGoto, TypeOK, Targets
    <3> QED  BY <1>0, <2>2, <3>1 DEF PlacedAt, Moving, Copying
  <2>7. CASE HCopyAdd(x)
    <3>1. /\ \A s \in Streams : w \in ws[s] => w \in ws'[s]
          /\ hpc[x] = "addw" /\ hpc'[x] = "copy" /\ hheld[x] \in ws'[hdst[x]]
          /\ UNCHANGED <<hst, hdst, htodo>>
          /\ hst[x] \in Streams /\ hdst[x] \in Streams
      BY <1>0, <2>7 DEF HCopyAdd, CopyTarget, HGoto, TypeOK, Targets
    <3> QED  BY <1>0, <2>2, <3>1 DEF PlacedAt, Moving, Copying
  <2>8. CASE HStore(x)
    <3>1. /\ hpc[x] = "store" /\ hpc'[x] = "reader" /\ cur' = hst[x] /\ ws' = ws
          /\ hst[x] \in Streams
      BY <1>0, <2>8 DEF HStore, HGoto, TypeOK, Targets, fieldVars
    <3>2. w \in ws[hst[x]] /\ hst[x] # NoStream
      BY <1>0, <3>1, StreamsNat DEF PlacedAt
    <3> QED  BY <2>2, <3>1, <3>2 DEF PlacedAt, Moving, Copying
  <2> QED  BY <1>2, <2>3, <2>4, <2>5, <2>6, <2>7, <2>8 DEF HandleReader
<1> QED  BY <1>1, <1>2

LEMMA PlacedJanitor ==
    ASSUME IInv, Alone, OnCur, Placed, ~raced', Janitor, NEW w \in added \ wclosed, w \notin wclosed'
    PROVE  PlacedAt(w)'
<1>0. TypeOK /\ Targets /\ PlacedAt(w)  BY DEF IInv, Placed
<1>1. UNCHANGED <<hpc, hst, hdst, htodo, hheld>>
  BY DEF Janitor, JanitorLoad, JanitorReader, JanitorAlive, JanitorRemove, JanitorClose,
     JanitorEnd, hVars
<1>2. \A y \in Readers : hpc[y] \in {"idle", "done"}
  <2>1. CASE JanitorLoad
    BY <2>1, BeginsAlone DEF JanitorLoad, OpR
  <2>2. CASE ~JanitorLoad
    BY <2>2 DEF Janitor, JanitorReader, JanitorAlive, JanitorRemove, JanitorClose, JanitorEnd,
       Alone, OpR, OpJ
  <2> QED  BY <2>1, <2>2
<1>3. (cur # NoStream /\ w \in ws[cur]) \/ (jpc = "close" /\ jheld = w)
  BY <1>0, <1>2 DEF PlacedAt, Moving, Copying
<1>4. SUFFICES /\ (cur' # NoStream /\ w \in ws'[cur']) \/ (jpc' = "close" /\ jheld' = w)
               /\ jpc' \in {"writers", "close"} /\ ~jsome' =>
                     w \in jtodo' \/ (jpc' = "close" /\ jheld' = w)
  BY <1>1, <1>2 DEF PlacedAt, Moving, Copying
<1>5. CASE JanitorLoad
  BY <1>3, <1>5 DEF JanitorLoad, mapVars, fieldVars
<1>6. CASE JanitorReader
  BY <1>3, <1>6 DEF JanitorReader, OnCur, mapVars, fieldVars
<1>7. ASSUME NEW v \in Writers, JanitorAlive(v)
      PROVE /\ (cur' # NoStream /\ w \in ws'[cur']) \/ (jpc' = "close" /\ jheld' = w)
            /\ jpc' \in {"writers", "close"} => jsome'
  BY <1>3, <1>7 DEF JanitorAlive, mapVars, fieldVars
<1>8. ASSUME NEW v \in Writers, JanitorRemove(v)
      PROVE /\ (cur' # NoStream /\ w \in ws'[cur']) \/ (jpc' = "close" /\ jheld' = w)
            /\ jpc' \in {"writers", "close"} /\ ~jsome' =>
                  w \in jtodo' \/ (jpc' = "close" /\ jheld' = w)
  <2>1. /\ cur' = cur /\ jsome' = jsome /\ jpc = "writers" /\ jpc' = "close" /\ jheld' = v
        /\ jtodo' = jtodo \ {v}
        /\ w # v /\ cur \in Streams /\ w \in ws[cur] => w \in ws'[cur]
    BY <1>0, <1>8 DEF JanitorRemove, mapVars, TypeOK
  <2>2. cur # NoStream => cur \in Streams
    BY <1>0 DEF TypeOK
  <2> QED  BY <1>0, <1>3, <2>1, <2>2 DEF PlacedAt
<1>9. CASE JanitorClose
  BY <1>0, <1>3, <1>9 DEF PlacedAt, JanitorClose, mapVars, fieldVars
<1>10. CASE JanitorEnd
  <2>1. w \in ws[cur] /\ jst = cur /\ cur # NoStream /\ jpc = "writers"
    BY <1>3, <1>10 DEF JanitorEnd, OnCur
  <2>2. jsome
    BY <1>0, <1>10, <2>1 DEF PlacedAt, JanitorEnd
  <2> QED  BY <1>10, <2>1, <2>2 DEF JanitorEnd, fieldVars
<1> QED  BY <1>5, <1>6, <1>7, <1>8, <1>9, <1>10 DEF Janitor

\* An open writer moves only with the operation that moves it.
LEMMA PlacedStep ==
    ASSUME IInv, Alone, OnCur, Placed, [Next]_vars, ~raced'
    PROVE  Placed'
<1> SUFFICES ASSUME NEW w \in added' \ wclosed'
             PROVE  PlacedAt(w)'
  BY DEF Placed
<1>0. TypeOK /\ Targets /\ Holds  BY DEF IInv
<1>1. w \in added \ wclosed => PlacedAt(w)
  BY DEF Placed
<1>2. ASSUME UNCHANGED <<cur, hpc, hst, hdst, htodo, hheld, jpc, jheld, jsome, jtodo>>,
             \A s \in Streams : w \in ws[s] => w \in ws'[s],
             w \in added \ wclosed
      PROVE  PlacedAt(w)'
  <2>1. cur \in Streams \cup {NoStream}
    BY <1>0 DEF TypeOK
  <2>2. \A y \in Readers : hpc[y] \in Moving => hst[y] \in Streams
    BY <1>0 DEF Targets, Moving, Copying
  <2>3. \A y \in Readers : hpc[y] \in Copying => hdst[y] \in Streams
    BY <1>0 DEF Targets, Copying
  <2> QED  BY <1>1, <1>2, <2>1, <2>2, <2>3 DEF PlacedAt, Moving, Copying
<1>3. ASSUME NEW x \in Readers, HandleReader(x) PROVE PlacedAt(w)'
  <2>1. w \in added \ wclosed
    BY <1>3 DEF HandleReader, HLoad, HStop, HStopped, HId, HCopy, HCopyDelete, HCopyAdd,
       HStore, HAddReader, connVars
  <2> QED  BY <1>3, <2>1, PlacedHandleReader
<1>4. ASSUME NEW v \in Writers, HandleWriter(v) PROVE PlacedAt(w)'
  <2>1. UNCHANGED <<hpc, hst, hdst, htodo, hheld, jpc, jheld, jsome, jtodo>>
    BY <1>4 DEF HandleWriter, FlvRefuse, FlvAdmit, WLoad, WAdd, WStore, hVars, jVars
  <2>2. CASE WAdd(v)
    <3>1. OpW(v) /\ wst[v] = cur /\ cur' = cur /\ cur \in Streams
      BY <1>0, <2>2 DEF WAdd, OpW, OnCur, Targets, mapVars
    <3>2. jpc = "idle" /\ \A y \in Readers : hpc[y] \in {"idle", "done"}
      BY <3>1 DEF Alone, OpR, OpJ
    <3>3. w \in ws'[cur] /\ cur # NoStream
      <4>1. CASE w = v
        BY <1>0, <2>2, <3>1, <4>1, StreamsNat DEF WAdd, TypeOK
      <4>2. CASE w # v
        <5>1. w \in added \ wclosed
          BY <2>2, <4>2 DEF WAdd, connVars
        <5>2. w \in ws[cur]
          BY <1>1, <3>2, <5>1 DEF PlacedAt, Moving, Copying
        <5> QED  BY <1>0, <2>2, <3>1, <5>2, StreamsNat DEF WAdd, TypeOK
      <4> QED  BY <4>1, <4>2
    <3> QED  BY <2>1, <3>1, <3>2, <3>3 DEF PlacedAt, Moving, Copying
  <2>3. CASE WStore(v)
    <3>1. OpW(v) /\ cur = NoStream /\ w \in added \ wclosed
      BY <2>3 DEF WStore, OpW, OnCur, connVars
    <3>2. jpc = "idle" /\ \A y \in Readers : hpc[y] \in {"idle", "done"}
      BY <3>1 DEF Alone, OpR, OpJ
    <3>3. FALSE
      BY <1>1, <3>1, <3>2 DEF PlacedAt, Moving, Copying
    <3> QED  BY <3>3
  <2>4. CASE FlvRefuse(v) \/ FlvAdmit(v) \/ WLoad(v)
    <3>1. cur' = cur /\ ws' = ws /\ w \in added \ wclosed
      BY <2>4 DEF FlvRefuse, FlvAdmit, WLoad, mapVars, fieldVars, connVars
    <3> QED  BY <1>2, <2>1, <3>1
  <2> QED  BY <1>4, <2>2, <2>3, <2>4 DEF HandleWriter
<1>5. ASSUME NEW x \in Readers, Trans(x) PROVE PlacedAt(w)'
  <2>1. /\ w \in added \ wclosed
        /\ UNCHANGED <<cur, hpc, hst, hdst, htodo, hheld, jpc, jheld, jsome, jtodo>>
    BY <1>5 DEF Trans, TransMove, TransStart, TransCheck, ReadError, ReadPacket,
       CloseWriter, CloseRemove, TransEnd, mapVars, connVars, hVars, jVars
  <2>2. \A s \in Streams : w \in ws[s] => w \in ws'[s]
    <3>1. CASE ReadPacket(x)
      BY <1>0, <2>1, <3>1 DEF ReadPacket, TypeOK
    <3>2. CASE CloseRemove(x)
      <4>1. w # theld[x]
        BY <1>0, <2>1, <3>2 DEF CloseRemove, Holds
      <4> QED  BY <1>0, <3>2, <4>1 DEF CloseRemove, TypeOK
    <3>3. CASE ws' = ws
      BY <3>3
    <3> QED  BY <1>5, <3>1, <3>2, <3>3 DEF Trans, TransMove, TransStart,
                TransCheck, ReadError, CloseWriter, TransEnd, fieldVars
  <2> QED  BY <1>2, <2>1, <2>2
<1>6. CASE Janitor
  <2>1. w \in added \ wclosed
    BY <1>6 DEF Janitor, JanitorLoad, JanitorReader, JanitorAlive, JanitorRemove,
       JanitorClose, JanitorEnd, connVars
  <2> QED  BY <1>6, <2>1, PlacedJanitor
<1>7. CASE \/ \E x \in Readers : ReaderGone(x)
           \/ \E v \in Writers : WriterGone(v)
           \/ \E c \in Readers \cup Writers : Timeout(c)
           \/ UNCHANGED vars
  BY <1>2, <1>7 DEF ReaderGone, WriterGone, Timeout, vars, mapVars, fieldVars, connVars, hVars, jVars
<1> QED  BY <1>3, <1>4, <1>5, <1>6, <1>7 DEF Next

---------------------------------------------------------------------------
LEMMA InitSInv == Init => SInv
<1> SUFFICES ASSUME Init PROVE SInv
  OBVIOUS
<1>1. LoopAfter /\ Made
  BY DEF Init, LoopAfter, Made, NoStream
<1>2. Alone /\ OnCur /\ OneReader
  BY DEF Init, Alone, OpR, OpW, OpJ, OnCur, OneReader, Copying
<1>3. OpenLoop /\ Placed
  BY DEF Init, OpenLoop, Looping, Placed
<1> QED  BY <1>1, <1>2, <1>3 DEF SInv

LEMMA NextSInv == IInv /\ SInv /\ [Next]_vars => SInv'
<1> SUFFICES ASSUME IInv, SInv, [Next]_vars PROVE SInv'
  OBVIOUS
<1>1. LoopAfter' /\ Made'
  BY LoopAfterStep, MadeStep DEF SInv
<1>2. ASSUME ~raced' PROVE Alone' /\ OnCur' /\ OneReader' /\ OpenLoop' /\ Placed'
  <2>1. LoopAfter /\ Made /\ Alone /\ OnCur /\ OneReader /\ OpenLoop /\ Placed
    BY <1>2, StillNotRaced DEF SInv
  <2> QED  BY <1>2, <2>1, AloneStep, OnCurStep, OneReaderStep, OpenLoopStep, PlacedStep
<1> QED  BY <1>1, <1>2 DEF SInv

LEMMA InductiveS == Spec => []SInv
<1> QED  BY InitSInv, NextSInv, Inductive, PTL DEF Spec

\* However many publishers come and go, as long as the calls of HandleReader and
\* HandleWriter and the rounds of the janitor do not overlap, no two publishers
\* of the key have open connections in a loop: a takeover closes the old one.
THEOREM HubOnePublisher == Spec => []OnePublisher
<1>1. SInv => OnePublisher
  BY DEF SInv, OnePublisher, OpenLoop, OneReader, Looping
<1> QED  BY <1>1, InductiveS, PTL

\* ... and an open writer is in the stream of the key whenever no operation is
\* under way: Copy takes it along to the new stream, and the janitor deletes
\* the key only of a stream without open writers.
THEOREM HubStrandsNoWriter == Spec => []NoWriterStranded
<1>1. IInv /\ SInv => NoWriterStranded
  <2> SUFFICES ASSUME IInv, SInv, ~raced, ~Busy, NEW w \in added \ wclosed
               PROVE  cur # NoStream /\ w \in ws[cur]
    BY DEF NoWriterStranded
  <2>1. PlacedAt(w)
    BY DEF SInv, Placed
  <2>2. jpc = "idle" /\ \A y \in Readers : hpc[y] \in {"idle", "done"}
    BY DEF Busy
  <2> QED  BY <2>1, <2>2 DEF PlacedAt, Moving, Copying
<1> QED  BY <1>1, Inductive, InductiveS, PTL
=============================================================================
