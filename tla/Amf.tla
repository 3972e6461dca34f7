-------------------------------- MODULE Amf --------------------------------
(***************************************************************************)
(* The AMF codec, src/protocol/amf: what the encoder writes the decoder    *)
(* reads back.  Both go over a buffer once; values and buffers are data,   *)
(* and a step encodes or decodes a batch of values (EncodeBatch,           *)
(* DecodeBatch).  A buffer is a sequence of <<what, value>>: bytes "b",    *)
(* numbers of 2, 4 and 8 bytes, and the characters of strings.             *)
(* The encoder writes no references, so the decoder's tables are left out. *)
(***************************************************************************)
EXTENDS Integers, Sequences, SequencesExt

CONSTANTS
    AmfBatches,  \* batches of values to encode
    StringMax    \* AMF0_STRING_MAX, 65535 in the code

\* A value: its type, a number, the characters of a string, and for arrays and
\* objects <<key, value>> pairs (the key is empty in an array).
V(t, n, s, kids) == [t |-> t, n |-> n, s |-> s, kids |-> kids]
SetDataFrame == <<64>>

VARIABLES ver, batch, buf, back  \* back: what DecodeBatch returned

amfVars == <<ver, batch, buf, back>>
NotYet  == [err |-> "notyet", vals |-> <<>>]

AmfInit == ver \in {0, 3} /\ batch \in AmfBatches /\ buf = <<>> /\ back = NotYet

Byte(n)  == <<<<"b", n>>>>
Chars(s) == [i \in DOMAIN s |-> <<"c", s[i]>>]
Concat(parts) == FoldLeft(LAMBDA a, p : a \o p, <<>>, parts)

---------------------------------------------------------------------------
(* AMF0                                                                    *)

\* EncodeAmf0String: the length is cut to 16 bits.
Utf8(s) == <<<<"u16", Len(s) % (StringMax + 1)>>>> \o Chars(s)

LongString(s) == Byte(12) \o <<<<"u32", Len(s)>>>> \o Chars(s)

\* Arrays and objects of encoded values.
StrictArray(items) == Byte(10) \o <<<<"u32", Len(items)>>>> \o Concat(items)
Amf0Object(keys, items) ==
    Byte(3) \o Concat([i \in DOMAIN keys |-> Utf8(keys[i]) \o items[i]]) \o Utf8(<<>>) \o Byte(9)

RECURSIVE EncodeAmf0(_)
EncodeAmf0(v) ==
    LET items == [i \in DOMAIN v.kids |-> EncodeAmf0(v.kids[i][2])] IN
    CASE v.t = "null" -> Byte(5)
      [] v.t = "bool" -> Byte(1) \o Byte(v.n)
      [] v.t \in {"int", "float"} -> Byte(0) \o <<<<"f64", v.n>>>>
      [] v.t = "str" -> IF Len(v.s) <= StringMax THEN Byte(2) \o Utf8(v.s) ELSE LongString(v.s)
      [] v.t = "arr" -> StrictArray(items)
      [] v.t = "obj" -> Amf0Object([i \in DOMAIN v.kids |-> v.kids[i][1]], items)

\* A result of the decoder: a value and what is left to read.
Got(v, rest) == [ok |-> TRUE, v |-> v, rest |-> rest]
Bad          == [ok |-> FALSE, v |-> V("null", 0, <<>>, <<>>), rest |-> <<>>]
At(b, what)  == b # <<>> /\ b[1][1] = what

\* ReadBytes of n bytes of a string.  A bytes.Reader at its end returns EOF
\* even if nothing is asked of it.
ReadBytes(b, n) ==
    IF b = <<>> \/ Len(b) < n THEN Bad
    ELSE Got(V("str", 0, [i \in 1 .. n |-> b[i][2]], <<>>), SubSeq(b, n + 1, Len(b)))

ReadString(b, what) == IF At(b, what) THEN ReadBytes(Tail(b), b[1][2]) ELSE Bad

RECURSIVE DecodeAmf0(_), Amf0Pairs(_, _), Amf0Items(_, _, _)
DecodeAmf0(b) ==
    LET rest == Tail(b) IN
    IF ~At(b, "b") THEN Bad
    ELSE CASE b[1][2] = 0  -> IF At(rest, "f64") THEN Got(V("float", rest[1][2], <<>>, <<>>), Tail(rest)) ELSE Bad
           [] b[1][2] = 1  -> IF At(rest, "b") /\ rest[1][2] \in {0, 1}
                              THEN Got(V("bool", rest[1][2], <<>>, <<>>), Tail(rest)) ELSE Bad
           [] b[1][2] = 2  -> ReadString(rest, "u16")
           [] b[1][2] = 3  -> Amf0Pairs(rest, <<>>)
           [] b[1][2] = 5  -> Got(V("null", 0, <<>>, <<>>), rest)
           [] b[1][2] = 10 -> IF At(rest, "u32") THEN Amf0Items(Tail(rest), rest[1][2], <<>>) ELSE Bad
           [] b[1][2] = 12 -> ReadString(rest, "u32")
           [] OTHER        -> Bad

\* DecodeAmf0Object reads pairs up to an empty key and the end marker.
Amf0Pairs(b, kids) ==
    LET key == ReadString(b, "u16")
        val == DecodeAmf0(key.rest)
    IN IF ~key.ok THEN Bad
       ELSE IF key.v.s = <<>>
       THEN IF key.rest[1] = <<"b", 9>> THEN Got(V("obj", 0, <<>>, kids), Tail(key.rest)) ELSE Bad
       ELSE IF val.ok THEN Amf0Pairs(val.rest, Append(kids, <<key.v.s, val.v>>)) ELSE Bad

Amf0Items(b, n, kids) ==
    LET val == DecodeAmf0(b) IN
    IF n = 0 THEN Got(V("arr", 0, <<>>, kids), b)
    ELSE IF val.ok THEN Amf0Items(val.rest, n - 1, Append(kids, <<<<>>, val.v>>)) ELSE Bad

---------------------------------------------------------------------------
(* AMF3                                                                    *)

More(n) == Byte(128 + (n % 128))

\* Mutant: three bytes are said to hold 22 bits.
EncodeU29Long(n) ==
    IF n < 2^7 THEN Byte(n)
    ELSE IF n < 2^14 THEN More(n \div 2^7) \o Byte(n % 128)
    ELSE IF n < 2^22 THEN More(n \div 2^14) \o More(n \div 2^7) \o Byte(n % 128)
    ELSE More(n \div 2^22) \o More(n \div 2^15) \o More(n \div 2^8) \o Byte(n % 256)

\* encodeAmf3Uint29: 7 bits a byte, and 8 in the fourth.
EncodeU29(n) ==
    IF n < 2^7 THEN Byte(n)
    ELSE IF n < 2^14 THEN More(n \div 2^7) \o Byte(n % 128)
    ELSE IF n < 2^21 THEN More(n \div 2^14) \o More(n \div 2^7) \o Byte(n % 128)
    ELSE More(n \div 2^22) \o More(n \div 2^15) \o More(n \div 2^8) \o Byte(n % 256)

Amf3Utf8(s) == EncodeU29(2 * Len(s) + 1) \o Chars(s)

Amf3Array(items) == Byte(9) \o EncodeU29(2 * Len(items) + 1) \o Amf3Utf8(<<>>) \o Concat(items)

\* An object without a class: the number of keys, the keys, the values.
Amf3Object(keys, items) ==
    Byte(10) \o EncodeU29(16 * Len(keys) + 3) \o Amf3Utf8(<<>>)
    \o Concat([i \in DOMAIN keys |-> Amf3Utf8(keys[i])]) \o Concat(items)

\* EncodeAmf3Object sorts the keys.
Sorted(v) == IF v.t = "obj" THEN SortSeq(v.kids, LAMBDA x, y : x[1][1] < y[1][1]) ELSE v.kids

\* Integers beyond AMF3_INTEGER_MAX (2^29 - 1) are written as doubles.
RECURSIVE EncodeAmf3(_)
EncodeAmf3(v) ==
    LET items == [i \in DOMAIN v.kids |-> EncodeAmf3(Sorted(v)[i][2])] IN
    CASE v.t = "null"  -> Byte(1)
      [] v.t = "bool"  -> Byte(2 + v.n)
      [] v.t = "int" /\ v.n \in 0 .. 2^29 - 1 -> Byte(4) \o EncodeU29(v.n)
      [] v.t = "float" \/ (v.t = "int" /\ v.n \notin 0 .. 2^29 - 1) -> Byte(5) \o <<<<"f64", v.n>>>>
      [] v.t = "str"   -> Byte(6) \o Amf3Utf8(v.s)
      [] v.t = "arr"   -> Amf3Array(items)
      [] v.t = "obj"   -> Amf3Object([i \in DOMAIN v.kids |-> Sorted(v)[i][1]], items)

\* decodeU29: v.n is the number.
RECURSIVE U29(_, _, _)
U29(b, i, n) ==
    IF ~At(b, "b") THEN Bad
    ELSE IF i = 4 THEN Got(V("int", n * 256 + b[1][2], <<>>, <<>>), Tail(b))
    ELSE IF b[1][2] < 128 THEN Got(V("int", n * 128 + b[1][2], <<>>, <<>>), Tail(b))
    ELSE U29(Tail(b), i + 1, n * 128 + b[1][2] - 128)
DecodeU29(b) == U29(b, 1, 0)

Amf3String(b) == LET l == DecodeU29(b) IN IF l.ok THEN ReadBytes(l.rest, l.v.n \div 2) ELSE Bad

\* A number above 2^28 - 1 stands for a negative one.
Signed(n) == IF n > 2^28 - 1 THEN n - 2^29 ELSE n

RECURSIVE DecodeAmf3(_), DecodeAmf3Array(_), DecodeAmf3Object(_), Amf3Keys(_, _, _), Amf3Values(_, _, _, _)
DecodeAmf3(b) ==
    LET rest == Tail(b)
        u    == DecodeU29(rest)
    IN
    IF ~At(b, "b") THEN Bad
    ELSE CASE b[1][2] = 1 -> Got(V("null", 0, <<>>, <<>>), rest)
           [] b[1][2] \in {2, 3} -> Got(V("bool", b[1][2] - 2, <<>>, <<>>), rest)
           [] b[1][2] = 4 -> IF u.ok THEN Got(V("int", Signed(u.v.n), <<>>, <<>>), u.rest) ELSE Bad
           [] b[1][2] = 5 -> IF At(rest, "f64") THEN Got(V("float", rest[1][2], <<>>, <<>>), Tail(rest)) ELSE Bad
           [] b[1][2] = 6 -> Amf3String(rest)
           [] b[1][2] = 9 -> DecodeAmf3Array(rest)
           [] b[1][2] = 10 -> DecodeAmf3Object(rest)
           [] OTHER -> Bad

\* The key of an array's first pair must be empty.
DecodeAmf3Array(b) ==
    LET u   == DecodeU29(b)
        key == Amf3String(u.rest)
    IN IF u.ok /\ key.ok /\ key.v.s = <<>>
       THEN Amf3Values(key.rest, "arr", [i \in 1 .. u.v.n \div 2 |-> <<>>], <<>>) ELSE Bad

DecodeAmf3Object(b) ==
    LET u    == DecodeU29(b)
        name == Amf3String(u.rest)
        keys == Amf3Keys(name.rest, u.v.n \div 16, <<>>)
    IN IF u.ok /\ name.ok /\ keys.ok THEN Amf3Values(keys.rest, "obj", keys.v.kids, <<>>) ELSE Bad

Amf3Keys(b, n, keys) ==
    LET key == Amf3String(b) IN
    IF n = 0 THEN Got(V("keys", 0, <<>>, keys), b)
    ELSE IF key.ok THEN Amf3Keys(key.rest, n - 1, Append(keys, key.v.s)) ELSE Bad

Amf3Values(b, t, keys, kids) ==
    LET val == DecodeAmf3(b) IN
    IF keys = <<>> THEN Got(V(t, 0, <<>>, kids), b)
    ELSE IF val.ok THEN Amf3Values(val.rest, t, Tail(keys), Append(kids, <<keys[1], val.v>>)) ELSE Bad

---------------------------------------------------------------------------
(* Batches, and the metadata of a stream                                   *)

Encode(v) == IF ver = 0 THEN EncodeAmf0(v) ELSE EncodeAmf3(v)
Decode(b) == IF ver = 0 THEN DecodeAmf0(b) ELSE DecodeAmf3(b)

\* DecodeBatch ends with an error, which is EOF at the end of the buffer.
RECURSIVE DecodeBatch(_, _)
DecodeBatch(b, vals) ==
    IF b = <<>> THEN [err |-> "EOF", vals |-> vals]
    ELSE IF Decode(b).ok THEN DecodeBatch(Decode(b).rest, Append(vals, Decode(b).v))
    ELSE [err |-> "other", vals |-> vals]

\* MetaDataReform with ADD and with DEL; an error leaves nothing.
MetaDataAdd(p) ==
    LET d == DecodeAmf0(p) IN
    IF ~d.ok \/ d.v.t # "str" THEN <<>>
    ELSE IF d.v.s = SetDataFrame THEN p ELSE EncodeAmf0(V("str", 0, SetDataFrame, <<>>)) \o p

MetaDataDel(p) ==
    LET d == DecodeAmf0(p) IN
    IF ~d.ok \/ d.v.t # "str" THEN <<>>
    ELSE IF d.v.s = SetDataFrame
    THEN SubSeq(p, Len(EncodeAmf0(V("str", 0, SetDataFrame, <<>>))) + 1, Len(p)) ELSE p

EncodeBatch ==
    /\ buf = <<>>
    /\ buf' = Concat([i \in DOMAIN batch |-> Encode(batch[i])])
    /\ UNCHANGED <<ver, batch, back>>

DecodeBuffer ==
    /\ buf # <<>> /\ back = NotYet
    /\ back' = DecodeBatch(buf, <<>>)
    /\ UNCHANGED <<ver, batch, buf>>

AmfNext == EncodeBatch \/ DecodeBuffer

---------------------------------------------------------------------------
(* Properties                                                              *)

\* What a value is after it has been sent: numbers are doubles, but for the
\* integers of AMF3; keys are sorted by AMF3.
RECURSIVE Sent(_)
Sent(v) ==
    LET kids == IF ver = 3 THEN Sorted(v) ELSE v.kids IN
    [v EXCEPT !.t = IF @ = "int" /\ (ver = 0 \/ v.n \notin 0 .. 2^29 - 1) THEN "float" ELSE @,
              !.kids = [i \in DOMAIN kids |-> <<kids[i][1], Sent(kids[i][2])>>]]

\* The decoder fails on an empty string with nothing after it.
RECURSIVE EndsEmpty(_)
EndsEmpty(v) ==
    \/ v.t = "str" /\ v.s = <<>>
    \/ v.t \in (IF ver = 3 THEN {"arr", "obj"} ELSE {}) /\ v.kids = <<>>
    \/ v.t = "arr" /\ v.kids # <<>> /\ EndsEmpty(v.kids[Len(v.kids)][2])
    \/ v.t = "obj" /\ ver = 3 /\ v.kids # <<>> /\ EndsEmpty(Sent(v).kids[Len(v.kids)][2])

\* Keys of AMF0 objects are not to be empty or longer than StringMax, and AMF3
\* reads integers from 2^28 as negative.
RECURSIVE Awkward(_)
Awkward(v) ==
    \/ ver = 0 /\ v.t = "obj" /\ \E i \in DOMAIN v.kids : Len(v.kids[i][1]) \notin 1 .. StringMax
    \/ ver = 3 /\ v.t = "int" /\ v.n \in 2^28 .. 2^29 - 1
    \/ \E i \in DOMAIN v.kids : Awkward(v.kids[i][2])

\* A batch is read back as it was written, to the last byte, exactly when none
\* of its values is awkward and its last one does not end with an empty string
\* (util.go:49: Read of a bytes.Reader at its end is EOF even for no bytes).
RoundTrip ==
    back # NotYet =>
        (back = [err |-> "EOF", vals |-> [i \in DOMAIN batch |-> Sent(batch[i])]]) =
        ((\A i \in DOMAIN batch : ~Awkward(batch[i])) /\ ~EndsEmpty(batch[Len(batch)]))

\* Metadata goes through publishers, relays and players, which add and remove
\* "@setDataFrame" each: no number of them loses or doubles anything.
MetaDataStable ==
    ver = 0 /\ buf # <<>> /\ batch[1].t = "str" /\ batch[1].s # <<>> =>
        /\ MetaDataAdd(MetaDataAdd(buf)) = MetaDataAdd(buf)
        /\ batch[1].s # SetDataFrame => MetaDataDel(MetaDataAdd(buf)) = buf /\ MetaDataDel(buf) = buf
        /\ batch[1].s = SetDataFrame /\ Len(batch) > 1 /\ batch[2].t = "str" /\ batch[2].s \notin {<<>>, SetDataFrame} =>
             MetaDataAdd(MetaDataDel(buf)) = buf

\* What is encoded is decoded again, metadata that was marked and unmarked
\* (MetaDataReform) included.
AmfStable == RoundTrip /\ MetaDataStable
=============================================================================
