------------------------------ MODULE WireProtocol ------------------------------
(***************************************************************************)
(* The binary protocol of internal/net/protocol.go: what each encoder puts *)
(* on the wire and what each decoder makes of a payload.  A byte is a      *)
(* digit below Base, so that the two-, four- and eight-byte integers of    *)
(* the protocol wrap at Base2, Base4 and Base8; an opcode or a status      *)
(* takes one place and keeps its value.  Strings and values are byte       *)
(* sequences.  A decoded request is its opcode and its fields in order.    *)
(***************************************************************************)
EXTENDS Integers, Sequences, SequencesExt

CONSTANTS
    Base,           \* 256 in the code
    MaxBatchSize    \* most messages of one SPUBLISHBATCH

ASSUME WireAssumption == Base \in Nat \ {0, 1} /\ MaxBatchSize \in Nat

Op == [Set |-> 1, Get |-> 2, Del |-> 3, Exists |-> 4, Incr |-> 5, Decr |-> 6,
       MSet |-> 16, MGet |-> 17, MDel |-> 18,
       QPush |-> 32, QPop |-> 33, QPeek |-> 34, QLen |-> 35, QClear |-> 36,
       SPublish |-> 48, SConsume |-> 49, SCommit |-> 50, SCreateTopic |-> 51,
       SSubscribe |-> 52, SUnsubscribe |-> 53, SPublishBatch |-> 55,
       DocInsert |-> 64, DocFind |-> 65, DocUpdate |-> 66, DocDelete |-> 67, DocIndex |-> 68]

Status == [OK |-> 0, Error |-> 1, NotFound |-> 2, MultiValue |-> 4]

Base2 == Base * Base
Base4 == Base2 * Base2
Base8 == Base4 * Base4

MaxKeyLen == Base2 - 1

Drop(s, n) == SubSeq(s, n + 1, Len(s))
Take(s, n) == SubSeq(s, 1, n)

(***************************************************************************)
(* encoding/binary: big-endian integers of two, four and eight bytes.      *)
(***************************************************************************)
\* byte() and the conversions to unsigned types keep the low bits of any integer, of a
\* negative one too.
PutUint16(n) == <<(n \div Base) % Base, n % Base>>
PutUint32(n) == PutUint16(n \div Base2) \o PutUint16(n)
PutUint64(n) == PutUint32(n \div Base4) \o PutUint32(n)

Uint16(b) == b[1] * Base + b[2]
Uint32(b) == Uint16(Take(b, 2)) * Base2 + Uint16(Drop(b, 2))
Uint64(b) == Uint32(Take(b, 4)) * Base4 + Uint32(Drop(b, 4))

\* int64 of an eight-byte integer: the upper half is negative.
Signed(n) == IF 2 * n < Base8 THEN n ELSE n - Base8

\* A string or a value behind its length.
Str(s) == PutUint16(Len(s)) \o s
Blob(v) == PutUint32(Len(v)) \o v

\* Opcode or status, payload length, payload.
Frame(code, payload) == <<code>> \o PutUint32(Len(payload)) \o payload

(***************************************************************************)
(* Requests, as the clients encode them.                                   *)
(***************************************************************************)
EncodeSetRequest(key, value) == Frame(Op.Set, Str(key) \o Blob(value))
EncodeGetRequest(key) == Frame(Op.Get, Str(key))

\* Fault: the opcode is one too high, which for the last of a group names no request.
EncodeSimpleNextOp(op, key) == Frame(op + 1, Str(key))

encodeSimpleRequest(op, key) == Frame(op, Str(key))

\* keys and values alternate in kvs
EncodeMSetRequest(kvs) ==
    Frame(Op.MSet, PutUint16(Len(kvs) \div 2) \o
        FlattenSeq([i \in 1..Len(kvs) |-> IF i % 2 = 1 THEN Str(kvs[i]) ELSE Blob(kvs[i])]))

EncodeMGetRequest(keys) ==
    Frame(Op.MGet, PutUint16(Len(keys)) \o FlattenSeq([i \in 1..Len(keys) |-> Str(keys[i])]))

EncodeMDeleteRequest(keys) ==
    Frame(Op.MDel, PutUint16(Len(keys)) \o FlattenSeq([i \in 1..Len(keys) |-> Str(keys[i])]))

EncodeQPushRequest(queueName, value) == Frame(Op.QPush, Str(queueName) \o Blob(value))

EncodeSPublishRequest(topic, partition, key, value) ==
    Frame(Op.SPublish, Str(topic) \o PutUint32(partition) \o Str(key) \o Blob(value))

EncodeSConsumeRequest(topic, group, consumer, count) ==
    Frame(Op.SConsume, Str(topic) \o Str(group) \o Str(consumer) \o PutUint32(count))

EncodeSCommitRequest(topic, group, partition, offset) ==
    Frame(Op.SCommit, Str(topic) \o Str(group) \o PutUint32(partition) \o PutUint64(offset))

EncodeSCreateTopicRequest(name, partitions, retentionMs) ==
    Frame(Op.SCreateTopic, Str(name) \o PutUint32(partitions) \o PutUint64(retentionMs))

EncodeSSubscribeRequest(topic, group, consumer) ==
    Frame(Op.SSubscribe, Str(topic) \o Str(group) \o Str(consumer))

EncodeSUnsubscribeRequest(topic, group, consumer) ==
    Frame(Op.SUnsubscribe, Str(topic) \o Str(group) \o Str(consumer))

EncodeDocInsertRequest(collection, doc) == Frame(Op.DocInsert, Str(collection) \o Blob(doc))
EncodeDocFindRequest(collection, query) == Frame(Op.DocFind, Str(collection) \o Blob(query))
EncodeDocUpdateRequest(collection, opts) == Frame(Op.DocUpdate, Str(collection) \o Blob(opts))
EncodeDocDeleteRequest(collection, opts) == Frame(Op.DocDelete, Str(collection) \o Blob(opts))
EncodeDocIndexRequest(collection, field) == Frame(Op.DocIndex, Str(collection) \o Str(field))

\* The only encoder that writes no payload length.  A message is three arguments.
EncodeSPublishBatchRequest(topic, messages) ==
    <<Op.SPublishBatch>> \o Str(topic) \o PutUint32(Len(messages) \div 3) \o
        FlattenSeq([i \in 1..Len(messages) |->
            CASE i % 3 = 1 -> PutUint32(messages[i])
              [] i % 3 = 2 -> Str(messages[i])
              [] OTHER -> Blob(messages[i])])

(***************************************************************************)
(* Decoding a payload field by field.  A field that does not fit in what   *)
(* is left of the payload makes the whole request invalid.                 *)
(***************************************************************************)
Width == [str |-> 2, blob |-> 4, u32 |-> 4, u64 |-> 8, i64 |-> 8]
IntKinds == {"u32", "u64", "i64"}

\* The integer that a field of this kind starts with.
Uint(kind, b) ==
    CASE kind = "str" -> Uint16(b)
      [] kind \in {"blob", "u32"} -> Uint32(b)
      [] kind = "u64" -> Uint64(b)
      [] kind = "i64" -> Signed(Uint64(b))

ReadField(parsed, kind) ==
    LET w == Width[kind]
        n == Uint(kind, Take(parsed.rest, w))
        body == Drop(parsed.rest, w)
    IN  IF ~parsed.ok \/ Len(parsed.rest) < w THEN [parsed EXCEPT !.ok = FALSE]
        ELSE IF kind \in IntKinds
             THEN [ok |-> TRUE, rest |-> body, args |-> Append(parsed.args, n)]
        ELSE IF Len(body) < n THEN [parsed EXCEPT !.ok = FALSE]
        ELSE [ok |-> TRUE, rest |-> Drop(body, n), args |-> Append(parsed.args, Take(body, n))]

Parse(payload, kinds) ==
    LET parsed[i \in 0..Len(kinds)] ==
            IF i = 0 THEN [ok |-> TRUE, rest |-> payload, args |-> <<>>]
            ELSE ReadField(parsed[i - 1], kinds[i])
    IN  parsed[Len(kinds)]

\* kinds, count times over
Repeat(kinds, count) == [i \in 1..count * Len(kinds) |-> kinds[1 + ((i - 1) % Len(kinds))]]

Invalid == [outcome |-> "error", op |-> 0, args |-> <<>>]
Crash == [outcome |-> "panic", op |-> 0, args |-> <<>>]
Request(op, args) == [outcome |-> "ok", op |-> op, args |-> args]
Accept(op, parsed) == IF parsed.ok THEN Request(op, parsed.args) ELSE Invalid

decodeSetRequest(payload) == Accept(Op.Set, Parse(payload, <<"str", "blob">>))

\* Fault: the end of the key is computed in eight bits.
DecodeSimpleNarrow(op, payload) ==
    LET reach == (2 + Uint16(Take(payload, 2))) % Base
    IN  IF Len(payload) < 2 \/ Len(payload) < reach THEN Invalid
        ELSE IF reach < 2 THEN Crash
        ELSE Request(op, <<SubSeq(payload, 3, reach)>>)

\* Fault: the key starts one byte late.
DecodeSimpleShifted(op, payload) ==
    LET reach == (2 + Uint16(Take(payload, 2))) % Base2
    IN  IF Len(payload) < 2 \/ Len(payload) < reach THEN Invalid
        ELSE IF reach < 2 THEN Crash
        ELSE Request(op, <<SubSeq(payload, 4, reach)>>)

\* The end of the key is computed in sixteen bits: for the two longest keys it wraps
\* and the slice expression panics.
decodeSimpleRequest(op, payload) ==
    LET reach == (2 + Uint16(Take(payload, 2))) % Base2
    IN  IF Len(payload) < 2 \/ Len(payload) < reach THEN Invalid
        ELSE IF reach < 2 THEN Crash
        ELSE Request(op, <<SubSeq(payload, 3, reach)>>)

decodeMSetRequest(payload) ==
    IF Len(payload) < 2 THEN Invalid
    ELSE Accept(Op.MSet, Parse(Drop(payload, 2), Repeat(<<"str", "blob">>, Uint16(Take(payload, 2)))))

decodeMGetRequest(op, payload) ==
    IF Len(payload) < 2 THEN Invalid
    ELSE Accept(op, Parse(Drop(payload, 2), Repeat(<<"str">>, Uint16(Take(payload, 2)))))

decodeQPushRequest(payload) == Accept(Op.QPush, Parse(payload, <<"str", "blob">>))
decodeSPublishRequest(payload) == Accept(Op.SPublish, Parse(payload, <<"str", "u32", "str", "blob">>))
decodeSConsumeRequest(payload) == Accept(Op.SConsume, Parse(payload, <<"str", "str", "str", "u32">>))
decodeSCommitRequest(payload) == Accept(Op.SCommit, Parse(payload, <<"str", "str", "u32", "i64">>))
decodeSCreateTopicRequest(payload) == Accept(Op.SCreateTopic, Parse(payload, <<"str", "u32", "i64">>))
decodeSSubscribeRequest(payload) == Accept(Op.SSubscribe, Parse(payload, <<"str", "str", "str">>))
decodeSUnsubscribeRequest(payload) == Accept(Op.SUnsubscribe, Parse(payload, <<"str", "str", "str">>))
decodeDocInsertRequest(payload) == Accept(Op.DocInsert, Parse(payload, <<"str", "blob">>))
decodeDocFindRequest(payload) == Accept(Op.DocFind, Parse(payload, <<"str", "blob">>))
decodeDocUpdateRequest(payload) == Accept(Op.DocUpdate, Parse(payload, <<"str", "blob">>))
decodeDocDeleteRequest(payload) == Accept(Op.DocDelete, Parse(payload, <<"str", "blob">>))
decodeDocIndexRequest(payload) == Accept(Op.DocIndex, Parse(payload, <<"str", "str">>))

decodeSPublishBatchRequest(payload) ==
    LET head == Parse(payload, <<"str", "u32">>)
        count == head.args[2]
        messages == Parse(head.rest, Repeat(<<"u32", "str", "blob">>, count))
    IN  IF ~head.ok \/ count > MaxBatchSize THEN Invalid
        ELSE Accept(Op.SPublishBatch, [messages EXCEPT !.args = <<head.args[1]>> \o @])

DecodePayload(op, payload) ==
    CASE op = Op.Set -> decodeSetRequest(payload)
      [] op \in {Op.Get, Op.Del, Op.Exists, Op.Incr, Op.Decr,
                 Op.QPop, Op.QPeek, Op.QLen, Op.QClear} -> decodeSimpleRequest(op, payload)
      [] op = Op.MSet -> decodeMSetRequest(payload)
      [] op \in {Op.MGet, Op.MDel} -> decodeMGetRequest(op, payload)
      [] op = Op.QPush -> decodeQPushRequest(payload)
      [] op = Op.SPublish -> decodeSPublishRequest(payload)
      [] op = Op.SConsume -> decodeSConsumeRequest(payload)
      [] op = Op.SCommit -> decodeSCommitRequest(payload)
      [] op = Op.SCreateTopic -> decodeSCreateTopicRequest(payload)
      [] op = Op.SPublishBatch -> decodeSPublishBatchRequest(payload)
      [] op = Op.SSubscribe -> decodeSSubscribeRequest(payload)
      [] op = Op.SUnsubscribe -> decodeSUnsubscribeRequest(payload)
      [] op = Op.DocInsert -> decodeDocInsertRequest(payload)
      [] op = Op.DocFind -> decodeDocFindRequest(payload)
      [] op = Op.DocUpdate -> decodeDocUpdateRequest(payload)
      [] op = Op.DocDelete -> decodeDocDeleteRequest(payload)
      [] op = Op.DocIndex -> decodeDocIndexRequest(payload)
      [] OTHER -> Invalid

\* Fault: a payload that has not arrived completely is decoded as far as it goes.
DecodeWhatArrived(data) ==
    IF Len(data) < 5 THEN Invalid
    ELSE LET payload == Drop(data, 5)
         IN  IF data[1] = Op.SPublish
             THEN Request(Op.SPublish, Parse(payload, <<"str", "u32", "str", "blob">>).args)
             ELSE DecodePayload(data[1], payload)

\* The frame's end is computed in 32 bits; bytes behind it are ignored.
DecodeRequest(data) ==
    LET end == (5 + Uint32(SubSeq(data, 2, 5))) % Base4
    IN  IF Len(data) < 5 \/ Len(data) < end THEN Invalid
        ELSE IF end < 5 THEN Crash
        ELSE DecodePayload(data[1], SubSeq(data, 6, end))

(***************************************************************************)
(* Responses.                                                              *)
(***************************************************************************)
EncodeOKResponse == Frame(Status.OK, <<>>)
EncodeValueResponse(value) == Frame(Status.OK, value)
EncodeErrorResponse(message) == Frame(Status.Error, message)
EncodeMultiValueResponse(values) ==
    Frame(Status.MultiValue, PutUint16(Len(values)) \o
        FlattenSeq([i \in 1..Len(values) |-> Blob(values[i])]))

\* A message of a SCONSUME answer: offset, timestamp, key, value.
EncodeStreamMessage(m) == PutUint64(m[1]) \o PutUint64(m[2]) \o Str(m[3]) \o Blob(m[4])
decodeStreamMessage(data) == Parse(data, <<"u64", "i64", "str", "blob">>)

================================================================================
