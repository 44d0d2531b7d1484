------------------------------ MODULE BinarySession ------------------------------
(***************************************************************************)
(* One pooled connection of the Go client and the server's read loop at    *)
(* its other end.  The client encodes a call, writes it, and reads one     *)
(* answer before the connection goes back to the pool; the server hands    *)
(* whatever one Read returned to processRequestHybrid, which takes it for  *)
(* one request.  Bytes the client does not read stay on the connection.    *)
(***************************************************************************)
EXTENDS WireProtocol, FiniteSets

CONSTANTS
    Calls,      \* the requests the client may make
    Values,     \* values that handlers return
    Lengths,    \* queue lengths that QLEN reports
    Messages,   \* stream messages
    Consumed,   \* batches of messages that SCONSUME may return
    ErrorText,  \* the text of an error: some bytes
    ReadBuf,    \* the size of the server's readBuf
    MaxCalls,   \* bound: calls on this connection
    MaxReads    \* bound: reads that one call's bytes are spread over

\* What the text protocol answers to bytes that are no command: "-ERR " and more.  Read
\* as a header, it announces a payload that never comes.
TextError == <<45>> \o [i \in 1..4 |-> Base - 1] \o ErrorText

ASSUME SessionAssumption ==
    /\ ReadBuf \in Nat \ {0}
    /\ MaxCalls \in Nat
    /\ MaxReads \in Nat
    /\ Calls # {}

VARIABLES
    call,       \* the latest call
    waiting,    \* the client is waiting for its answer
    made,       \* calls made so far
    toServer,   \* bytes on their way to the server
    reads,      \* reads since the latest call
    executed,   \* requests that handlers executed since the latest call
    reply,      \* what the server answered last
    toClient,   \* bytes on their way to the client, or left unread
    answer,     \* what the latest finished call returned
    panicked,   \* the server died of a panic
    disturbed   \* history: a read cut a frame, a call timed out, or one found unread bytes

vars == <<call, waiting, made, toServer, reads, executed, reply, toClient, answer, panicked, disturbed>>
server == <<toServer, reads, executed, reply, panicked>>

Returns(kind, val) == [kind |-> kind, val |-> val]
Failed == Returns("error", <<>>)
Done == Returns("ok", <<>>)

Init ==
    /\ call = CHOOSE c \in Calls : TRUE      \* none yet
    /\ waiting = FALSE
    /\ made = 0
    /\ toServer = <<>>
    /\ reads = 0
    /\ executed = <<>>
    /\ reply = Failed
    /\ toClient = <<>>
    /\ answer = Failed
    /\ panicked = FALSE
    /\ disturbed = FALSE

(***************************************************************************)
(* The requests of the client's four interfaces.                           *)
(***************************************************************************)
KVClient(op, a) ==
    CASE op = Op.Set -> EncodeSetRequest(a[1], a[2])
      [] op = Op.Get -> EncodeGetRequest(a[1])
      [] op = Op.MSet -> EncodeMSetRequest(a)
      [] op = Op.MGet -> EncodeMGetRequest(a)
      [] op = Op.MDel -> EncodeMDeleteRequest(a)
      [] OTHER -> encodeSimpleRequest(op, a[1])

QueueClient(op, a) ==
    IF op = Op.QPush THEN EncodeQPushRequest(a[1], a[2]) ELSE encodeSimpleRequest(op, a[1])

StreamClient(op, a) ==
    CASE op = Op.SPublish -> EncodeSPublishRequest(a[1], a[2], a[3], a[4])
      [] op = Op.SConsume -> EncodeSConsumeRequest(a[1], a[2], a[3], a[4])
      [] op = Op.SCommit -> EncodeSCommitRequest(a[1], a[2], a[3], a[4])
      [] op = Op.SCreateTopic -> EncodeSCreateTopicRequest(a[1], a[2], a[3])
      [] op = Op.SSubscribe -> EncodeSSubscribeRequest(a[1], a[2], a[3])
      [] op = Op.SUnsubscribe -> EncodeSUnsubscribeRequest(a[1], a[2], a[3])

PublishBatch(a) == EncodeSPublishBatchRequest(a[1], Tail(a))

DBClient(op, a) ==
    CASE op = Op.DocInsert -> EncodeDocInsertRequest(a[1], a[2])
      [] op = Op.DocFind -> EncodeDocFindRequest(a[1], a[2])
      [] op = Op.DocUpdate -> EncodeDocUpdateRequest(a[1], a[2])
      [] op = Op.DocDelete -> EncodeDocDeleteRequest(a[1], a[2])
      [] op = Op.DocIndex -> EncodeDocIndexRequest(a[1], a[2])

Encode(c) ==
    CASE c.op <= Op.MDel -> KVClient(c.op, c.args)
      [] c.op \in Op.QPush..Op.QClear -> QueueClient(c.op, c.args)
      [] c.op \in Op.SPublish..Op.SUnsubscribe -> StreamClient(c.op, c.args)
      [] c.op = Op.SPublishBatch -> PublishBatch(c.args)
      [] OTHER -> DBClient(c.op, c.args)

\* The types of a call's arguments.
SingleKeyOps == {Op.Get, Op.Del, Op.Exists, Op.Incr, Op.Decr, Op.QPop, Op.QPeek, Op.QLen, Op.QClear}
BodyOps == {Op.Set, Op.QPush, Op.DocInsert, Op.DocFind, Op.DocUpdate, Op.DocDelete}

Kinds(op, count) ==
    CASE op \in SingleKeyOps -> <<"str">>
      [] op \in BodyOps -> <<"str", "blob">>
      [] op = Op.DocIndex -> <<"str", "str">>
      [] op = Op.MSet -> Repeat(<<"str", "blob">>, count \div 2)
      [] op \in {Op.MGet, Op.MDel} -> Repeat(<<"str">>, count)
      [] op = Op.SPublish -> <<"str", "u32", "str", "blob">>
      [] op = Op.SConsume -> <<"str", "str", "str", "u32">>
      [] op = Op.SCommit -> <<"str", "str", "u32", "i64">>
      [] op = Op.SCreateTopic -> <<"str", "u32", "i64">>
      [] op \in {Op.SSubscribe, Op.SUnsubscribe} -> <<"str", "str", "str">>
      [] op = Op.SPublishBatch -> <<"str">> \o Repeat(<<"u32", "str", "blob">>, count \div 3)

\* A string or a value that its place in a frame has room for, or any integer: the
\* encoders cut it to its width without a check.
Byte == 0..Base - 1
Fits(kind, a) ==
    CASE kind = "str" -> a \in Seq(Byte) /\ Len(a) <= MaxKeyLen
      [] kind = "blob" -> a \in Seq(Byte) /\ Len(a) < Base4
      [] kind \in IntKinds -> a \in Int

AllFit(kinds, args) ==
    /\ Len(args) = Len(kinds)
    /\ args = [i \in 1..Len(kinds) |-> args[i]]
    /\ \A i \in 1..Len(kinds) : Fits(kinds[i], args[i])

\* What the other end makes of an argument: partition -1 arrives as Base4 - 1.
AsRead(kind, a) ==
    CASE kind = "u32" -> a % Base4
      [] kind = "u64" -> a % Base8
      [] kind = "i64" -> Signed(a % Base8)
      [] OTHER -> a

ArgsRead(kinds, args) == [i \in 1..Len(kinds) |-> AsRead(kinds[i], args[i])]

\* The request that a call arrives as.
Arriving(c) == Request(c.op, ArgsRead(Kinds(c.op, Len(c.args)), c.args))

\* The encoders check no length, so calls stay below the protocol's own limits.
ASSUME CallsFit ==
    \A c \in Calls :
        /\ c = [op |-> c.op, args |-> c.args]
        /\ c.op \in {Op[o] : o \in DOMAIN Op}
        /\ Len(c.args) \in Nat
        /\ AllFit(Kinds(c.op, Len(c.args)), c.args)
        /\ c.op = Op.MSet => Len(c.args) \div 2 < Base2
        /\ c.op \in {Op.MGet, Op.MDel} => Len(c.args) < Base2
        /\ Len(Encode(c)) < Base4

\* A client method takes the connection from the pool and writes its request.
Call(c) ==
    /\ ~waiting /\ ~panicked /\ made < MaxCalls
    /\ call' = c
    /\ waiting' = TRUE
    /\ made' = made + 1
    /\ toServer' = toServer \o Encode(c)
    /\ reads' = 0
    /\ executed' = <<>>
    /\ reply' = Failed
    /\ disturbed' = (disturbed \/ toClient # <<>>)
    /\ UNCHANGED <<toClient, answer, panicked>>

(***************************************************************************)
(* The server.                                                             *)
(***************************************************************************)
\* First bytes that processRequestHybrid takes for the binary protocol.
isBinary(b) == b \in 1..18 \/ b \in 32..36 \/ b \in 48..54 \/ b \in 64..68

Answers(result, bytes) == [reply |-> result, bytes |-> bytes]
Refusal == Answers(Failed, EncodeErrorResponse(ErrorText))

\* Fault: a value is answered as a batch of one.
HandleValueAsBatch(req) ==
    {Refusal} \cup
    CASE req.op = Op.Get -> {Answers(Returns("value", v), EncodeMultiValueResponse(<<v>>)) : v \in Values}
      [] OTHER -> {}

\* Fault: EncodeOKResponse announces a payload that it does not carry.
HandleWithBareHeader(req) == {Answers(Done, <<Status.OK>> \o PutUint32(1))}

\* What the handlers answer when the stores behind them report no error.
KVHandlers(req) ==
    CASE req.op \in {Op.Set, Op.Del, Op.MSet, Op.MDel} -> {Answers(Done, EncodeOKResponse)}
      [] req.op = Op.Get -> {Answers(Returns("value", v), EncodeValueResponse(v)) : v \in Values}
      [] req.op = Op.MGet ->
            {Answers(Returns("values", vs), EncodeMultiValueResponse(vs)) : vs \in [1..Len(req.args) -> Values]}
      [] OTHER -> {}

QueueHandlers(req) ==
    CASE req.op \in {Op.QPush, Op.QClear} -> {Answers(Done, EncodeOKResponse)}
      [] req.op \in {Op.QPop, Op.QPeek} -> {Answers(Returns("value", v), EncodeValueResponse(v)) : v \in Values}
      [] req.op = Op.QLen -> {Answers(Returns("number", <<n>>), EncodeValueResponse(PutUint64(n))) : n \in Lengths}
      [] OTHER -> {}

StreamHandlers(req) ==
    CASE req.op \in {Op.SPublish, Op.SCommit, Op.SCreateTopic, Op.SSubscribe, Op.SUnsubscribe, Op.SPublishBatch} ->
            {Answers(Done, EncodeOKResponse)}
      [] req.op = Op.SConsume ->      \* one message at least is asked of a partition
            {Answers(Returns("messages", ms),
                     EncodeMultiValueResponse([i \in 1..Len(ms) |-> EncodeStreamMessage(ms[i])])) :
                ms \in {s \in Consumed : Len(s) <= 1 \/ Len(s) <= req.args[4]}}
      [] OTHER -> {}

\* The client makes a bare acknowledgement of the counts and of the "OK" of the last
\* three; that it looks for this "OK" changes nothing, since CreateIndex sends no other.
DocHandlers(req) ==
    CASE req.op \in {Op.DocInsert, Op.DocFind} -> {Answers(Returns("value", v), EncodeValueResponse(v)) : v \in Values}
      [] req.op \in {Op.DocUpdate, Op.DocDelete, Op.DocIndex} -> {Answers(Done, EncodeValueResponse(v)) : v \in Values}
      [] OTHER -> {}

\* processRequestBinary.  EXISTS, INCR and DECR are decoded but have no handler.
Handle(req) ==
    {Refusal} \cup KVHandlers(req) \cup QueueHandlers(req) \cup StreamHandlers(req) \cup DocHandlers(req)

\* The document store indexes and looks up values as map keys and slices by the skip of
\* a search: a list or an object in an indexed field, or a negative skip, panics, and
\* these handlers do not recover.
DocOps == {Op.DocInsert, Op.DocFind, Op.DocUpdate, Op.DocDelete, Op.DocIndex}

\* So do texts, values, lengths, messages and the answers to every call.
ASSUME AnswersFit ==
    /\ Fits("blob", ErrorText)
    /\ \A v \in Values : Fits("blob", v)
    /\ \A n \in Lengths : n \in Nat /\ 2 * n < Base8
    /\ \A m \in Messages :
        /\ AllFit(<<"u64", "i64", "str", "blob">>, m)
        /\ ArgsRead(<<"u64", "i64", "str", "blob">>, m) = m
        /\ Fits("blob", EncodeStreamMessage(m))
    /\ Consumed \subseteq Seq(Messages)
    /\ \A c \in Calls : \A a \in Handle(Arriving(c)) : Len(a.bytes) < Base4

\* readLoop: one Read, whose n bytes are processed as one request.
ServerRead(n) ==
    /\ ~panicked /\ reads < MaxReads
    /\ reads' = reads + 1
    /\ toServer' = Drop(toServer, n)
    /\ disturbed' = (disturbed \/ n # Len(toServer))
    /\ LET data == Take(toServer, n)
           req == DecodeRequest(data)
       IN  \/ /\ isBinary(data[1]) /\ req.outcome = "panic"
              /\ panicked' = TRUE
              /\ UNCHANGED <<executed, reply, toClient>>
           \/ /\ isBinary(data[1]) /\ req.outcome = "error"
              /\ reply' = Failed
              /\ toClient' = toClient \o Refusal.bytes
              /\ UNCHANGED <<executed, panicked>>
           \/ /\ isBinary(data[1]) /\ req.outcome = "ok"
              /\ executed' = Append(executed, req)
              /\ \E a \in Handle(req) : reply' = a.reply /\ toClient' = toClient \o a.bytes
              /\ UNCHANGED panicked
           \/ /\ isBinary(data[1]) /\ req.outcome = "ok" /\ req.op \in DocOps
              /\ executed' = Append(executed, req)
              /\ panicked' = TRUE
              /\ UNCHANGED <<reply, toClient>>
           \/ /\ ~isBinary(data[1])
              /\ reply' = Failed
              /\ toClient' = toClient \o TextError
              /\ UNCHANGED <<executed, panicked>>
    /\ UNCHANGED <<call, waiting, made, answer>>

(***************************************************************************)
(* The client's readers.                                                   *)
(***************************************************************************)
readOKResponse(status, payload) == IF status = Status.OK THEN Done ELSE Failed

readValueResponse(status, payload) ==
    IF status = Status.OK THEN Returns("value", payload) ELSE Failed

Multi(payload) ==
    IF Len(payload) < 2 THEN [ok |-> FALSE, rest |-> payload, args |-> <<>>]
    ELSE Parse(Drop(payload, 2), Repeat(<<"blob">>, Uint16(Take(payload, 2))))

readMultiValueResponse(status, payload) ==
    IF status \notin {Status.OK, Status.MultiValue} THEN Failed
    ELSE IF Len(payload) = 0 THEN Returns("values", <<>>)
    ELSE LET values == Multi(payload)
         IN  IF values.ok THEN Returns("values", values.args) ELSE Failed

readNumber(status, payload) ==
    IF status = Status.OK /\ Len(payload) = 8 THEN Returns("number", <<Signed(Uint64(payload))>>) ELSE Failed

readMessages(status, payload) ==
    LET values == Multi(payload)
        parsed == [i \in DOMAIN values.args |-> decodeStreamMessage(values.args[i])]
    IN  IF status = Status.OK THEN Returns("messages", <<>>)
        ELSE IF status = Status.MultiValue /\ values.ok /\ (\A i \in DOMAIN parsed : parsed[i].ok)
             THEN Returns("messages", [i \in DOMAIN parsed |-> parsed[i].args])
        ELSE Failed

ValueOps == {Op.Get, Op.QPop, Op.QPeek, Op.DocInsert, Op.DocFind}

readExists(status, payload) ==
    Returns("found", <<status = Status.OK /\ Len(payload) > 0 /\ payload[1] = 1>>)

Result(op, status, payload) ==
    CASE op \in ValueOps -> readValueResponse(status, payload)
      [] op = Op.MGet -> readMultiValueResponse(status, payload)
      [] op \in {Op.QLen, Op.Incr, Op.Decr} -> readNumber(status, payload)
      [] op = Op.SConsume -> readMessages(status, payload)
      [] op = Op.Exists -> readExists(status, payload)
      [] OTHER -> readOKResponse(status, payload)

\* Fault: an answer with an error status is taken for bare.
LeavesEveryError(op, status, n) == status # Status.OK /\ op = Op.Get

\* Readers that return on the header alone, whatever follows it.
LeavesPayload(op, status, n) ==
    \/ op = Op.Exists /\ ~(status = Status.OK /\ n > 0)
    \/ op = Op.SConsume /\ status \notin {Status.OK, Status.MultiValue}
    \/ op \in ValueOps \cup {Op.QLen, Op.Incr, Op.Decr} /\ status = Status.NotFound

Finish(result, rest) ==
    /\ answer' = result
    /\ toClient' = rest
    /\ waiting' = FALSE
    /\ UNCHANGED <<call, made, server>>

HeaderLen == Uint32(SubSeq(toClient, 2, 5))
Body == Drop(toClient, 5)
Leaves == LeavesPayload(call.op, toClient[1], HeaderLen)

\* Everything the client's reader asks for has arrived.
ReplyArrived == Len(toClient) >= 5 /\ (Leaves \/ Len(Body) >= HeaderLen)

\* The client has an answer and puts the connection back.
ClientRead ==
    /\ waiting /\ ReplyArrived
    /\ \/ Leaves /\ Finish(Result(call.op, toClient[1], <<>>), Body)
       \/ ~Leaves /\ Finish(Result(call.op, toClient[1], Take(Body, HeaderLen)), Drop(Body, HeaderLen))
    /\ UNCHANGED disturbed

\* The read deadline passes: what had arrived is consumed, and the connection goes
\* back to the pool all the same.
Timeout ==
    /\ waiting /\ ~ReplyArrived
    /\ Finish(Failed, <<>>)
    /\ disturbed' = TRUE

Next ==
    \/ \E c \in Calls : Call(c)
    \/ \E n \in 1..ReadBuf : n <= Len(toServer) /\ ServerRead(n)
    \/ ClientRead
    \/ Timeout

Spec == Init /\ [][Next]_vars

(***************************************************************************)
(* Properties.                                                             *)
(***************************************************************************)
\* The bytes of lengths, texts and values; opcodes and statuses stand for themselves.
Bytes == Seq((0..Base - 1) \cup {Op[o] : o \in DOMAIN Op} \cup {Status[t] : t \in DOMAIN Status} \cup {45})

\* Both directions carry bytes, and counters stay in their bounds.
TypeOK ==
    /\ call \in Calls
    /\ waiting \in BOOLEAN
    /\ made \in 0..MaxCalls
    /\ reads \in 0..MaxReads
    /\ toServer \in Bytes
    /\ toClient \in Bytes
    /\ panicked \in BOOLEAN
    /\ disturbed \in BOOLEAN

\* While every read returns one whole frame, what DecodeRequest gives the handler is
\* the call the client made, field by field, with its integers cut to the width of their
\* place, and it is executed at most once.
HandlerGetsCall ==
    ~disturbed => executed \in {<<>>, <<Arriving(call)>>}

\* A frame of which only the front arrived is never executed: DecodeRequest refuses
\* every proper prefix of every request, with an answer of its own.
CutFrameNotExecuted ==
    made = 1 /\ reads = 1 /\ toServer # <<>> => executed = <<>> /\ ~panicked

\* What a call returns is what the server answered to it: the readers take every
\* response apart the way the handlers put it together.  Only EXISTS, which has no
\* handler, turns the refusal into "not there", and the two-byte count of an SCONSUME
\* answer wraps.
TooMany(result) == result.kind = "messages" /\ Len(result.val) >= Base2

AnswerIsReply ==
    made > 0 /\ ~waiting /\ ~disturbed =>
        \/ answer = IF call.op = Op.Exists THEN Returns("found", <<FALSE>>) ELSE reply
        \/ TooMany(reply)

\* A connection goes back to the pool with nothing left to read on it, except after
\* an EXISTS or SCONSUME that was answered with an error.
InSync ==
    ~waiting /\ ~disturbed /\ toClient # <<>> =>
        call.op \in {Op.Exists, Op.SConsume} /\ reply = Failed

\* Decoding makes the server panic only for a key within two bytes of MaxKeyLen in a
\* request of a single key; every shorter key is decoded.  Any other panic is one of a
\* document handler, which had the request as it was made.
PanicHasCause ==
    panicked /\ ~disturbed =>
        \/ executed = <<>> /\ Len(call.args) = 1 /\ Len(call.args[1]) + 2 > MaxKeyLen
        \/ executed = <<Arriving(call)>> /\ call.op \in DocOps

\* Once the server has read a call, all its client reads of the answer is there: no
\* call waits for its deadline, except SPUBLISHBATCH, which the server takes for text.
NeverStuck ==
    waiting /\ reads > 0 /\ ~disturbed /\ ~panicked => ReplyArrived \/ call.op = Op.SPublishBatch

================================================================================
