----------------------------- MODULE MCBinarySession -----------------------------
(***************************************************************************)
(* Base 3: two-byte lengths wrap at 9, four-byte ones at 81.               *)
(***************************************************************************)
EXTENDS BinarySession

Names == {<<>>, <<1>>, <<2, 0>>}
Long == {<<1, 2, 0, 1, 2, 0>>, <<1, 2, 0, 1, 2, 0, 1>>, <<1, 2, 0, 1, 2, 0, 1, 2>>}
Contents == {<<>>, <<2>>, <<0, 1>>}

C(op, args) == [op |-> op, args |-> args]

SimpleOps == {Op.Get, Op.Del, Op.Exists, Op.Incr, Op.Decr, Op.QPop, Op.QPeek, Op.QLen, Op.QClear}

MCCalls ==
    {C(op, <<k>>) : op \in SimpleOps, k \in Names \cup Long}
    \cup {C(op, <<k, v>>) : op \in {Op.Set, Op.QPush}, k \in Names \cup Long, v \in Contents}
    \cup {C(op, <<k, v>>) : op \in {Op.DocInsert, Op.DocFind, Op.DocUpdate, Op.DocDelete, Op.DocIndex},
                            k \in Names, v \in Contents}
    \cup {C(Op.MSet, kvs) : kvs \in {<<>>} \cup (Names \X Contents) \cup (Names \X Contents \X Names \X {<<2>>})}
    \cup {C(op, ks) : op \in {Op.MGet, Op.MDel}, ks \in {<<>>} \cup {<<k>> : k \in Names} \cup (Names \X Names)}
    \cup {C(Op.SPublish, <<t, p, k, v>>) : t \in Names, p \in {-1, 0, 4}, k \in Names, v \in Contents}
    \cup {C(Op.SConsume, <<t, g, <<2>>, n>>) : t \in Names, g \in Names, n \in {-1, 0, 4}}
    \cup {C(Op.SCommit, <<t, g, p, o>>) : t \in Names, g \in Names, p \in {-1, 4}, o \in {0, 100, 6560}}
    \cup {C(Op.SCreateTopic, <<t, p, r>>) : t \in Names, p \in {-1, 4}, r \in {-1, 0, 100}}
    \cup {C(op, <<t, g, c>>) : op \in {Op.SSubscribe, Op.SUnsubscribe}, t \in Names, g \in Names, c \in Names}
    \cup {C(Op.SPublishBatch, <<t, 1, <<1>>, v>>) : t \in Names, v \in Contents}

MCMessages == {<<5, 100, <<1>>, <<2>>>>, <<0, 0, <<>>, <<>>>>}
\* At this base an answer has room for no more than two messages.
MCConsumed == UNION {[1..n -> MCMessages] : n \in 0..2}
MCLengths == {0, 1, 100}
MCErrorText == <<1, 2>>

================================================================================
