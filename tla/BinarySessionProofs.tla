--------------------------- MODULE BinarySessionProofs ---------------------------
(***************************************************************************)
(* Proofs about WireProtocol and BinarySession for every base, call, key,  *)
(* value and message, and any number of calls on the connection.           *)
(***************************************************************************)
EXTENDS BinarySession, SequenceTheorems, WellFoundedInduction, TLAPS

(***************************************************************************)
(* Integers.                                                               *)
(***************************************************************************)
\* Quotient and remainder put a number together again.
LEMMA DivMod ==
    ASSUME NEW n \in Int, NEW b \in Nat \ {0}
    PROVE  /\ n \div b \in Int
           /\ n % b \in 0 .. b - 1
           /\ n = b * (n \div b) + (n % b)
  OBVIOUS

\* There is only one way to write a number as a multiple and a remainder.
LEMMA DivModUnique ==
    ASSUME NEW q \in Int, NEW b \in Nat \ {0}, NEW r \in 0 .. b - 1
    PROVE  (b * q + r) \div b = q /\ (b * q + r) % b = r
  OBVIOUS

\* A number below the base is its own remainder.
LEMMA ModSmall ==
    ASSUME NEW b \in Nat \ {0}, NEW n \in 0 .. b - 1
    PROVE  n % b = n
  OBVIOUS

\* Two digits of base b make a number below b squared.
LEMMA TwoDigits ==
    ASSUME NEW n \in Int, NEW b \in Nat \ {0}
    PROVE  ((n \div b) % b) * b + (n % b) = n % (b * b)
  <1> DEFINE q == n \div b
             r == n % b
             u == q \div b
             v == q % b
  <1>1. q \in Int /\ r \in 0 .. b - 1 /\ n = b * q + r
    BY DivMod
  <1>2. u \in Int /\ v \in 0 .. b - 1 /\ q = b * u + v
    BY <1>1, DivMod
  <1> HIDE DEF q, r, u, v
  <1>3. b * b \in Nat \ {0} /\ v * b + r \in 0 .. b * b - 1
    BY <1>1, <1>2
  <1>4. n = (b * b) * u + (v * b + r)
    BY <1>1, <1>2
  <1>5. ((b * b) * u + (v * b + r)) % (b * b) = v * b + r
    BY <1>2, <1>3, DivModUnique
  <1> QED
    BY <1>4, <1>5 DEF q, r, u, v

\* The wrap of two-, four- and eight-byte integers.
LEMMA BaseFacts ==
    /\ Base \in Nat /\ Base >= 2
    /\ Base2 \in Nat /\ Base2 >= 4
    /\ Base4 \in Nat /\ Base4 >= 16 /\ Base2 < Base4
    /\ Base8 \in Nat /\ Base8 >= 256 /\ Base4 < Base8
  <1>1. Base \in Nat /\ Base >= 2
    BY WireAssumption
  <1>2. Base2 \in Nat /\ Base2 >= 4
    BY <1>1 DEF Base2
  <1>3. Base4 \in Nat /\ Base4 >= 16 /\ Base2 < Base4
    <2>1. Base2 * Base2 >= 4 * Base2
      BY <1>2
    <2> QED
      BY <1>2, <2>1 DEF Base4
  <1>4. Base8 \in Nat /\ Base8 >= 256 /\ Base4 < Base8
    <2>1. Base4 * Base4 >= 16 * Base4
      BY <1>3
    <2> QED
      BY <1>3, <2>1 DEF Base8
  <1> QED
    BY <1>1, <1>2, <1>3, <1>4

(***************************************************************************)
(* Sequences.                                                              *)
(***************************************************************************)
\* A concatenation comes apart at its seam.
LEMMA Split ==
    ASSUME NEW s \in Seq(Nat), NEW t \in Seq(Nat)
    PROVE  /\ s \o t \in Seq(Nat)
           /\ Len(s \o t) = Len(s) + Len(t)
           /\ Take(s \o t, Len(s)) = s
           /\ Drop(s \o t, Len(s)) = t
  <1>1. s \o t \in Seq(Nat) /\ Len(s \o t) = Len(s) + Len(t)
    BY ConcatProperties
  <1>2. Take(s \o t, Len(s)) = s
    <2>1. Take(s \o t, Len(s)) = SubSeq(s, 1, Len(s))
      BY SubSeqOfConcat1, LenProperties DEF Take
    <2> QED
      BY <2>1, SubSeqFull
  <1>3. Drop(s \o t, Len(s)) = t
    <2>1. Drop(s \o t, Len(s)) = SubSeq(t, 1, Len(t))
      BY <1>1, SubSeqOfConcat2, LenProperties DEF Drop
    <2> QED
      BY <2>1, SubSeqFull
  <1> QED
    BY <1>1, <1>2, <1>3

\* Concatenation of numbers is associative.
LEMMA Assoc ==
    ASSUME NEW s \in Seq(Nat), NEW t \in Seq(Nat), NEW u \in Seq(Nat)
    PROVE  (s \o t) \o u = s \o (t \o u)
  BY ConcatAssociative, SMTT(30)

\* The front of a concatenation is that of its first part.
LEMMA ConcatFront ==
    ASSUME NEW s \in Seq(Nat), NEW t \in Seq(Nat), NEW i \in 1 .. Len(s), NEW j \in 1 .. Len(s)
    PROVE  (s \o t)[i] = s[i] /\ SubSeq(s \o t, i, j) = SubSeq(s, i, j)
  <1>1. (s \o t)[i] = s[i]
    OBVIOUS
  <1>2. SubSeq(s \o t, i, j) = SubSeq(s, i, j)
    BY SubSeqOfConcat1
  <1> QED
    BY <1>1, <1>2

\* Its back is that of its second part.
LEMMA ConcatBack ==
    ASSUME NEW s \in Seq(Nat), NEW t \in Seq(Nat), NEW i \in 1 .. Len(t)
    PROVE  (s \o t)[Len(s) + i] = t[i]
  OBVIOUS

\* What follows the same front is the same.
LEMMA LeftCancel ==
    ASSUME NEW s \in Seq(Nat), NEW t \in Seq(Nat), NEW u \in Seq(Nat), s \o t = s \o u
    PROVE  t = u
  <1>1. Drop(s \o t, Len(s)) = t /\ Drop(s \o u, Len(s)) = u
    BY Split
  <1> QED
    BY <1>1

\* Bytes are numbers.
LEMMA ByteSeq ==
    ASSUME NEW s \in Seq(Byte)
    PROVE  s \in Seq(Nat)
  BY BaseFacts DEF Byte

\* Fronts and backs of byte sequences are byte sequences.
LEMMA TakeDrop ==
    ASSUME NEW s \in Seq(Nat), NEW n \in 0 .. Len(s)
    PROVE  /\ Take(s, n) \in Seq(Nat) /\ Len(Take(s, n)) = n
           /\ \A i \in 1 .. n : Take(s, n)[i] = s[i]
           /\ Drop(s, n) \in Seq(Nat) /\ Len(Drop(s, n)) = Len(s) - n
           /\ Drop(s, Len(s)) = <<>> /\ Take(s, Len(s)) = s
  BY DEF Take, Drop

(***************************************************************************)
(* Two-, four- and eight-byte integers.                                    *)
(***************************************************************************)
\* Two bytes carry a number below Base2, and wrap one above.
LEMMA Put16 ==
    ASSUME NEW n \in Int
    PROVE  /\ PutUint16(n) \in Seq(Byte) /\ Len(PutUint16(n)) = 2
           /\ Uint16(PutUint16(n)) = n % Base2
  <1>1. Base \in Nat \ {0}
    BY BaseFacts
  <1>2. n \div Base \in Int /\ n % Base \in Byte
    BY <1>1, DivMod DEF Byte
  <1>3. (n \div Base) % Base \in Byte
    BY <1>1, <1>2, DivMod DEF Byte
  <1>4. ((n \div Base) % Base) * Base + (n % Base) = n % Base2
    BY <1>1, TwoDigits DEF Base2
  <1> QED
    BY <1>2, <1>3, <1>4 DEF PutUint16, Uint16

\* So do four bytes, as two and two.
LEMMA Put32 ==
    ASSUME NEW n \in Int
    PROVE  /\ PutUint32(n) \in Seq(Byte) /\ Len(PutUint32(n)) = 4
           /\ Uint32(PutUint32(n)) = n % Base4
  <1>1. Base2 \in Nat \ {0}
    BY BaseFacts
  <1>2. n \div Base2 \in Int
    BY <1>1, DivMod
  <1> DEFINE high == PutUint16(n \div Base2)
             low == PutUint16(n)
  <1>3. /\ high \in Seq(Byte) /\ Len(high) = 2 /\ Uint16(high) = (n \div Base2) % Base2
        /\ low \in Seq(Byte) /\ Len(low) = 2 /\ Uint16(low) = n % Base2
    BY <1>2, Put16
  <1>4. PutUint32(n) = high \o low
    BY DEF PutUint32
  <1> HIDE DEF high, low
  <1>5. /\ high \o low \in Seq(Byte) /\ Len(high \o low) = 4
        /\ Take(high \o low, 2) = high /\ Drop(high \o low, 2) = low
    <2>1. high \in Seq(Nat) /\ low \in Seq(Nat)
      BY <1>3, ByteSeq
    <2>2. /\ Len(high \o low) = Len(high) + Len(low)
          /\ Take(high \o low, Len(high)) = high /\ Drop(high \o low, Len(high)) = low
      BY <2>1, Split
    <2>3. high \o low \in Seq(Byte)
      BY <1>3
    <2> QED
      BY <1>3, <2>2, <2>3
  <1>6. ((n \div Base2) % Base2) * Base2 + (n % Base2) = n % Base4
    BY <1>1, TwoDigits DEF Base4
  <1> QED
    BY <1>3, <1>4, <1>5, <1>6 DEF Uint32

\* And eight, as four and four.
LEMMA Put64 ==
    ASSUME NEW n \in Int
    PROVE  /\ PutUint64(n) \in Seq(Byte) /\ Len(PutUint64(n)) = 8
           /\ Uint64(PutUint64(n)) = n % Base8
  <1>1. Base4 \in Nat \ {0}
    BY BaseFacts
  <1>2. n \div Base4 \in Int
    BY <1>1, DivMod
  <1> DEFINE high == PutUint32(n \div Base4)
             low == PutUint32(n)
  <1>3. /\ high \in Seq(Byte) /\ Len(high) = 4 /\ Uint32(high) = (n \div Base4) % Base4
        /\ low \in Seq(Byte) /\ Len(low) = 4 /\ Uint32(low) = n % Base4
    BY <1>2, Put32
  <1>4. PutUint64(n) = high \o low
    BY DEF PutUint64
  <1> HIDE DEF high, low
  <1>5. /\ high \o low \in Seq(Byte) /\ Len(high \o low) = 8
        /\ Take(high \o low, 4) = high /\ Drop(high \o low, 4) = low
    <2>1. high \in Seq(Nat) /\ low \in Seq(Nat)
      BY <1>3, ByteSeq
    <2>2. /\ Len(high \o low) = Len(high) + Len(low)
          /\ Take(high \o low, Len(high)) = high /\ Drop(high \o low, Len(high)) = low
      BY <2>1, Split
    <2>3. high \o low \in Seq(Byte)
      BY <1>3
    <2> QED
      BY <1>3, <2>2, <2>3
  <1>6. ((n \div Base4) % Base4) * Base4 + (n % Base4) = n % Base8
    BY <1>1, TwoDigits DEF Base8
  <1> QED
    BY <1>3, <1>4, <1>5, <1>6 DEF Uint64

\* Sums and products stay natural.
LEMMA NatRing ==
    ASSUME NEW x \in Nat, NEW y \in Nat, NEW z \in Nat
    PROVE  x * y + z \in Nat
  OBVIOUS

\* Read as an integer, any bytes give a number.
LEMMA UintTypes ==
    ASSUME NEW b \in Seq(Nat)
    PROVE  /\ Len(b) = 2 => Uint16(b) \in Nat
           /\ Len(b) = 4 => Uint32(b) \in Nat
           /\ Len(b) = 8 => Uint64(b) \in Nat
  <1>1. Base \in Nat /\ Base2 \in Nat /\ Base4 \in Nat
    BY BaseFacts
  <1>2. \A c \in Seq(Nat) : Len(c) = 2 => Uint16(c) \in Nat
    <2> SUFFICES ASSUME NEW c \in Seq(Nat), Len(c) = 2
                 PROVE  Uint16(c) \in Nat
      OBVIOUS
    <2>1. 1 \in 1 .. Len(c) /\ 2 \in 1 .. Len(c)
      OBVIOUS
    <2>2. c[1] \in Nat /\ c[2] \in Nat
      BY <2>1, ElementOfSeq
    <2> QED
      BY <1>1, <2>2, NatRing DEF Uint16
  <1>3. \A c \in Seq(Nat) : Len(c) = 4 => Uint32(c) \in Nat
    <2> SUFFICES ASSUME NEW c \in Seq(Nat), Len(c) = 4
                 PROVE  Uint32(c) \in Nat
      OBVIOUS
    <2>1. 2 \in 0 .. Len(c)
      OBVIOUS
    <2>2. /\ Take(c, 2) \in Seq(Nat) /\ Len(Take(c, 2)) = 2
          /\ Drop(c, 2) \in Seq(Nat) /\ Len(Drop(c, 2)) = Len(c) - 2
      BY <2>1, TakeDrop
    <2>3. Uint16(Take(c, 2)) \in Nat /\ Uint16(Drop(c, 2)) \in Nat
      BY <1>2, <2>2
    <2> QED
      BY <1>1, <2>3, NatRing DEF Uint32
  <1>4. Len(b) = 8 => Uint64(b) \in Nat
    <2> SUFFICES ASSUME Len(b) = 8
                 PROVE  Uint64(b) \in Nat
      OBVIOUS
    <2>1. 4 \in 0 .. Len(b)
      OBVIOUS
    <2>2. /\ Take(b, 4) \in Seq(Nat) /\ Len(Take(b, 4)) = 4
          /\ Drop(b, 4) \in Seq(Nat) /\ Len(Drop(b, 4)) = Len(b) - 4
      BY <2>1, TakeDrop
    <2>3. Uint32(Take(b, 4)) \in Nat /\ Uint32(Drop(b, 4)) \in Nat
      BY <1>3, <2>2
    <2> QED
      BY <1>1, <2>3, NatRing DEF Uint64
  <1> QED
    BY <1>2, <1>3, <1>4

(***************************************************************************)
(* Fields: what an encoder writes and ReadField makes of it.               *)
(***************************************************************************)
FieldKinds == {"str", "blob", "u32", "u64", "i64"}

Field(kind, a) ==
    IF kind = "str" THEN Str(a)
    ELSE IF kind = "blob" THEN Blob(a)
    ELSE IF kind = "u32" THEN PutUint32(a)
    ELSE PutUint64(a)

Parsed(rest, args) == [ok |-> TRUE, rest |-> rest, args |-> args]

\* The widths of the integers that fields start with.
LEMMA Widths ==
    /\ Width["str"] = 2 /\ Width["blob"] = 4 /\ Width["u32"] = 4 /\ Width["u64"] = 8 /\ Width["i64"] = 8
    /\ \A b : /\ Uint("str", b) = Uint16(b) /\ Uint("blob", b) = Uint32(b)
              /\ Uint("u32", b) = Uint32(b) /\ Uint("u64", b) = Uint64(b)
              /\ Uint("i64", b) = Signed(Uint64(b))
  BY DEF Width, Uint

\* ReadField on a field whose integer has arrived.
LEMMA ReadWith ==
    ASSUME NEW kind, NEW head \in Seq(Nat), Len(head) = Width[kind], NEW tail \in Seq(Nat), NEW args
    PROVE  ReadField(Parsed(head \o tail, args), kind) =
               IF kind \in IntKinds THEN Parsed(tail, Append(args, Uint(kind, head)))
               ELSE IF Len(tail) < Uint(kind, head)
                    THEN [Parsed(head \o tail, args) EXCEPT !.ok = FALSE]
               ELSE Parsed(Drop(tail, Uint(kind, head)), Append(args, Take(tail, Uint(kind, head))))
  <1> DEFINE whole == head \o tail
  <1>1. /\ Take(whole, Len(head)) = head /\ Drop(whole, Len(head)) = tail
        /\ Len(whole) = Len(head) + Len(tail)
    BY Split
  <1>2. Len(head) \in Nat /\ Len(tail) \in Nat
    OBVIOUS
  <1>3. ~(Len(whole) < Width[kind])
    BY <1>1, <1>2
  <1>4. Parsed(whole, args).ok = TRUE /\ Parsed(whole, args).rest = whole /\ Parsed(whole, args).args = args
    BY DEF Parsed
  <1>5. Take(whole, Width[kind]) = head /\ Drop(whole, Width[kind]) = tail
    BY <1>1
  <1> HIDE DEF whole
  <1>6. ReadField(Parsed(whole, args), kind) =
            IF kind \in IntKinds THEN Parsed(tail, Append(args, Uint(kind, head)))
            ELSE IF Len(tail) < Uint(kind, head)
                 THEN [Parsed(whole, args) EXCEPT !.ok = FALSE]
            ELSE Parsed(Drop(tail, Uint(kind, head)), Append(args, Take(tail, Uint(kind, head))))
    <2> DEFINE P == Parsed(whole, args)
    <2>1. ReadField(P, kind) =
            IF ~P.ok \/ Len(P.rest) < Width[kind] THEN [P EXCEPT !.ok = FALSE]
            ELSE IF kind \in IntKinds
                 THEN Parsed(Drop(P.rest, Width[kind]), Append(P.args, Uint(kind, Take(P.rest, Width[kind]))))
            ELSE IF Len(Drop(P.rest, Width[kind])) < Uint(kind, Take(P.rest, Width[kind]))
                 THEN [P EXCEPT !.ok = FALSE]
            ELSE Parsed(Drop(Drop(P.rest, Width[kind]), Uint(kind, Take(P.rest, Width[kind]))),
                        Append(P.args, Take(Drop(P.rest, Width[kind]), Uint(kind, Take(P.rest, Width[kind])))))
      BY Zenon DEF ReadField, Parsed
    <2> HIDE DEF P
    <2>2. ReadField(P, kind) =
            IF kind \in IntKinds THEN Parsed(tail, Append(args, Uint(kind, head)))
            ELSE IF Len(tail) < Uint(kind, head) THEN [P EXCEPT !.ok = FALSE]
            ELSE Parsed(Drop(tail, Uint(kind, head)), Append(args, Take(tail, Uint(kind, head))))
      BY <1>3, <1>4, <1>5, <2>1 DEF P
    <2> QED
      BY <2>2 DEF P
  <1> QED
    BY <1>6 DEF whole

\* A string or a value behind its length is read back, whatever follows it.
LEMMA ReadBody ==
    ASSUME NEW kind \in {"str", "blob"}, NEW head \in Seq(Nat), Len(head) = Width[kind],
           NEW a \in Seq(Nat), Uint(kind, head) = Len(a),
           NEW rest \in Seq(Nat), NEW args
    PROVE  ReadField(Parsed((head \o a) \o rest, args), kind) = Parsed(rest, Append(args, a))
  <1>1. (head \o a) \o rest = head \o (a \o rest)
    BY Assoc
  <1>2. /\ a \o rest \in Seq(Nat) /\ Len(a \o rest) = Len(a) + Len(rest)
        /\ Take(a \o rest, Len(a)) = a /\ Drop(a \o rest, Len(a)) = rest
    BY Split
  <1>3. ~(Len(a \o rest) < Len(a))
    BY <1>2, LenProperties
  <1>4. kind \notin IntKinds
    BY DEF IntKinds
  <1> DEFINE tail == a \o rest
  <1>5. ReadField(Parsed(head \o tail, args), kind) =
               IF kind \in IntKinds THEN Parsed(tail, Append(args, Uint(kind, head)))
               ELSE IF Len(tail) < Uint(kind, head)
                    THEN [Parsed(head \o tail, args) EXCEPT !.ok = FALSE]
               ELSE Parsed(Drop(tail, Uint(kind, head)), Append(args, Take(tail, Uint(kind, head))))
    <2> HIDE DEF tail
    <2> QED
      BY <1>2, ReadWith DEF tail
  <1> QED
    BY <1>1, <1>2, <1>3, <1>4, <1>5

\* What each kind of argument is.
LEMMA FitsIs ==
    ASSUME NEW a
    PROVE  /\ Fits("str", a) <=> a \in Seq(Byte) /\ Len(a) <= MaxKeyLen
           /\ Fits("blob", a) <=> a \in Seq(Byte) /\ Len(a) < Base4
           /\ \A kind \in IntKinds : Fits(kind, a) <=> a \in Int
  BY DEF Fits, IntKinds

\* A field that fits is bytes, and ReadField reads it back, whatever follows it.
LEMMA FieldReadBack ==
    ASSUME NEW kind \in FieldKinds, NEW a, Fits(kind, a), NEW rest \in Seq(Nat), NEW args
    PROVE  /\ Field(kind, a) \in Seq(Byte)
           /\ ReadField(Parsed(Field(kind, a) \o rest, args), kind) = Parsed(rest, Append(args, AsRead(kind, a)))
  <1>1. kind \in {"str", "blob"} => AsRead(kind, a) = a
    BY DEF AsRead
  <1>2. CASE kind = "str"
    <2>1. a \in Seq(Byte) /\ Len(a) \in 0 .. Base2 - 1
      BY <1>2, BaseFacts, FitsIs DEF MaxKeyLen
    <2> DEFINE head == PutUint16(Len(a))
    <2>2. head \in Seq(Byte) /\ Len(head) = 2 /\ Uint16(head) = Len(a) % Base2
      BY <2>1, Put16
    <2>3. Len(a) % Base2 = Len(a)
      BY <2>1, BaseFacts, ModSmall
    <2>4. Field(kind, a) = head \o a
      BY <1>2 DEF Field, Str
    <2>5. head \in Seq(Nat) /\ a \in Seq(Nat)
      BY <2>1, <2>2, ByteSeq
    <2> HIDE DEF head
    <2>6. Len(head) = Width[kind] /\ Uint(kind, head) = Len(a)
      BY <1>2, <2>2, <2>3, Widths
    <2>7. ReadField(Parsed((head \o a) \o rest, args), kind) = Parsed(rest, Append(args, a))
      BY <1>2, <2>5, <2>6, ReadBody
    <2>8. head \o a \in Seq(Byte)
      BY <2>1, <2>2
    <2> QED
      BY <1>1, <1>2, <2>4, <2>7, <2>8
  <1>3. CASE kind = "blob"
    <2>1. a \in Seq(Byte) /\ Len(a) \in 0 .. Base4 - 1
      BY <1>3, BaseFacts, FitsIs
    <2> DEFINE head == PutUint32(Len(a))
    <2>2. head \in Seq(Byte) /\ Len(head) = 4 /\ Uint32(head) = Len(a) % Base4
      BY <2>1, Put32
    <2>3. Len(a) % Base4 = Len(a)
      BY <2>1, BaseFacts, ModSmall
    <2>4. Field(kind, a) = head \o a
      BY <1>3 DEF Field, Blob
    <2>5. head \in Seq(Nat) /\ a \in Seq(Nat)
      BY <2>1, <2>2, ByteSeq
    <2> HIDE DEF head
    <2>6. Len(head) = Width[kind] /\ Uint(kind, head) = Len(a)
      BY <1>3, <2>2, <2>3, Widths
    <2>7. ReadField(Parsed((head \o a) \o rest, args), kind) = Parsed(rest, Append(args, a))
      BY <1>3, <2>5, <2>6, ReadBody
    <2>8. head \o a \in Seq(Byte)
      BY <2>1, <2>2
    <2> QED
      BY <1>1, <1>3, <2>4, <2>7, <2>8
  <1>4. CASE kind \in IntKinds
    <2> DEFINE head == Field(kind, a)
    <2>1. a \in Int
      BY <1>4, FitsIs
    <2>2. head \in Seq(Byte) /\ Len(head) = Width[kind] /\ Uint(kind, head) = AsRead(kind, a)
      <3>1. CASE kind = "u32"
        <4>1. Field(kind, a) = PutUint32(a) /\ AsRead(kind, a) = a % Base4
          BY <3>1 DEF Field, AsRead
        <4> QED
          BY <2>1, <3>1, <4>1, Put32, Widths
      <3>2. CASE kind = "u64"
        <4>1. Field(kind, a) = PutUint64(a) /\ AsRead(kind, a) = a % Base8
          BY <3>2 DEF Field, AsRead
        <4> QED
          BY <2>1, <3>2, <4>1, Put64, Widths
      <3>3. CASE kind = "i64"
        <4>1. Field(kind, a) = PutUint64(a) /\ AsRead(kind, a) = Signed(a % Base8)
          BY <3>3 DEF Field, AsRead
        <4>2. Uint("i64", PutUint64(a)) = Signed(a % Base8)
          BY <2>1, Put64, Widths
        <4> QED
          BY <2>1, <3>3, <4>1, <4>2, Put64, Widths
      <3> QED
        BY <1>4, <3>1, <3>2, <3>3 DEF IntKinds
    <2>3. head \in Seq(Nat)
      BY <2>2, ByteSeq
    <2> HIDE DEF head
    <2>4. ReadField(Parsed(head \o rest, args), kind) = Parsed(rest, Append(args, Uint(kind, head)))
      BY <1>4, <2>2, <2>3, ReadWith
    <2> QED
      BY <2>2, <2>4 DEF head
  <1> QED
    BY <1>2, <1>3, <1>4 DEF FieldKinds, IntKinds

(***************************************************************************)
(* Induction, for sets of numbers.                                         *)
(***************************************************************************)
\* Every set of numbers has a least one.
LEMMA LeastNat ==
    ASSUME NEW T \in SUBSET Nat, T # {}
    PROVE  \E n \in T : \A m \in T : n <= m
  <1>1. PICK n \in T : \A m \in T : ~(<<m, n>> \in OpToRel(<, Nat))
    BY WFMin, NatLessThanWellFounded, Zenon
  <1>2. \A m \in T : ~(m < n)
    BY <1>1 DEF OpToRel
  <1> QED
    BY <1>2

\* A set of numbers that holds 0 and with every number the next holds them all.
LEMMA Induction ==
    ASSUME NEW S \in SUBSET Nat, 0 \in S, \A n \in S : n + 1 \in S
    PROVE  \A n \in Nat : n \in S
  <1> SUFFICES ASSUME Nat \ S # {}
               PROVE  FALSE
    OBVIOUS
  <1>1. PICK n \in Nat \ S : \A m \in Nat \ S : n <= m
    BY LeastNat
  <1>2. n # 0 /\ n - 1 \in Nat
    BY <1>1
  <1>3. n - 1 \in S
    BY <1>1, <1>2
  <1>4. (n - 1) + 1 \in S
    BY <1>3
  <1> QED
    BY <1>1, <1>4

(***************************************************************************)
(* Parsing a payload is reading its fields one after the other.            *)
(***************************************************************************)
IsParse(f, payload, kinds, n) ==
    f = [i \in 0 .. n |-> IF i = 0 THEN Parsed(payload, <<>>) ELSE ReadField(f[i - 1], kinds[i])]

\* The function that Parse defines by recursion exists, for any number of fields.
LEMMA ParseExists ==
    ASSUME NEW payload, NEW kinds, NEW n \in Nat
    PROVE  \E f : IsParse(f, payload, kinds, n)
  <1> DEFINE S == {k \in Nat : \E f : IsParse(f, payload, kinds, k)}
  <1>1. 0 \in S
    <2> DEFINE g == [i \in 0 .. 0 |-> Parsed(payload, <<>>)]
    <2>1. IsParse(g, payload, kinds, 0)
      BY DEF IsParse
    <2> QED
      BY <2>1
  <1>2. ASSUME NEW k \in S
        PROVE  k + 1 \in S
    <2>1. PICK f : IsParse(f, payload, kinds, k)
      OBVIOUS
    <2> DEFINE g == [i \in 0 .. k + 1 |-> IF i = k + 1 THEN ReadField(f[k], kinds[k + 1]) ELSE f[i]]
    <2>2. ASSUME NEW i \in 0 .. k + 1
          PROVE  g[i] = IF i = 0 THEN Parsed(payload, <<>>) ELSE ReadField(g[i - 1], kinds[i])
      <3>1. CASE i = k + 1
        <4>1. g[i] = ReadField(f[k], kinds[k + 1]) /\ i # 0 /\ i - 1 = k /\ g[k] = f[k]
          BY <3>1
        <4> QED
          BY <3>1, <4>1
      <3>2. CASE i # k + 1
        <4>1. i \in 0 .. k /\ g[i] = f[i]
          BY <3>2
        <4>2. f[i] = IF i = 0 THEN Parsed(payload, <<>>) ELSE ReadField(f[i - 1], kinds[i])
          BY <2>1, <4>1 DEF IsParse
        <4>3. i # 0 => g[i - 1] = f[i - 1]
          BY <4>1
        <4> QED
          BY <4>1, <4>2, <4>3
      <3> QED
        BY <3>1, <3>2
    <2>3. g = [i \in 0 .. k + 1 |-> g[i]]
      OBVIOUS
    <2> HIDE DEF g
    <2>4. IsParse(g, payload, kinds, k + 1)
      BY <2>2, <2>3 DEF IsParse
    <2> QED
      BY <2>4
  <1>3. S \in SUBSET Nat
    OBVIOUS
  <1> HIDE DEF S
  <1>4. n \in S
    BY <1>1, <1>2, <1>3, Induction
  <1> QED
    BY <1>4 DEF S

\* Parse returns that function's last value.
LEMMA ParseIs ==
    ASSUME NEW payload, NEW kinds, Len(kinds) \in Nat
    PROVE  \E f : /\ f[0] = Parsed(payload, <<>>)
                  /\ \A i \in 1 .. Len(kinds) : f[i] = ReadField(f[i - 1], kinds[i])
                  /\ Parse(payload, kinds) = f[Len(kinds)]
  <1> DEFINE F == CHOOSE f : f = [i \in 0 .. Len(kinds) |->
                     IF i = 0 THEN [ok |-> TRUE, rest |-> payload, args |-> <<>>]
                     ELSE ReadField(f[i - 1], kinds[i])]
  <1>1. \E f : f = [i \in 0 .. Len(kinds) |->
                     IF i = 0 THEN [ok |-> TRUE, rest |-> payload, args |-> <<>>]
                     ELSE ReadField(f[i - 1], kinds[i])]
    <2>1. \E f : IsParse(f, payload, kinds, Len(kinds))
      BY ParseExists
    <2> QED
      BY <2>1, Zenon DEF IsParse, Parsed
  <1>2. F = [i \in 0 .. Len(kinds) |->
                     IF i = 0 THEN [ok |-> TRUE, rest |-> payload, args |-> <<>>]
                     ELSE ReadField(F[i - 1], kinds[i])]
    BY <1>1, Zenon
  <1>3. Parse(payload, kinds) = F[Len(kinds)]
    BY Zenon DEF Parse
  <1> HIDE DEF F
  <1>4. F[0] = Parsed(payload, <<>>)
    BY <1>2 DEF Parsed
  <1>5. ASSUME NEW i \in 1 .. Len(kinds)
        PROVE  F[i] = ReadField(F[i - 1], kinds[i])
    <2>1. i \in 0 .. Len(kinds) /\ i # 0
      OBVIOUS
    <2> QED
      BY <1>2, <2>1
  <1> QED
    BY <1>3, <1>4, <1>5

(***************************************************************************)
(* FlattenSeq joins sequences one after the other.                         *)
(***************************************************************************)
IsFlatten(f, seqs, n) ==
    f = [i \in 1 .. n |-> IF i = 1 THEN seqs[i] ELSE f[i - 1] \o seqs[i]]

\* The function that FlattenSeq defines by recursion exists.
LEMMA FlattenExists ==
    ASSUME NEW seqs, NEW n \in Nat
    PROVE  \E f : IsFlatten(f, seqs, n)
  <1> DEFINE S == {k \in Nat : \E f : IsFlatten(f, seqs, k)}
  <1>1. 0 \in S
    <2> DEFINE g == [i \in 1 .. 0 |-> <<>>]
    <2>1. IsFlatten(g, seqs, 0)
      BY DEF IsFlatten
    <2> QED
      BY <2>1
  <1>2. ASSUME NEW k \in S
        PROVE  k + 1 \in S
    <2>1. PICK f : IsFlatten(f, seqs, k)
      OBVIOUS
    <2> DEFINE g == [i \in 1 .. k + 1 |->
                        IF i # k + 1 THEN f[i]
                        ELSE IF k = 0 THEN seqs[1] ELSE f[k] \o seqs[k + 1]]
    <2>2. ASSUME NEW i \in 1 .. k + 1
          PROVE  g[i] = IF i = 1 THEN seqs[i] ELSE g[i - 1] \o seqs[i]
      <3>1. CASE i = k + 1 /\ k = 0
        BY <3>1
      <3>2. CASE i = k + 1 /\ k # 0
        <4>1. i # 1 /\ i - 1 = k /\ k \in 1 .. k + 1 /\ k # k + 1
          BY <3>2
        <4>2. g[k] = f[k] /\ g[i] = f[k] \o seqs[k + 1]
          BY <3>2, <4>1
        <4> QED
          BY <3>2, <4>1, <4>2
      <3>3. CASE i # k + 1
        <4>1. i \in 1 .. k /\ g[i] = f[i]
          BY <3>3
        <4>2. f[i] = IF i = 1 THEN seqs[i] ELSE f[i - 1] \o seqs[i]
          BY <2>1, <4>1 DEF IsFlatten
        <4>3. i # 1 => g[i - 1] = f[i - 1]
          BY <4>1
        <4> QED
          BY <4>1, <4>2, <4>3
      <3> QED
        BY <3>1, <3>2, <3>3
    <2>3. g = [i \in 1 .. k + 1 |-> g[i]]
      OBVIOUS
    <2> HIDE DEF g
    <2>4. IsFlatten(g, seqs, k + 1)
      BY <2>2, <2>3 DEF IsFlatten
    <2> QED
      BY <2>4
  <1>3. S \in SUBSET Nat
    OBVIOUS
  <1> HIDE DEF S
  <1>4. n \in S
    BY <1>1, <1>2, <1>3, Induction
  <1> QED
    BY <1>4 DEF S

\* FlattenSeq returns that function's last value.
LEMMA FlattenIs ==
    ASSUME NEW seqs, Len(seqs) \in Nat \ {0}
    PROVE  \E f : /\ f[1] = seqs[1]
                  /\ \A i \in 2 .. Len(seqs) : f[i] = f[i - 1] \o seqs[i]
                  /\ FlattenSeq(seqs) = f[Len(seqs)]
  <1> DEFINE F == CHOOSE f : f = [i \in 1 .. Len(seqs) |-> IF i = 1 THEN seqs[i] ELSE f[i - 1] \o seqs[i]]
  <1>1. \E f : f = [i \in 1 .. Len(seqs) |-> IF i = 1 THEN seqs[i] ELSE f[i - 1] \o seqs[i]]
    <2>1. \E f : IsFlatten(f, seqs, Len(seqs))
      BY FlattenExists
    <2> QED
      BY <2>1, Zenon DEF IsFlatten
  <1>2. F = [i \in 1 .. Len(seqs) |-> IF i = 1 THEN seqs[i] ELSE F[i - 1] \o seqs[i]]
    BY <1>1, Zenon
  <1>3. FlattenSeq(seqs) = F[Len(seqs)]
    <2>1. Len(seqs) # 0
      OBVIOUS
    <2> QED
      BY <2>1, Zenon DEF FlattenSeq
  <1> HIDE DEF F
  <1>4. F[1] = seqs[1]
    <2>1. 1 \in 1 .. Len(seqs)
      OBVIOUS
    <2> QED
      BY <1>2, <2>1
  <1>5. ASSUME NEW i \in 2 .. Len(seqs)
        PROVE  F[i] = F[i - 1] \o seqs[i]
    <2>1. i \in 1 .. Len(seqs) /\ i # 1
      OBVIOUS
    <2> QED
      BY <1>2, <2>1
  <1> QED
    BY <1>3, <1>4, <1>5

\* P lists the fronts of a flattened sequence of sequences.
IsFronts(P, seqs) ==
    /\ P[0] = <<>>
    /\ \A i \in 1 .. Len(seqs) : P[i] = P[i - 1] \o seqs[i]

\* Flattening adds one sequence after the other to an empty one.
LEMMA Fronts ==
    ASSUME NEW T, NEW seqs \in Seq(Seq(T))
    PROVE  \E P \in [0 .. Len(seqs) -> Seq(T)] : IsFronts(P, seqs) /\ FlattenSeq(seqs) = P[Len(seqs)]
  <1>1. CASE Len(seqs) = 0
    <2>1. seqs = <<>> /\ FlattenSeq(seqs) = seqs
      BY <1>1 DEF FlattenSeq
    <2> DEFINE P == [i \in 0 .. Len(seqs) |-> <<>>]
    <2>2. P \in [0 .. Len(seqs) -> Seq(T)] /\ P[0] = <<>> /\ P[Len(seqs)] = <<>>
      BY <1>1
    <2>3. IsFronts(P, seqs)
      BY <1>1, <2>2 DEF IsFronts
    <2> QED
      BY <2>1, <2>2, <2>3
  <1>2. CASE Len(seqs) # 0
    <2>1. Len(seqs) \in Nat \ {0}
      BY <1>2
    <2>2. PICK f : /\ f[1] = seqs[1]
                   /\ \A i \in 2 .. Len(seqs) : f[i] = f[i - 1] \o seqs[i]
                   /\ FlattenSeq(seqs) = f[Len(seqs)]
      BY <2>1, FlattenIs
    <2> DEFINE P == [i \in 0 .. Len(seqs) |-> IF i = 0 THEN <<>> ELSE f[i]]
               S == {k \in Nat : k <= Len(seqs) => P[k] \in Seq(T)}
    <2>3. \A i \in 1 .. Len(seqs) : seqs[i] \in Seq(T)
      BY ElementOfSeq
    <2>4. P[0] = <<>> /\ P[Len(seqs)] = f[Len(seqs)]
      BY <2>1
    <2>5. ASSUME NEW i \in 1 .. Len(seqs)
          PROVE  P[i] = P[i - 1] \o seqs[i]
      <3>1. CASE i = 1
        <4>1. P[i] = seqs[1] /\ P[i - 1] = <<>>
          BY <3>1, <2>2
        <4>2. <<>> \o seqs[1] = seqs[1]
          BY <2>1, <2>3, ConcatEmptySeq
        <4> QED
          BY <3>1, <4>1, <4>2
      <3>2. CASE i # 1
        <4>1. i \in 2 .. Len(seqs) /\ P[i] = f[i] /\ P[i - 1] = f[i - 1]
          BY <3>2
        <4> QED
          BY <2>2, <4>1
      <3> QED
        BY <3>1, <3>2
    <2>6. P = [i \in 0 .. Len(seqs) |-> P[i]]
      OBVIOUS
    <2> HIDE DEF P
    <2>7. \A k \in Nat : k \in S
      <3>1. 0 \in S
        BY <2>4, EmptySeq
      <3>2. ASSUME NEW k \in S
            PROVE  k + 1 \in S
        <4>1. CASE k + 1 <= Len(seqs)
          <5>1. k + 1 \in 1 .. Len(seqs) /\ (k + 1) - 1 = k /\ P[k] \in Seq(T)
            BY <2>1, <4>1
          <5>2. P[k + 1] = P[k] \o seqs[k + 1] /\ seqs[k + 1] \in Seq(T)
            BY <2>3, <2>5, <5>1
          <5>3. P[k + 1] \in Seq(T)
            BY <5>1, <5>2
          <5> QED
            BY <5>3
        <4> QED
          BY <4>1
      <3>3. S \in SUBSET Nat
        OBVIOUS
      <3> HIDE DEF S
      <3> QED
        BY <3>1, <3>2, <3>3, Induction
    <2>8. \A i \in 0 .. Len(seqs) : P[i] \in Seq(T)
      BY <2>1, <2>7
    <2>9. P \in [0 .. Len(seqs) -> Seq(T)]
      BY <2>6, <2>8
    <2> QED
      BY <2>2, <2>4, <2>5, <2>9 DEF IsFronts
  <1> QED
    BY <1>1, <1>2

\* Every front is a front of the whole.
LEMMA FrontOfWhole ==
    ASSUME NEW seqs \in Seq(Seq(Nat)), NEW P \in [0 .. Len(seqs) -> Seq(Nat)], IsFronts(P, seqs),
           NEW i \in 0 .. Len(seqs)
    PROVE  \E r \in Seq(Nat) : P[Len(seqs)] = P[i] \o r
  <1> DEFINE S == {d \in Nat : i + d <= Len(seqs) => \E r \in Seq(Nat) : P[i + d] = P[i] \o r}
  <1>1. Len(seqs) \in Nat /\ i \in Nat /\ \A k \in 1 .. Len(seqs) : seqs[k] \in Seq(Nat)
    BY ElementOfSeq
  <1>2. 0 \in S
    <2>1. P[i] \in Seq(Nat) /\ i + 0 = i
      OBVIOUS
    <2>2. P[i] = P[i] \o <<>> /\ <<>> \in Seq(Nat)
      BY <2>1, ConcatEmptySeq, EmptySeq
    <2> QED
      BY <2>1, <2>2
  <1>3. ASSUME NEW d \in S
        PROVE  d + 1 \in S
    <2>1. d + 1 \in Nat
      OBVIOUS
    <2>2. CASE i + (d + 1) <= Len(seqs)
      <3>1. i + d <= Len(seqs) /\ i + (d + 1) \in 1 .. Len(seqs) /\ (i + (d + 1)) - 1 = i + d
        BY <1>1, <2>2
      <3>2. PICK r \in Seq(Nat) : P[i + d] = P[i] \o r
        BY <3>1
      <3>3. P[i + (d + 1)] = P[i + d] \o seqs[i + (d + 1)]
        BY <3>1 DEF IsFronts
      <3> DEFINE s == seqs[i + (d + 1)]
      <3>4. s \in Seq(Nat) /\ P[i] \in Seq(Nat)
        BY <1>1, <3>1
      <3> HIDE DEF s
      <3>5. r \o s \in Seq(Nat)
        BY <3>4
      <3>6. (P[i] \o r) \o s = P[i] \o (r \o s)
        BY <3>4, Assoc
      <3>7. P[i + (d + 1)] = P[i] \o (r \o s)
        BY <3>2, <3>3, <3>6 DEF s
      <3>8. \E q \in Seq(Nat) : P[i + (d + 1)] = P[i] \o q
        BY <3>5, <3>7, Zenon
      <3> QED
        BY <2>1, <3>8
    <2>3. CASE ~(i + (d + 1) <= Len(seqs))
      BY <2>1, <2>3
    <2> QED
      BY <2>2, <2>3
  <1>4. S \in SUBSET Nat
    OBVIOUS
  <1>5. Len(seqs) - i \in Nat /\ i + (Len(seqs) - i) = Len(seqs)
    BY <1>1
  <1> HIDE DEF S
  <1>6. Len(seqs) - i \in S
    BY <1>2, <1>3, <1>4, <1>5, Induction
  <1>7. i + (Len(seqs) - i) <= Len(seqs) => \E r \in Seq(Nat) : P[i + (Len(seqs) - i)] = P[i] \o r
    BY <1>6 DEF S
  <1> QED
    BY <1>1, <1>5, <1>7, SMTT(30)

(***************************************************************************)
(* A payload is parsed back into the arguments that it was made of.        *)
(***************************************************************************)
FieldList(kinds, args) == [i \in 1 .. Len(kinds) |-> Field(kinds[i], args[i])]
Fields(kinds, args) == FlattenSeq(FieldList(kinds, args))

\* Fields are byte sequences, one for each argument.
LEMMA FieldListIs ==
    ASSUME NEW kinds \in Seq(FieldKinds), NEW args, AllFit(kinds, args)
    PROVE  /\ FieldList(kinds, args) \in Seq(Seq(Byte)) /\ FieldList(kinds, args) \in Seq(Seq(Nat))
           /\ Len(FieldList(kinds, args)) = Len(kinds)
           /\ \A i \in 1 .. Len(kinds) : FieldList(kinds, args)[i] = Field(kinds[i], args[i])
  <1>1. Len(kinds) \in Nat
    OBVIOUS
  <1>2. ASSUME NEW i \in 1 .. Len(kinds)
        PROVE  Field(kinds[i], args[i]) \in Seq(Byte) /\ Field(kinds[i], args[i]) \in Seq(Nat)
    <2>1. kinds[i] \in FieldKinds /\ Fits(kinds[i], args[i])
      BY ElementOfSeq DEF AllFit
    <2>2. Field(kinds[i], args[i]) \in Seq(Byte)
      BY <2>1, FieldReadBack, EmptySeq
    <2> QED
      BY <2>2, ByteSeq
  <1> DEFINE fs == FieldList(kinds, args)
  <1>3. fs = [i \in 1 .. Len(kinds) |-> Field(kinds[i], args[i])]
    BY DEF FieldList
  <1> HIDE DEF fs
  <1>4. fs \in Seq(Seq(Byte)) /\ Len(fs) = Len(kinds)
    BY <1>1, <1>2, <1>3, IsASeq
  <1>5. fs \in Seq(Seq(Nat))
    BY <1>1, <1>2, <1>3, IsASeq
  <1>6. \A i \in 1 .. Len(kinds) : fs[i] = Field(kinds[i], args[i])
    BY <1>3
  <1> QED
    BY <1>4, <1>5, <1>6 DEF fs

\* Parsing the fields of some arguments gives the arguments, integers cut to the width
\* of their place, and leaves nothing.
LEMMA RoundTrip ==
    ASSUME NEW kinds \in Seq(FieldKinds), NEW args, AllFit(kinds, args)
    PROVE  Fields(kinds, args) \in Seq(Byte) /\ Parse(Fields(kinds, args), kinds) = Parsed(<<>>, ArgsRead(kinds, args))
  <1> DEFINE n == Len(kinds)
             fs == FieldList(kinds, args)
             whole == Fields(kinds, args)
  <1>1. n \in Nat
    OBVIOUS
  <1>2. fs \in Seq(Seq(Byte)) /\ fs \in Seq(Seq(Nat)) /\ Len(fs) = n
        /\ \A i \in 1 .. n : fs[i] = Field(kinds[i], args[i])
    BY FieldListIs
  <1>3. whole = FlattenSeq(fs)
    BY DEF Fields
  <1>4. ArgsRead(kinds, args) = [i \in 1 .. n |-> AsRead(kinds[i], args[i])]
    BY DEF ArgsRead
  <1>5. \A i \in 1 .. n : kinds[i] \in FieldKinds /\ Fits(kinds[i], args[i])
    BY ElementOfSeq DEF AllFit
  <1>6. PICK f : /\ f[0] = Parsed(whole, <<>>)
                 /\ \A i \in 1 .. n : f[i] = ReadField(f[i - 1], kinds[i])
                 /\ Parse(whole, kinds) = f[n]
    BY <1>1, ParseIs
  <1> HIDE DEF n, fs, whole
  <1>7. whole \in Seq(Byte)
    <2>1. PICK P \in [0 .. Len(fs) -> Seq(Byte)] : FlattenSeq(fs) = P[Len(fs)]
      BY <1>2, Fronts
    <2> QED
      BY <1>1, <1>2, <1>3, <2>1
  <1>8. PICK P \in [0 .. n -> Seq(Nat)] : IsFronts(P, fs) /\ whole = P[n]
    BY <1>2, <1>3, Fronts
  <1> DEFINE got(k) == [i \in 1 .. k |-> AsRead(kinds[i], args[i])]
             Good(k) == \E rest \in Seq(Nat) : f[k] = Parsed(rest, got(k)) /\ whole = P[k] \o rest
             S == {k \in Nat : k <= n => Good(k)}
  <1>9. 0 \in S
    <2>1. got(0) = <<>>
      OBVIOUS
    <2>2. P[0] = <<>> /\ whole \in Seq(Nat)
      BY <1>7, <1>8, ByteSeq DEF IsFronts
    <2>3. whole = <<>> \o whole
      BY <2>2, ConcatEmptySeq
    <2>4. Good(0)
      BY <1>6, <2>1, <2>2, <2>3
    <2> QED
      BY <2>4
  <1>10. ASSUME NEW k \in S
         PROVE  k + 1 \in S
    <2> SUFFICES ASSUME k + 1 <= n
                 PROVE  Good(k + 1)
      <3> HIDE DEF Good
      <3> QED
        OBVIOUS
    <2>1. k + 1 \in 1 .. n /\ k + 1 \in 0 .. n /\ k \in 0 .. n /\ k <= n /\ (k + 1) - 1 = k
      BY <1>1
    <2>2. Good(k)
      BY <2>1
    <2>3. PICK rest \in Seq(Nat) : f[k] = Parsed(rest, got(k)) /\ whole = P[k] \o rest
      BY <2>2
    <2> DEFINE kind == kinds[k + 1]
               a == args[k + 1]
               bytes == Field(kind, a)
    <2>4. PICK r \in Seq(Nat) : P[n] = P[k + 1] \o r
      BY <1>2, <1>8, <2>1, FrontOfWhole
    <2>5. P[k + 1] = P[k] \o bytes
      BY <1>2, <1>8, <2>1 DEF IsFronts
    <2>6. kind \in FieldKinds /\ Fits(kind, a)
      BY <1>5, <2>1
    <2>7. bytes \in Seq(Nat)
      BY <2>6, FieldReadBack, EmptySeq, ByteSeq
    <2>8. f[k + 1] = ReadField(f[k], kind)
      BY <1>6, <2>1
    <2>9. Append(got(k), AsRead(kind, a)) = got(k + 1)
      BY <1>1, <2>1
    <2> HIDE DEF kind, a, bytes, got, S
    <2>10. P[k] \in Seq(Nat)
      BY <1>8, <2>1
    <2>11. bytes \o r \in Seq(Nat)
      BY <2>4, <2>7
    <2>12. (P[k] \o bytes) \o r = P[k] \o (bytes \o r)
      BY <2>4, <2>7, <2>10, Assoc
    <2>13. P[k] \o rest = P[k] \o (bytes \o r)
      BY <1>8, <2>3, <2>4, <2>5, <2>12
    <2>14. rest = bytes \o r
      BY <2>3, <2>10, <2>11, <2>13, LeftCancel
    <2>15. f[k + 1] = Parsed(r, Append(got(k), AsRead(kind, a)))
      BY <2>3, <2>4, <2>6, <2>8, <2>14, FieldReadBack DEF bytes
    <2>16. whole = P[k + 1] \o r
      BY <1>8, <2>4
    <2> QED
      BY <2>4, <2>9, <2>15, <2>16
  <1>11. S \in SUBSET Nat
    OBVIOUS
  <1>12. n \in S
    <2> HIDE DEF S
    <2> QED
      BY <1>1, <1>9, <1>10, <1>11, Induction
  <1>13. Good(n)
    <2> HIDE DEF Good
    <2> QED
      BY <1>1, <1>12
  <1>14. PICK rest \in Seq(Nat) : f[n] = Parsed(rest, got(n)) /\ whole = P[n] \o rest
    BY <1>13
  <1>15. rest = <<>>
    <2>1. P[n] \in Seq(Nat) /\ P[n] = P[n] \o rest
      BY <1>1, <1>8, <1>14
    <2>2. Len(P[n] \o rest) = Len(P[n]) + Len(rest)
      BY <1>14, <2>1, ConcatProperties
    <2>3. Len(rest) = 0
      BY <1>14, <2>1, <2>2, LenProperties
    <2> QED
      BY <1>14, <2>3, EmptySeq
  <1>16. got(n) = ArgsRead(kinds, args)
    BY <1>4
  <1> QED
    BY <1>6, <1>7, <1>14, <1>15, <1>16 DEF whole, n

(***************************************************************************)
(* Requests.                                                               *)
(***************************************************************************)
\* Flattening one sequence gives that sequence.
LEMMA FlattenOne ==
    ASSUME NEW s, Len(s) = 1
    PROVE  FlattenSeq(s) = s[1]
  <1>1. Len(s) \in Nat \ {0}
    OBVIOUS
  <1> QED
    BY <1>1, FlattenIs

\* Flattening two concatenates them,
LEMMA FlattenTwo ==
    ASSUME NEW s, Len(s) = 2
    PROVE  FlattenSeq(s) = s[1] \o s[2]
  <1>1. Len(s) \in Nat \ {0} /\ 2 \in 2 .. Len(s) /\ 2 - 1 = 1
    OBVIOUS
  <1>2. PICK f : /\ f[1] = s[1]
                 /\ \A i \in 2 .. Len(s) : f[i] = f[i - 1] \o s[i]
                 /\ FlattenSeq(s) = f[Len(s)]
    BY <1>1, FlattenIs
  <1>3. f[2] = f[1] \o s[2]
    BY <1>1, <1>2, Zenon
  <1> QED
    BY <1>2, <1>3

\* as it does three
LEMMA FlattenThree ==
    ASSUME NEW s, Len(s) = 3
    PROVE  FlattenSeq(s) = (s[1] \o s[2]) \o s[3]
  <1>1. Len(s) \in Nat \ {0} /\ 2 \in 2 .. Len(s) /\ 2 - 1 = 1 /\ 3 \in 2 .. Len(s) /\ 3 - 1 = 2
    OBVIOUS
  <1>2. PICK f : /\ f[1] = s[1]
                 /\ \A i \in 2 .. Len(s) : f[i] = f[i - 1] \o s[i]
                 /\ FlattenSeq(s) = f[Len(s)]
    BY <1>1, FlattenIs
  <1>3. f[2] = f[1] \o s[2]
    BY <1>1, <1>2, Zenon
  <1>4. f[3] = f[2] \o s[3]
    BY <1>1, <1>2, Zenon
  <1> QED
    BY <1>2, <1>3, <1>4

\* and four.
LEMMA FlattenFour ==
    ASSUME NEW s, Len(s) = 4
    PROVE  FlattenSeq(s) = ((s[1] \o s[2]) \o s[3]) \o s[4]
  <1>1. Len(s) \in Nat \ {0} /\ 2 \in 2 .. Len(s) /\ 2 - 1 = 1 /\ 3 \in 2 .. Len(s) /\ 3 - 1 = 2 /\ 4 \in 2 .. Len(s) /\ 4 - 1 = 3
    OBVIOUS
  <1>2. PICK f : /\ f[1] = s[1]
                 /\ \A i \in 2 .. Len(s) : f[i] = f[i - 1] \o s[i]
                 /\ FlattenSeq(s) = f[Len(s)]
    BY <1>1, FlattenIs
  <1>3. f[2] = f[1] \o s[2]
    BY <1>1, <1>2, Zenon
  <1>4. f[3] = f[2] \o s[3]
    BY <1>1, <1>2, Zenon
  <1>5. f[4] = f[3] \o s[4]
    BY <1>1, <1>2, Zenon
  <1> QED
    BY <1>2, <1>3, <1>4, <1>5

\* The fields of one argument,
LEMMA FieldsOne ==
    ASSUME NEW a, NEW ks, Len(ks) = 1
    PROVE  Fields(ks, a) = Field(ks[1], a[1])
  <1> DEFINE s == FieldList(ks, a)
  <1>1. Len(s) = 1 /\ s[1] = Field(ks[1], a[1])
    BY DEF FieldList
  <1> HIDE DEF s
  <1>2. FlattenSeq(s) = s[1]
    BY <1>1, FlattenOne
  <1> QED
    BY <1>1, <1>2 DEF s, Fields

\* of two,
LEMMA FieldsTwo ==
    ASSUME NEW a, NEW ks, Len(ks) = 2
    PROVE  Fields(ks, a) = Field(ks[1], a[1]) \o Field(ks[2], a[2])
  <1> DEFINE s == FieldList(ks, a)
  <1>1. Len(s) = 2 /\ s[1] = Field(ks[1], a[1]) /\ s[2] = Field(ks[2], a[2])
    BY DEF FieldList
  <1> HIDE DEF s
  <1>2. FlattenSeq(s) = s[1] \o s[2]
    BY <1>1, FlattenTwo
  <1> QED
    BY <1>1, <1>2 DEF s, Fields

\* three
LEMMA FieldsThree ==
    ASSUME NEW a, NEW ks, Len(ks) = 3
    PROVE  Fields(ks, a) = (Field(ks[1], a[1]) \o Field(ks[2], a[2])) \o Field(ks[3], a[3])
  <1> DEFINE s == FieldList(ks, a)
  <1>1. Len(s) = 3 /\ s[1] = Field(ks[1], a[1]) /\ s[2] = Field(ks[2], a[2]) /\ s[3] = Field(ks[3], a[3])
    BY DEF FieldList
  <1> HIDE DEF s
  <1>2. FlattenSeq(s) = (s[1] \o s[2]) \o s[3]
    BY <1>1, FlattenThree
  <1> QED
    BY <1>1, <1>2 DEF s, Fields

\* and four.
LEMMA FieldsFour ==
    ASSUME NEW a, NEW ks, Len(ks) = 4
    PROVE  Fields(ks, a) = ((Field(ks[1], a[1]) \o Field(ks[2], a[2])) \o Field(ks[3], a[3])) \o Field(ks[4], a[4])
  <1> DEFINE s == FieldList(ks, a)
  <1>1. Len(s) = 4 /\ s[1] = Field(ks[1], a[1]) /\ s[2] = Field(ks[2], a[2]) /\ s[3] = Field(ks[3], a[3]) /\ s[4] = Field(ks[4], a[4])
    BY DEF FieldList
  <1> HIDE DEF s
  <1>2. FlattenSeq(s) = ((s[1] \o s[2]) \o s[3]) \o s[4]
    BY <1>1, FlattenFour
  <1> QED
    BY <1>1, <1>2 DEF s, Fields

\* The fields' bytes.
LEMMA FieldIs ==
    ASSUME NEW a
    PROVE  /\ Field("str", a) = Str(a) /\ Field("blob", a) = Blob(a)
           /\ Field("u32", a) = PutUint32(a) /\ Field("u64", a) = PutUint64(a)
           /\ Field("i64", a) = PutUint64(a)
  BY DEF Field

\* The fields of the requests with a fixed number of arguments, and of a stream message.
LEMMA Shapes ==
    ASSUME NEW a
    PROVE  /\ Fields(<<"str">>, a) = Str(a[1])
           /\ Fields(<<"str", "blob">>, a) = Str(a[1]) \o Blob(a[2])
           /\ Fields(<<"str", "str">>, a) = Str(a[1]) \o Str(a[2])
           /\ Fields(<<"str", "u32", "str", "blob">>, a) = ((Str(a[1]) \o PutUint32(a[2])) \o Str(a[3])) \o Blob(a[4])
           /\ Fields(<<"str", "str", "str", "u32">>, a) = ((Str(a[1]) \o Str(a[2])) \o Str(a[3])) \o PutUint32(a[4])
           /\ Fields(<<"str", "str", "u32", "i64">>, a) = ((Str(a[1]) \o Str(a[2])) \o PutUint32(a[3])) \o PutUint64(a[4])
           /\ Fields(<<"str", "u32", "i64">>, a) = (Str(a[1]) \o PutUint32(a[2])) \o PutUint64(a[3])
           /\ Fields(<<"str", "str", "str">>, a) = (Str(a[1]) \o Str(a[2])) \o Str(a[3])
           /\ Fields(<<"u64", "i64", "str", "blob">>, a) = ((PutUint64(a[1]) \o PutUint64(a[2])) \o Str(a[3])) \o Blob(a[4])
  <1>1. Fields(<<"str">>, a) = Str(a[1])
    <2> DEFINE ks == <<"str">>
    <2>1. Len(ks) = 1 /\ ks[1] = "str"
      OBVIOUS
    <2> HIDE DEF ks
    <2>2. Fields(ks, a) = Str(a[1])
      BY <2>1, FieldsOne, FieldIs
    <2> QED
      BY <2>2 DEF ks
  <1>2. Fields(<<"str", "blob">>, a) = Str(a[1]) \o Blob(a[2])
    <2> DEFINE ks == <<"str", "blob">>
    <2>1. Len(ks) = 2 /\ ks[1] = "str" /\ ks[2] = "blob"
      OBVIOUS
    <2> HIDE DEF ks
    <2>2. Fields(ks, a) = Str(a[1]) \o Blob(a[2])
      BY <2>1, FieldsTwo, FieldIs
    <2> QED
      BY <2>2 DEF ks
  <1>3. Fields(<<"str", "str">>, a) = Str(a[1]) \o Str(a[2])
    <2> DEFINE ks == <<"str", "str">>
    <2>1. Len(ks) = 2 /\ ks[1] = "str" /\ ks[2] = "str"
      OBVIOUS
    <2> HIDE DEF ks
    <2>2. Fields(ks, a) = Str(a[1]) \o Str(a[2])
      BY <2>1, FieldsTwo, FieldIs
    <2> QED
      BY <2>2 DEF ks
  <1>4. Fields(<<"str", "u32", "str", "blob">>, a) = ((Str(a[1]) \o PutUint32(a[2])) \o Str(a[3])) \o Blob(a[4])
    <2> DEFINE ks == <<"str", "u32", "str", "blob">>
    <2>1. Len(ks) = 4 /\ ks[1] = "str" /\ ks[2] = "u32" /\ ks[3] = "str" /\ ks[4] = "blob"
      OBVIOUS
    <2> HIDE DEF ks
    <2>2. Fields(ks, a) = ((Str(a[1]) \o PutUint32(a[2])) \o Str(a[3])) \o Blob(a[4])
      BY <2>1, FieldsFour, FieldIs, ZenonT(60)
    <2> QED
      BY <2>2 DEF ks
  <1>5. Fields(<<"str", "str", "str", "u32">>, a) = ((Str(a[1]) \o Str(a[2])) \o Str(a[3])) \o PutUint32(a[4])
    <2> DEFINE ks == <<"str", "str", "str", "u32">>
    <2>1. Len(ks) = 4 /\ ks[1] = "str" /\ ks[2] = "str" /\ ks[3] = "str" /\ ks[4] = "u32"
      OBVIOUS
    <2> HIDE DEF ks
    <2>2. Fields(ks, a) = ((Str(a[1]) \o Str(a[2])) \o Str(a[3])) \o PutUint32(a[4])
      BY <2>1, FieldsFour, FieldIs, ZenonT(60)
    <2> QED
      BY <2>2 DEF ks
  <1>6. Fields(<<"str", "str", "u32", "i64">>, a) = ((Str(a[1]) \o Str(a[2])) \o PutUint32(a[3])) \o PutUint64(a[4])
    <2> DEFINE ks == <<"str", "str", "u32", "i64">>
    <2>1. Len(ks) = 4 /\ ks[1] = "str" /\ ks[2] = "str" /\ ks[3] = "u32" /\ ks[4] = "i64"
      OBVIOUS
    <2> HIDE DEF ks
    <2>2. Fields(ks, a) = ((Str(a[1]) \o Str(a[2])) \o PutUint32(a[3])) \o PutUint64(a[4])
      BY <2>1, FieldsFour, FieldIs, ZenonT(60)
    <2> QED
      BY <2>2 DEF ks
  <1>7. Fields(<<"str", "u32", "i64">>, a) = (Str(a[1]) \o PutUint32(a[2])) \o PutUint64(a[3])
    <2> DEFINE ks == <<"str", "u32", "i64">>
    <2>1. Len(ks) = 3 /\ ks[1] = "str" /\ ks[2] = "u32" /\ ks[3] = "i64"
      OBVIOUS
    <2> HIDE DEF ks
    <2>2. Fields(ks, a) = (Str(a[1]) \o PutUint32(a[2])) \o PutUint64(a[3])
      BY <2>1, FieldsThree, FieldIs
    <2> QED
      BY <2>2 DEF ks
  <1>8. Fields(<<"str", "str", "str">>, a) = (Str(a[1]) \o Str(a[2])) \o Str(a[3])
    <2> DEFINE ks == <<"str", "str", "str">>
    <2>1. Len(ks) = 3 /\ ks[1] = "str" /\ ks[2] = "str" /\ ks[3] = "str"
      OBVIOUS
    <2> HIDE DEF ks
    <2>2. Fields(ks, a) = (Str(a[1]) \o Str(a[2])) \o Str(a[3])
      BY <2>1, FieldsThree, FieldIs
    <2> QED
      BY <2>2 DEF ks
  <1>9. Fields(<<"u64", "i64", "str", "blob">>, a) = ((PutUint64(a[1]) \o PutUint64(a[2])) \o Str(a[3])) \o Blob(a[4])
    <2> DEFINE ks == <<"u64", "i64", "str", "blob">>
    <2>1. Len(ks) = 4 /\ ks[1] = "u64" /\ ks[2] = "i64" /\ ks[3] = "str" /\ ks[4] = "blob"
      OBVIOUS
    <2> HIDE DEF ks
    <2>2. Fields(ks, a) = ((PutUint64(a[1]) \o PutUint64(a[2])) \o Str(a[3])) \o Blob(a[4])
      BY <2>1, FieldsFour, FieldIs, ZenonT(60)
    <2> QED
      BY <2>2 DEF ks
  <1> QED
    BY <1>1, <1>2, <1>3, <1>4, <1>5, <1>6, <1>7, <1>8, <1>9

\* The opcodes.
LEMMA OpIs ==
    /\ Op.Set = 1 /\ Op.Get = 2 /\ Op.Del = 3 /\ Op.Exists = 4 /\ Op.Incr = 5 /\ Op.Decr = 6
    /\ Op.MSet = 16 /\ Op.MGet = 17 /\ Op.MDel = 18
    /\ Op.QPush = 32 /\ Op.QPop = 33 /\ Op.QPeek = 34 /\ Op.QLen = 35 /\ Op.QClear = 36
    /\ Op.SPublish = 48 /\ Op.SConsume = 49 /\ Op.SCommit = 50 /\ Op.SCreateTopic = 51
    /\ Op.SSubscribe = 52 /\ Op.SUnsubscribe = 53 /\ Op.SPublishBatch = 55
    /\ Op.DocInsert = 64 /\ Op.DocFind = 65 /\ Op.DocUpdate = 66 /\ Op.DocDelete = 67 /\ Op.DocIndex = 68
  BY DEF Op

OpNumbers == {1, 2, 3, 4, 5, 6, 16, 17, 18, 32, 33, 34, 35, 36, 48, 49, 50, 51, 52, 53, 55, 64, 65, 66, 67, 68}

\* There are no others.
LEMMA OpsAre ==
    {Op[o] : o \in DOMAIN Op} = OpNumbers
  BY DEF Op, OpNumbers

\* kinds, count times over, is a sequence of kinds.
LEMMA RepeatIs ==
    ASSUME NEW kinds \in Seq(FieldKinds), Len(kinds) > 0, NEW count \in Nat
    PROVE  /\ Repeat(kinds, count) \in Seq(FieldKinds) /\ Len(Repeat(kinds, count)) = count * Len(kinds)
           /\ \A i \in 1 .. count * Len(kinds) : Repeat(kinds, count)[i] = kinds[1 + ((i - 1) % Len(kinds))]
  <1> DEFINE w == Len(kinds)
             m == count * w
  <1>1. w \in Nat \ {0} /\ m \in Nat
    <2>1. w \in Nat \ {0}
      OBVIOUS
    <2>2. count * w + 0 \in Nat
      BY <2>1, NatRing
    <2> QED
      BY <2>1, <2>2
  <1>2. Repeat(kinds, count) = [i \in 1 .. m |-> kinds[1 + ((i - 1) % w)]]
    BY DEF Repeat
  <1> HIDE DEF m
  <1>3. ASSUME NEW i \in 1 .. m
        PROVE  kinds[1 + ((i - 1) % w)] \in FieldKinds
    <2>1. i - 1 \in Int
      BY <1>1
    <2>2. (i - 1) % w \in 0 .. w - 1
      BY <1>1, <2>1, DivMod
    <2>3. 1 + ((i - 1) % w) \in 1 .. Len(kinds)
      BY <1>1, <2>2
    <2> QED
      BY <2>3, ElementOfSeq
  <1>4. Repeat(kinds, count) \in Seq(FieldKinds) /\ Len(Repeat(kinds, count)) = m
    BY <1>1, <1>2, <1>3, IsASeq
  <1> QED
    BY <1>2, <1>4 DEF m

\* The kinds of the arguments of MSET, of MGET and MDEL, of a multi-value answer, and of
\* the messages of SPUBLISHBATCH.
LEMMA Repeats ==
    ASSUME NEW count \in Nat
    PROVE  /\ Len(Repeat(<<"str", "blob">>, count)) = count * 2
           /\ \A i \in 1 .. count * 2 : Repeat(<<"str", "blob">>, count)[i] = IF i % 2 = 1 THEN "str" ELSE "blob"
           /\ Repeat(<<"str">>, count) = [i \in 1 .. count |-> "str"]
           /\ Repeat(<<"blob">>, count) = [i \in 1 .. count |-> "blob"]
           /\ Len(Repeat(<<"u32", "str", "blob">>, count)) = count * 3
           /\ \A i \in 1 .. count * 3 : Repeat(<<"u32", "str", "blob">>, count)[i] =
                  IF i % 3 = 1 THEN "u32" ELSE IF i % 3 = 2 THEN "str" ELSE "blob"
  <1>1. /\ Repeat(<<"str", "blob">>, count) = [i \in 1 .. count * 2 |-> <<"str", "blob">>[1 + ((i - 1) % 2)]]
        /\ Repeat(<<"str">>, count) = [i \in 1 .. count * 1 |-> <<"str">>[1 + ((i - 1) % 1)]]
        /\ Repeat(<<"blob">>, count) = [i \in 1 .. count * 1 |-> <<"blob">>[1 + ((i - 1) % 1)]]
        /\ Repeat(<<"u32", "str", "blob">>, count) =
              [i \in 1 .. count * 3 |-> <<"u32", "str", "blob">>[1 + ((i - 1) % 3)]]
    BY DEF Repeat
  <1>2. \A i \in 1 .. count * 2 : <<"str", "blob">>[1 + ((i - 1) % 2)] = IF i % 2 = 1 THEN "str" ELSE "blob"
    <2> SUFFICES ASSUME NEW i \in 1 .. count * 2
                 PROVE  <<"str", "blob">>[1 + ((i - 1) % 2)] = IF i % 2 = 1 THEN "str" ELSE "blob"
      OBVIOUS
    <2>1. (i % 2 = 1 /\ (i - 1) % 2 = 0) \/ (i % 2 # 1 /\ (i - 1) % 2 = 1)
      OBVIOUS
    <2> QED
      BY <2>1
  <1>3. \A i \in 1 .. count * 1 : (i - 1) % 1 = 0
    OBVIOUS
  <1>4. \A i \in 1 .. count * 3 : <<"u32", "str", "blob">>[1 + ((i - 1) % 3)] =
                  IF i % 3 = 1 THEN "u32" ELSE IF i % 3 = 2 THEN "str" ELSE "blob"
    <2> SUFFICES ASSUME NEW i \in 1 .. count * 3
                 PROVE  <<"u32", "str", "blob">>[1 + ((i - 1) % 3)] =
                            IF i % 3 = 1 THEN "u32" ELSE IF i % 3 = 2 THEN "str" ELSE "blob"
      OBVIOUS
    <2>1. \/ i % 3 = 1 /\ (i - 1) % 3 = 0
          \/ i % 3 = 2 /\ (i - 1) % 3 = 1
          \/ i % 3 = 0 /\ (i - 1) % 3 = 2
      OBVIOUS
    <2> QED
      BY <2>1
  <1>5. count * 1 = count /\ count * 2 \in Nat /\ count * 3 \in Nat
    OBVIOUS
  <1>6. /\ Len(Repeat(<<"str", "blob">>, count)) = count * 2
        /\ \A i \in 1 .. count * 2 : Repeat(<<"str", "blob">>, count)[i] = IF i % 2 = 1 THEN "str" ELSE "blob"
    <2> DEFINE r == Repeat(<<"str", "blob">>, count)
    <2>1. r = [i \in 1 .. count * 2 |-> IF i % 2 = 1 THEN "str" ELSE "blob"]
      BY <1>1, <1>2
    <2> HIDE DEF r
    <2>2. Len(r) = count * 2
      BY <1>5, <2>1
    <2>3. \A i \in 1 .. count * 2 : r[i] = IF i % 2 = 1 THEN "str" ELSE "blob"
      BY <2>1
    <2> QED
      BY <2>2, <2>3 DEF r
  <1>7. Repeat(<<"str">>, count) = [i \in 1 .. count |-> "str"] /\ Repeat(<<"blob">>, count) = [i \in 1 .. count |-> "blob"]
    BY <1>1, <1>3, <1>5
  <1>8. /\ Len(Repeat(<<"u32", "str", "blob">>, count)) = count * 3
        /\ \A i \in 1 .. count * 3 : Repeat(<<"u32", "str", "blob">>, count)[i] =
                  IF i % 3 = 1 THEN "u32" ELSE IF i % 3 = 2 THEN "str" ELSE "blob"
    BY <1>1, <1>4, <1>5
  <1> QED
    BY <1>6, <1>7, <1>8

\* The kinds of a call's arguments.
LEMMA KindsAre ==
    ASSUME NEW op, NEW count \in Nat
    PROVE  /\ op \in SingleKeyOps => Kinds(op, count) = <<"str">>
           /\ op \in BodyOps => Kinds(op, count) = <<"str", "blob">>
           /\ op = Op.DocIndex => Kinds(op, count) = <<"str", "str">>
           /\ op = Op.MSet => Kinds(op, count) = Repeat(<<"str", "blob">>, count \div 2)
           /\ op \in {Op.MGet, Op.MDel} => Kinds(op, count) = Repeat(<<"str">>, count)
           /\ op = Op.SPublish => Kinds(op, count) = <<"str", "u32", "str", "blob">>
           /\ op = Op.SConsume => Kinds(op, count) = <<"str", "str", "str", "u32">>
           /\ op = Op.SCommit => Kinds(op, count) = <<"str", "str", "u32", "i64">>
           /\ op = Op.SCreateTopic => Kinds(op, count) = <<"str", "u32", "i64">>
           /\ op \in {Op.SSubscribe, Op.SUnsubscribe} => Kinds(op, count) = <<"str", "str", "str">>
           /\ op = Op.SPublishBatch => Kinds(op, count) = <<"str">> \o Repeat(<<"u32", "str", "blob">>, count \div 3)
  <1>1. ASSUME op \in SingleKeyOps
        PROVE  Kinds(op, count) = <<"str">>
    <2>1. op \in {2, 3, 4, 5, 6, 33, 34, 35, 36}
      BY <1>1, OpIs DEF SingleKeyOps, BodyOps
    <2>2. /\ op \notin BodyOps /\ op # Op.DocIndex /\ op # Op.MSet /\ op \notin {Op.MGet, Op.MDel} /\ op # Op.SPublish
          /\ op # Op.SConsume /\ op # Op.SCommit /\ op # Op.SCreateTopic /\ op \notin {Op.SSubscribe, Op.SUnsubscribe} /\ op # Op.SPublishBatch
      BY <2>1, OpIs DEF SingleKeyOps, BodyOps
    <2> QED
      BY <1>1, <2>2 DEF Kinds
  <1>2. ASSUME op \in BodyOps
        PROVE  Kinds(op, count) = <<"str", "blob">>
    <2>1. op \in {1, 32, 64, 65, 66, 67}
      BY <1>2, OpIs DEF SingleKeyOps, BodyOps
    <2>2. /\ op \notin SingleKeyOps /\ op # Op.DocIndex /\ op # Op.MSet /\ op \notin {Op.MGet, Op.MDel} /\ op # Op.SPublish
          /\ op # Op.SConsume /\ op # Op.SCommit /\ op # Op.SCreateTopic /\ op \notin {Op.SSubscribe, Op.SUnsubscribe} /\ op # Op.SPublishBatch
      BY <2>1, OpIs DEF SingleKeyOps, BodyOps
    <2> QED
      BY <1>2, <2>2 DEF Kinds
  <1>3. op = Op.DocIndex => Kinds(op, count) = <<"str", "str">>
    BY OpIs DEF Kinds, SingleKeyOps, BodyOps
  <1>4. op = Op.MSet => Kinds(op, count) = Repeat(<<"str", "blob">>, count \div 2)
    BY OpIs DEF Kinds, SingleKeyOps, BodyOps
  <1>5. op \in {Op.MGet, Op.MDel} => Kinds(op, count) = Repeat(<<"str">>, count)
    BY OpIs, SMTT(30) DEF Kinds, SingleKeyOps, BodyOps
  <1>6. op = Op.SPublish => Kinds(op, count) = <<"str", "u32", "str", "blob">>
    BY OpIs DEF Kinds, SingleKeyOps, BodyOps
  <1>7. op = Op.SConsume => Kinds(op, count) = <<"str", "str", "str", "u32">>
    BY OpIs DEF Kinds, SingleKeyOps, BodyOps
  <1>8. op = Op.SCommit => Kinds(op, count) = <<"str", "str", "u32", "i64">>
    BY OpIs DEF Kinds, SingleKeyOps, BodyOps
  <1>9. op = Op.SCreateTopic => Kinds(op, count) = <<"str", "u32", "i64">>
    BY OpIs DEF Kinds, SingleKeyOps, BodyOps
  <1>10. ASSUME op \in {Op.SSubscribe, Op.SUnsubscribe}
        PROVE  Kinds(op, count) = <<"str", "str", "str">>
    <2>1. op \in {52, 53}
      BY <1>10, OpIs DEF SingleKeyOps, BodyOps
    <2> QED
      BY <2>1, OpIs, SMTT(30) DEF Kinds, SingleKeyOps, BodyOps
  <1>11. op = Op.SPublishBatch => Kinds(op, count) = <<"str">> \o Repeat(<<"u32", "str", "blob">>, count \div 3)
    BY OpIs, SMTT(30) DEF Kinds, SingleKeyOps, BodyOps
  <1> QED
    BY <1>1, <1>2, <1>3, <1>4, <1>5, <1>6, <1>7, <1>8, <1>9, <1>10, <1>11

OpCases(op) ==
    \/ op \in SingleKeyOps
    \/ op \in BodyOps
    \/ op = Op.DocIndex
    \/ op = Op.MSet
    \/ op \in {Op.MGet, Op.MDel}
    \/ op = Op.SPublish
    \/ op = Op.SConsume
    \/ op = Op.SCommit
    \/ op = Op.SCreateTopic
    \/ op \in {Op.SSubscribe, Op.SUnsubscribe}
    \/ op = Op.SPublishBatch

\* Every opcode is one of these.
LEMMA OpsInCases ==
    ASSUME NEW op \in OpNumbers
    PROVE  OpCases(op)
  BY OpIs DEF OpNumbers, OpCases, SingleKeyOps, BodyOps

\* What the fields of a request make its payload; batches are preceded by their count.
Counted == {Op.MSet, Op.MGet, Op.MDel}
Count(c) == IF c.op = Op.MSet THEN Len(c.args) \div 2 ELSE Len(c.args)
FieldBytes(c) == Fields(Kinds(c.op, Len(c.args)), c.args)
Payload(c) == IF c.op \in Counted THEN PutUint16(Count(c)) \o FieldBytes(c) ELSE FieldBytes(c)

\* A call's arguments fit their kinds.
LEMMA CallIs ==
    ASSUME NEW c \in Calls
    PROVE  /\ c.op \in OpNumbers /\ Len(c.args) \in Nat
           /\ Kinds(c.op, Len(c.args)) \in Seq(FieldKinds)
           /\ AllFit(Kinds(c.op, Len(c.args)), c.args)
  <1>1. c.op \in OpNumbers /\ Len(c.args) \in Nat /\ AllFit(Kinds(c.op, Len(c.args)), c.args)
    BY CallsFit, OpsAre
  <1> DEFINE op == c.op
             n == Len(c.args)
  <1> HIDE DEF op, n
  <1>2. op \in OpNumbers /\ n \in Nat
    BY <1>1 DEF op, n
  <1>3. /\ <<"str">> \in Seq(FieldKinds) /\ <<"str", "blob">> \in Seq(FieldKinds)
        /\ <<"str", "str">> \in Seq(FieldKinds) /\ <<"str", "u32", "str", "blob">> \in Seq(FieldKinds)
        /\ <<"str", "str", "str", "u32">> \in Seq(FieldKinds) /\ <<"str", "str", "u32", "i64">> \in Seq(FieldKinds)
        /\ <<"str", "u32", "i64">> \in Seq(FieldKinds) /\ <<"str", "str", "str">> \in Seq(FieldKinds)
        /\ <<"u32", "str", "blob">> \in Seq(FieldKinds)
    BY DEF FieldKinds
  <1>4. /\ Repeat(<<"str", "blob">>, n \div 2) \in Seq(FieldKinds)
        /\ Repeat(<<"str">>, n) \in Seq(FieldKinds)
        /\ Repeat(<<"u32", "str", "blob">>, n \div 3) \in Seq(FieldKinds)
    <2>1. n \div 2 \in Nat /\ n \div 3 \in Nat
      BY <1>2
    <2>2. Len(<<"str", "blob">>) > 0 /\ Len(<<"str">>) > 0 /\ Len(<<"u32", "str", "blob">>) > 0
      OBVIOUS
    <2> QED
      BY <1>2, <1>3, <2>1, <2>2, RepeatIs
  <1>5. <<"str">> \o Repeat(<<"u32", "str", "blob">>, n \div 3) \in Seq(FieldKinds)
    BY <1>3, <1>4
  <1>6. OpCases(op)
    BY <1>2, OpsInCases
  <1>7. Kinds(op, n) \in Seq(FieldKinds)
    BY <1>2, <1>3, <1>4, <1>5, <1>6, KindsAre, Zenon DEF OpCases
  <1> QED
    BY <1>1, <1>7 DEF op, n

\* Which encoder a call uses.
LEMMA EncoderIs ==
    ASSUME NEW c
    PROVE  /\ c.op \in SingleKeyOps => Encode(c) = Frame(c.op, Str(c.args[1]))
           /\ c.op \in BodyOps => Encode(c) = Frame(c.op, Str(c.args[1]) \o Blob(c.args[2]))
           /\ c.op = Op.DocIndex => Encode(c) = Frame(c.op, Str(c.args[1]) \o Str(c.args[2]))
           /\ c.op = Op.MSet => Encode(c) = EncodeMSetRequest(c.args)
           /\ c.op = Op.MGet => Encode(c) = EncodeMGetRequest(c.args)
           /\ c.op = Op.MDel => Encode(c) = EncodeMDeleteRequest(c.args)
           /\ c.op = Op.SPublish =>
                Encode(c) = Frame(c.op, Str(c.args[1]) \o PutUint32(c.args[2]) \o Str(c.args[3]) \o Blob(c.args[4]))
           /\ c.op = Op.SConsume =>
                Encode(c) = Frame(c.op, Str(c.args[1]) \o Str(c.args[2]) \o Str(c.args[3]) \o PutUint32(c.args[4]))
           /\ c.op = Op.SCommit =>
                Encode(c) = Frame(c.op, Str(c.args[1]) \o Str(c.args[2]) \o PutUint32(c.args[3]) \o PutUint64(c.args[4]))
           /\ c.op = Op.SCreateTopic =>
                Encode(c) = Frame(c.op, Str(c.args[1]) \o PutUint32(c.args[2]) \o PutUint64(c.args[3]))
           /\ c.op \in {Op.SSubscribe, Op.SUnsubscribe} =>
                Encode(c) = Frame(c.op, Str(c.args[1]) \o Str(c.args[2]) \o Str(c.args[3]))
           /\ c.op = Op.SPublishBatch => Encode(c) = PublishBatch(c.args)
  <1> DEFINE a == c.args
  <1> HIDE DEF a
  <1>1. /\ c.op \in {1, 2, 3, 4, 5, 6, 16, 17, 18} => Encode(c) = KVClient(c.op, a)
        /\ c.op \in {32, 33, 34, 35, 36} => Encode(c) = QueueClient(c.op, a)
        /\ c.op \in {48, 49, 50, 51, 52, 53} => Encode(c) = StreamClient(c.op, a)
        /\ c.op = 55 => Encode(c) = PublishBatch(a)
        /\ c.op \in {64, 65, 66, 67, 68} => Encode(c) = DBClient(c.op, a)
    BY OpIs DEF Encode, a
  <1> DEFINE op == c.op
  <1> HIDE DEF op
  <1>2. /\ op = 1 => KVClient(op, a) = Frame(op, Str(a[1]) \o Blob(a[2]))
        /\ op \in {2, 3, 4, 5, 6} => KVClient(op, a) = Frame(op, Str(a[1]))
        /\ op = 16 => KVClient(op, a) = EncodeMSetRequest(a)
        /\ op = 17 => KVClient(op, a) = EncodeMGetRequest(a)
        /\ op = 18 => KVClient(op, a) = EncodeMDeleteRequest(a)
    BY OpIs DEF KVClient, EncodeSetRequest, EncodeGetRequest, encodeSimpleRequest
  <1>3. /\ op = 32 => QueueClient(op, a) = Frame(op, Str(a[1]) \o Blob(a[2]))
        /\ op \in {33, 34, 35, 36} => QueueClient(op, a) = Frame(op, Str(a[1]))
    BY OpIs DEF QueueClient, EncodeQPushRequest, encodeSimpleRequest
  <1>4. /\ op = 48 => StreamClient(op, a) = Frame(op, Str(a[1]) \o PutUint32(a[2]) \o Str(a[3]) \o Blob(a[4]))
        /\ op = 49 => StreamClient(op, a) = Frame(op, Str(a[1]) \o Str(a[2]) \o Str(a[3]) \o PutUint32(a[4]))
        /\ op = 50 => StreamClient(op, a) = Frame(op, Str(a[1]) \o Str(a[2]) \o PutUint32(a[3]) \o PutUint64(a[4]))
        /\ op = 51 => StreamClient(op, a) = Frame(op, Str(a[1]) \o PutUint32(a[2]) \o PutUint64(a[3]))
        /\ op \in {52, 53} => StreamClient(op, a) = Frame(op, Str(a[1]) \o Str(a[2]) \o Str(a[3]))
    BY OpIs DEF StreamClient, EncodeSPublishRequest, EncodeSConsumeRequest, EncodeSCommitRequest,
                EncodeSCreateTopicRequest, EncodeSSubscribeRequest, EncodeSUnsubscribeRequest
  <1>5. /\ op \in {64, 65, 66, 67} => DBClient(op, a) = Frame(op, Str(a[1]) \o Blob(a[2]))
        /\ op = 68 => DBClient(op, a) = Frame(op, Str(a[1]) \o Str(a[2]))
    BY OpIs DEF DBClient, EncodeDocInsertRequest, EncodeDocFindRequest, EncodeDocUpdateRequest,
                EncodeDocDeleteRequest, EncodeDocIndexRequest
  <1>6. /\ op \in SingleKeyOps => op \in {2, 3, 4, 5, 6, 33, 34, 35, 36}
        /\ op \in BodyOps => op \in {1, 32, 64, 65, 66, 67}
    BY OpIs DEF SingleKeyOps, BodyOps
  <1>7. op \in SingleKeyOps => Encode(c) = Frame(op, Str(a[1]))
    BY <1>1, <1>2, <1>3, <1>6 DEF op
  <1>8. op \in BodyOps => Encode(c) = Frame(op, Str(a[1]) \o Blob(a[2]))
    BY <1>1, <1>2, <1>3, <1>5, <1>6 DEF op
  <1>9. /\ op = Op.DocIndex => Encode(c) = Frame(op, Str(a[1]) \o Str(a[2]))
        /\ op = Op.MSet => Encode(c) = EncodeMSetRequest(a)
        /\ op = Op.MGet => Encode(c) = EncodeMGetRequest(a)
        /\ op = Op.MDel => Encode(c) = EncodeMDeleteRequest(a)
        /\ op = Op.SPublishBatch => Encode(c) = PublishBatch(a)
    BY <1>1, <1>2, <1>5, OpIs DEF op
  <1>10. /\ op = Op.SPublish => Encode(c) = Frame(op, Str(a[1]) \o PutUint32(a[2]) \o Str(a[3]) \o Blob(a[4]))
         /\ op = Op.SConsume => Encode(c) = Frame(op, Str(a[1]) \o Str(a[2]) \o Str(a[3]) \o PutUint32(a[4]))
         /\ op = Op.SCommit => Encode(c) = Frame(op, Str(a[1]) \o Str(a[2]) \o PutUint32(a[3]) \o PutUint64(a[4]))
         /\ op = Op.SCreateTopic => Encode(c) = Frame(op, Str(a[1]) \o PutUint32(a[2]) \o PutUint64(a[3]))
         /\ op \in {Op.SSubscribe, Op.SUnsubscribe} => Encode(c) = Frame(op, Str(a[1]) \o Str(a[2]) \o Str(a[3]))
    BY <1>1, <1>4, OpIs DEF op
  <1> QED
    BY <1>7, <1>8, <1>9, <1>10 DEF op, a

\* Every encoder but SPUBLISHBATCH's puts the fields of its arguments into a frame.
LEMMA EncodeIs ==
    ASSUME NEW c \in Calls, c.op # Op.SPublishBatch
    PROVE  Encode(c) = Frame(c.op, Payload(c))
  <1> DEFINE op == c.op
             a == c.args
             n == Len(a)
             kinds == Kinds(op, n)
  <1>1. op \in OpNumbers /\ n \in Nat /\ AllFit(kinds, a)
    BY CallIs
  <1>2. op \in Counted => Payload(c) = PutUint16(Count(c)) \o Fields(kinds, a)
    BY DEF Payload, FieldBytes
  <1>3. op \notin Counted => Payload(c) = Fields(kinds, a)
    BY DEF Payload, FieldBytes
  <1> HIDE DEF op, a, n, kinds
  <1>4. CASE op \in SingleKeyOps
    <2>1. op \notin Counted
      BY <1>4, OpIs DEF SingleKeyOps, Counted
    <2>2. kinds = <<"str">>
      BY <1>1, <1>4, KindsAre DEF kinds
    <2>3. Fields(kinds, a) = Str(a[1])
      BY <2>2, Shapes
    <2>4. Encode(c) = Frame(op, Str(a[1]))
      BY <1>4, EncoderIs DEF op, a
    <2> QED
      BY <1>3, <2>1, <2>3, <2>4 DEF op
  <1>5. CASE op \in BodyOps
    <2>1. op \notin Counted
      BY <1>5, OpIs DEF BodyOps, Counted
    <2>2. kinds = <<"str", "blob">>
      BY <1>1, <1>5, KindsAre DEF kinds
    <2>3. Fields(kinds, a) = Str(a[1]) \o Blob(a[2])
      BY <2>2, Shapes
    <2>4. Encode(c) = Frame(op, Str(a[1]) \o Blob(a[2]))
      BY <1>5, EncoderIs DEF op, a
    <2> QED
      BY <1>3, <2>1, <2>3, <2>4 DEF op
  <1>6. CASE op = Op.DocIndex
    <2>1. op \notin Counted
      BY <1>6, OpIs DEF Counted
    <2>2. kinds = <<"str", "str">>
      BY <1>1, <1>6, KindsAre DEF kinds
    <2>3. Fields(kinds, a) = Str(a[1]) \o Str(a[2])
      BY <2>2, Shapes
    <2>4. Encode(c) = Frame(op, Str(a[1]) \o Str(a[2]))
      BY <1>6, EncoderIs DEF op, a
    <2> QED
      BY <1>3, <2>1, <2>3, <2>4 DEF op
  <1>7. CASE op = Op.SPublish
    <2>1. op \notin Counted
      BY <1>7, OpIs DEF Counted
    <2>2. kinds = <<"str", "u32", "str", "blob">>
      BY <1>1, <1>7, KindsAre DEF kinds
    <2>3. Fields(kinds, a) = ((Str(a[1]) \o PutUint32(a[2])) \o Str(a[3])) \o Blob(a[4])
      BY <2>2, Shapes
    <2>4. Encode(c) = Frame(op, ((Str(a[1]) \o PutUint32(a[2])) \o Str(a[3])) \o Blob(a[4]))
      BY <1>7, EncoderIs DEF op, a
    <2> QED
      BY <1>3, <2>1, <2>3, <2>4 DEF op
  <1>8. CASE op = Op.SConsume
    <2>1. op \notin Counted
      BY <1>8, OpIs DEF Counted
    <2>2. kinds = <<"str", "str", "str", "u32">>
      BY <1>1, <1>8, KindsAre DEF kinds
    <2>3. Fields(kinds, a) = ((Str(a[1]) \o Str(a[2])) \o Str(a[3])) \o PutUint32(a[4])
      BY <2>2, Shapes
    <2>4. Encode(c) = Frame(op, ((Str(a[1]) \o Str(a[2])) \o Str(a[3])) \o PutUint32(a[4]))
      BY <1>8, EncoderIs DEF op, a
    <2> QED
      BY <1>3, <2>1, <2>3, <2>4 DEF op
  <1>9. CASE op = Op.SCommit
    <2>1. op \notin Counted
      BY <1>9, OpIs DEF Counted
    <2>2. kinds = <<"str", "str", "u32", "i64">>
      BY <1>1, <1>9, KindsAre DEF kinds
    <2>3. Fields(kinds, a) = ((Str(a[1]) \o Str(a[2])) \o PutUint32(a[3])) \o PutUint64(a[4])
      BY <2>2, Shapes
    <2>4. Encode(c) = Frame(op, ((Str(a[1]) \o Str(a[2])) \o PutUint32(a[3])) \o PutUint64(a[4]))
      BY <1>9, EncoderIs DEF op, a
    <2> QED
      BY <1>3, <2>1, <2>3, <2>4 DEF op
  <1>10. CASE op = Op.SCreateTopic
    <2>1. op \notin Counted
      BY <1>10, OpIs DEF Counted
    <2>2. kinds = <<"str", "u32", "i64">>
      BY <1>1, <1>10, KindsAre DEF kinds
    <2>3. Fields(kinds, a) = (Str(a[1]) \o PutUint32(a[2])) \o PutUint64(a[3])
      BY <2>2, Shapes
    <2>4. Encode(c) = Frame(op, (Str(a[1]) \o PutUint32(a[2])) \o PutUint64(a[3]))
      BY <1>10, EncoderIs DEF op, a
    <2> QED
      BY <1>3, <2>1, <2>3, <2>4 DEF op
  <1>11. CASE op \in {Op.SSubscribe, Op.SUnsubscribe}
    <2>1. op \notin Counted
      BY <1>11, OpIs DEF Counted
    <2>2. kinds = <<"str", "str", "str">>
      BY <1>1, <1>11, KindsAre DEF kinds
    <2>3. Fields(kinds, a) = (Str(a[1]) \o Str(a[2])) \o Str(a[3])
      BY <2>2, Shapes
    <2>4. Encode(c) = Frame(op, (Str(a[1]) \o Str(a[2])) \o Str(a[3]))
      BY <1>11, EncoderIs DEF op, a
    <2> QED
      BY <1>3, <2>1, <2>3, <2>4 DEF op
  <1>12. CASE op = Op.MSet
    <2>1. op \in Counted /\ Count(c) = n \div 2
      BY <1>12 DEF Counted, Count, op, n, a
    <2>2. kinds = Repeat(<<"str", "blob">>, n \div 2)
      BY <1>1, <1>12, KindsAre DEF kinds
    <2>3. n \div 2 \in Nat
      BY <1>1
    <2>4. Len(kinds) = n
      BY <1>1 DEF AllFit, n
    <2>5. ASSUME NEW i \in 1 .. n
          PROVE  Field(kinds[i], a[i]) = IF i % 2 = 1 THEN Str(a[i]) ELSE Blob(a[i])
      <3>1. n = (n \div 2) * 2
        BY <2>2, <2>3, <2>4, Repeats
      <3>2. i \in 1 .. (n \div 2) * 2
        BY <3>1
      <3>3. kinds[i] = IF i % 2 = 1 THEN "str" ELSE "blob"
        BY <2>2, <2>3, <3>2, Repeats
      <3> QED
        BY <3>3, FieldIs
    <2>6. FieldList(kinds, a) = [i \in 1 .. n |-> IF i % 2 = 1 THEN Str(a[i]) ELSE Blob(a[i])]
      BY <2>4, <2>5 DEF FieldList
    <2>7. Encode(c) = Frame(Op.MSet, PutUint16(n \div 2) \o Fields(kinds, a))
      BY <1>12, <2>6, EncoderIs DEF EncodeMSetRequest, Fields, op, n, a
    <2> QED
      BY <1>2, <1>12, <2>1, <2>7 DEF op
  <1>13. CASE op \in {Op.MGet, Op.MDel}
    <2>1. op \in Counted /\ Count(c) = n
      <3>1. op # Op.MSet
        BY <1>13, OpIs
      <3> QED
        BY <1>13, <3>1 DEF Counted, Count, op, n, a
    <2>2. kinds = Repeat(<<"str">>, n)
      BY <1>1, <1>13, KindsAre DEF kinds
    <2>3. Len(kinds) = n
      BY <1>1 DEF AllFit, n
    <2>4. ASSUME NEW i \in 1 .. n
          PROVE  Field(kinds[i], a[i]) = Str(a[i])
      <3>1. kinds[i] = "str"
        BY <1>1, <2>2, Repeats
      <3> QED
        BY <3>1, FieldIs
    <2>5. FieldList(kinds, a) = [i \in 1 .. n |-> Str(a[i])]
      BY <2>3, <2>4 DEF FieldList
    <2>6. Encode(c) = Frame(op, PutUint16(n) \o Fields(kinds, a))
      BY <1>13, <2>5, EncoderIs DEF EncodeMGetRequest, EncodeMDeleteRequest, Fields, op, n, a
    <2> QED
      BY <1>2, <2>1, <2>6 DEF op
  <1> QED
    <2>1. OpCases(op) /\ op # Op.SPublishBatch
      BY <1>1, OpsInCases DEF op
    <2> QED
      BY <1>4, <1>5, <1>6, <1>7, <1>8, <1>9, <1>10, <1>11, <1>12, <1>13, <2>1 DEF OpCases

\* A payload is bytes: its count, if it has one, and its fields.
LEMMA PayloadIs ==
    ASSUME NEW c \in Calls
    PROVE  /\ FieldBytes(c) \in Seq(Byte)
           /\ Parse(FieldBytes(c), Kinds(c.op, Len(c.args))) = Parsed(<<>>, Arriving(c).args)
           /\ Payload(c) \in Seq(Byte)
           /\ c.op \in Counted => Count(c) \in 0 .. Base2 - 1
  <1>1. /\ FieldBytes(c) \in Seq(Byte)
        /\ Parse(FieldBytes(c), Kinds(c.op, Len(c.args))) = Parsed(<<>>, Arriving(c).args)
    <2>1. Arriving(c).args = ArgsRead(Kinds(c.op, Len(c.args)), c.args)
      BY DEF Arriving, Request
    <2> QED
      BY <2>1, CallIs, RoundTrip DEF FieldBytes
  <1>2. c.op \in Counted => Count(c) \in 0 .. Base2 - 1
    <2> DEFINE n == Len(c.args)
    <2>1. n \in Nat
      BY CallIs
    <2> HIDE DEF n
    <2>2. n \in Nat /\ n \div 2 \in Nat
      BY <2>1
    <2>3. /\ c.op = Op.MSet => n \div 2 < Base2
          /\ c.op \in {Op.MGet, Op.MDel} => n < Base2
      BY CallsFit DEF n
    <2>4. Count(c) = IF c.op = Op.MSet THEN n \div 2 ELSE n
      BY DEF Count, n
    <2> QED
      BY <2>2, <2>3, <2>4, BaseFacts DEF Counted
  <1>3. Payload(c) \in Seq(Byte)
    <2>1. CASE c.op \in Counted
      <3>1. PutUint16(Count(c)) \in Seq(Byte)
        BY <1>2, <2>1, Put16
      <3> QED
        BY <1>1, <2>1, <3>1 DEF Payload
    <2>2. CASE c.op \notin Counted
      BY <1>1, <2>2 DEF Payload
    <2> QED
      BY <2>1, <2>2
  <1> QED
    BY <1>1, <1>2, <1>3

(***************************************************************************)
(* Frames: a whole one is taken apart, a cut one is refused.               *)
(***************************************************************************)
\* The parts of a frame.
LEMMA FrameIs ==
    ASSUME NEW code \in Nat, NEW payload \in Seq(Nat), Len(payload) < Base4
    PROVE  /\ Frame(code, payload) \in Seq(Nat)
           /\ Len(Frame(code, payload)) = 5 + Len(payload)
           /\ Frame(code, payload)[1] = code
           /\ SubSeq(Frame(code, payload), 2, 5) = PutUint32(Len(payload))
           /\ Uint32(SubSeq(Frame(code, payload), 2, 5)) = Len(payload)
           /\ Drop(Frame(code, payload), 5) = payload
  <1> DEFINE length == PutUint32(Len(payload))
             head == <<code>> \o length
             frame == head \o payload
  <1>1. Frame(code, payload) = frame
    BY DEF Frame
  <1>2. Len(payload) \in 0 .. Base4 - 1
    BY BaseFacts, LenProperties
  <1>3. length \in Seq(Byte) /\ Len(length) = 4 /\ Uint32(length) = Len(payload) % Base4
    BY <1>2, Put32
  <1>4. Uint32(length) = Len(payload)
    BY <1>2, <1>3, BaseFacts, ModSmall
  <1>5. length \in Seq(Nat)
    BY <1>3, ByteSeq
  <1> HIDE DEF length
  <1>6. head \in Seq(Nat) /\ Len(head) = 5 /\ head[1] = code /\ SubSeq(head, 2, 5) = length
    <2> DEFINE one == <<code>>
    <2>1. one \in Seq(Nat) /\ Len(one) = 1 /\ one[1] = code
      OBVIOUS
    <2> HIDE DEF one
    <2>2. /\ one \o length \in Seq(Nat) /\ Len(one \o length) = Len(one) + Len(length)
          /\ Drop(one \o length, Len(one)) = length
      BY <1>5, <2>1, Split
    <2>3. (one \o length)[1] = code
      <3>1. 1 \in 1 .. Len(one)
        BY <2>1
      <3> QED
        BY <1>5, <2>1, <3>1, ConcatFront
    <2>4. Drop(one \o length, 1) = SubSeq(one \o length, 2, 5)
      BY <1>3, <2>1, <2>2 DEF Drop
    <2> QED
      BY <1>3, <2>1, <2>2, <2>3, <2>4 DEF one
  <1> HIDE DEF head
  <1>7. frame \in Seq(Nat) /\ Len(frame) = 5 + Len(payload) /\ Drop(frame, 5) = payload
    <2>1. Len(frame) = Len(head) + Len(payload) /\ Drop(frame, Len(head)) = payload /\ frame \in Seq(Nat)
      BY <1>6, Split
    <2> QED
      BY <1>6, <2>1
  <1>8. 1 \in 1 .. Len(head) /\ 2 \in 1 .. Len(head) /\ 5 \in 1 .. Len(head)
    BY <1>6
  <1>9. frame[1] = code /\ SubSeq(frame, 2, 5) = SubSeq(head, 2, 5)
    BY <1>6, <1>8, ConcatFront
  <1> HIDE DEF frame
  <1> QED
    BY <1>1, <1>4, <1>6, <1>7, <1>9 DEF length

\* A sequence is its front and its back.
LEMMA TakeThenDrop ==
    ASSUME NEW s \in Seq(Nat), NEW n \in 1 .. Len(s)
    PROVE  s = Take(s, n) \o Drop(s, n)
  <1>1. CASE n = Len(s)
    <2>1. Take(s, n) = s /\ Drop(s, n) = <<>>
      BY <1>1, TakeDrop
    <2> QED
      BY <2>1, ConcatEmptySeq
  <1>2. CASE n # Len(s)
    <2>1. SubSeq(s, 1, n) \o SubSeq(s, n + 1, Len(s)) = SubSeq(s, 1, Len(s))
      <3>1. Len(s) \in Nat /\ 1 \in 1 .. Len(s) + 1 /\ n \in 1 - 1 .. Len(s) /\ Len(s) \in n .. Len(s)
        BY <1>2
      <3> QED
        BY <3>1, ConcatAdjacentSubSeq
    <2> QED
      BY <2>1, SubSeqFull DEF Take, Drop
  <1> QED
    BY <1>1, <1>2

\* The end of a frame of less than 4 GiB does not wrap.
LEMMA FrameEnd ==
    ASSUME NEW n \in Nat, 5 + n < Base4
    PROVE  (5 + n) % Base4 = 5 + n
  <1>1. 5 + n \in 0 .. Base4 - 1
    BY BaseFacts
  <1> QED
    BY <1>1, BaseFacts, ModSmall

\* DecodeRequest refuses every front of a frame.
LEMMA CutFrame ==
    ASSUME NEW code \in Nat, NEW payload \in Seq(Nat), 5 + Len(payload) < Base4,
           NEW n \in 1 .. 4 + Len(payload)
    PROVE  DecodeRequest(Take(Frame(code, payload), n)) = Invalid
  <1> DEFINE f == Frame(code, payload)
             data == Take(f, n)
  <1>1. Len(payload) \in Nat /\ Len(payload) < Base4
    BY BaseFacts
  <1>2. f \in Seq(Nat) /\ Len(f) = 5 + Len(payload) /\ Uint32(SubSeq(f, 2, 5)) = Len(payload)
    BY <1>1, FrameIs
  <1> HIDE DEF f
  <1>3. n \in 1 .. Len(f) /\ n \in 0 .. Len(f) /\ n < Len(f)
    BY <1>1, <1>2
  <1>4. data \in Seq(Nat) /\ Len(data) = n /\ Drop(f, n) \in Seq(Nat)
    BY <1>2, <1>3, TakeDrop
  <1>5. f = data \o Drop(f, n)
    BY <1>2, <1>3, TakeThenDrop
  <1> HIDE DEF data
  <1>6. CASE n < 5
    BY <1>4, <1>6 DEF DecodeRequest, data, f
  <1>7. CASE ~(n < 5)
    <2>1. 2 \in 1 .. Len(data) /\ 5 \in 1 .. Len(data)
      BY <1>4, <1>7
    <2>2. SubSeq(f, 2, 5) = SubSeq(data, 2, 5)
      <3> DEFINE back == Drop(f, n)
      <3>1. f = data \o back /\ back \in Seq(Nat)
        BY <1>4, <1>5
      <3> HIDE DEF back
      <3>2. SubSeq(data \o back, 2, 5) = SubSeq(data, 2, 5)
        BY <1>4, <2>1, <3>1, ConcatFront
      <3> QED
        BY <3>1, <3>2
    <2>3. (5 + Uint32(SubSeq(data, 2, 5))) % Base4 = 5 + Len(payload)
      BY <1>1, <1>2, <2>2, FrameEnd
    <2>4. Len(data) < 5 + Len(payload)
      BY <1>2, <1>3, <1>4
    <2> QED
      BY <2>3, <2>4 DEF DecodeRequest, data, f
  <1> QED
    BY <1>6, <1>7

\* DecodeRequest hands the whole payload of a whole frame to the decoder of its opcode.
LEMMA WholeFrame ==
    ASSUME NEW code \in Nat, NEW payload \in Seq(Nat), 5 + Len(payload) < Base4
    PROVE  DecodeRequest(Frame(code, payload)) = DecodePayload(code, payload)
  <1> DEFINE f == Frame(code, payload)
  <1>1. Len(payload) \in Nat /\ Len(payload) < Base4
    BY BaseFacts
  <1>2. /\ f \in Seq(Nat) /\ Len(f) = 5 + Len(payload) /\ Uint32(SubSeq(f, 2, 5)) = Len(payload)
        /\ f[1] = code /\ Drop(f, 5) = payload
    BY <1>1, FrameIs
  <1> HIDE DEF f
  <1>3. (5 + Uint32(SubSeq(f, 2, 5))) % Base4 = 5 + Len(payload)
    BY <1>1, <1>2, FrameEnd
  <1>4. SubSeq(f, 6, 5 + Len(payload)) = payload
    BY <1>2 DEF Drop
  <1>5. ~(Len(f) < 5) /\ ~(Len(f) < 5 + Len(payload)) /\ ~(5 + Len(payload) < 5)
    BY <1>1, <1>2
  <1>6. DecodeRequest(f) = DecodePayload(code, payload)
    BY <1>2, <1>3, <1>4, <1>5 DEF DecodeRequest
  <1> QED
    BY <1>6 DEF f

\* The decoder of a request with a single key returns the key, unless it is one of the two
\* longest.
LEMMA SimpleDecoded ==
    ASSUME NEW op, NEW key, Fits("str", key)
    PROVE  decodeSimpleRequest(op, Str(key)) =
               IF Len(key) + 2 > MaxKeyLen THEN Crash ELSE Request(op, <<key>>)
  <1> DEFINE n == Len(key)
             head == PutUint16(n)
             payload == Str(key)
  <1>1. key \in Seq(Byte) /\ n \in 0 .. Base2 - 1
    BY BaseFacts, FitsIs DEF MaxKeyLen
  <1>2. head \in Seq(Byte) /\ Len(head) = 2 /\ Uint16(head) = n % Base2
    BY <1>1, Put16
  <1>3. n % Base2 = n
    BY <1>1, BaseFacts, ModSmall
  <1>4. head \in Seq(Nat) /\ key \in Seq(Nat)
    BY <1>1, <1>2, ByteSeq
  <1>5. payload = head \o key
    BY DEF Str
  <1> HIDE DEF head, payload
  <1>6. /\ payload \in Seq(Nat) /\ Len(payload) = Len(head) + n
        /\ Take(payload, Len(head)) = head /\ Drop(payload, Len(head)) = key
    BY <1>4, <1>5, Split
  <1>7. Len(payload) = 2 + n /\ Uint16(Take(payload, 2)) = n
    BY <1>2, <1>3, <1>6
  <1>8. CASE n + 2 > MaxKeyLen
    <2> DEFINE r == 2 + n - Base2
    <2>1. 2 + n = Base2 * 1 + r /\ r \in 0 .. Base2 - 1
      BY <1>1, <1>8, BaseFacts DEF MaxKeyLen
    <2>2. (2 + n) % Base2 = 2 + n - Base2
      <3> HIDE DEF r
      <3>1. (Base2 * 1 + r) % Base2 = r
        BY <2>1, BaseFacts, DivModUnique
      <3> QED
        BY <2>1, <3>1 DEF r
    <2>3. 2 + n - Base2 < 2 /\ ~(Len(payload) < 2) /\ ~(Len(payload) < 2 + n - Base2)
      BY <1>1, <1>7, BaseFacts
    <2>4. decodeSimpleRequest(op, payload) = Crash
      BY <1>7, <2>2, <2>3 DEF decodeSimpleRequest
    <2> QED
      BY <1>8, <2>4 DEF payload
  <1>9. CASE ~(n + 2 > MaxKeyLen)
    <2>1. 2 + n \in 0 .. Base2 - 1
      BY <1>1, <1>9, BaseFacts DEF MaxKeyLen
    <2>2. (2 + n) % Base2 = 2 + n
      BY <2>1, BaseFacts, ModSmall
    <2>3. ~(2 + n < 2) /\ ~(Len(payload) < 2) /\ ~(Len(payload) < 2 + n)
      BY <1>1, <1>7
    <2>4. SubSeq(payload, 3, 2 + n) = key
      BY <1>2, <1>6, <1>7 DEF Drop
    <2>5. decodeSimpleRequest(op, payload) = Request(op, <<key>>)
      BY <1>7, <2>2, <2>3, <2>4 DEF decodeSimpleRequest
    <2> QED
      BY <1>9, <2>5 DEF payload
  <1> QED
    BY <1>8, <1>9

\* Which decoder an opcode's payload goes to.
LEMMA DecoderIs ==
    ASSUME NEW op, NEW p
    PROVE  /\ op \in SingleKeyOps => DecodePayload(op, p) = decodeSimpleRequest(op, p)
           /\ op \in BodyOps => DecodePayload(op, p) = Accept(op, Parse(p, <<"str", "blob">>))
           /\ op = Op.DocIndex => DecodePayload(op, p) = Accept(op, Parse(p, <<"str", "str">>))
           /\ op = Op.MSet => DecodePayload(op, p) = decodeMSetRequest(p)
           /\ op \in {Op.MGet, Op.MDel} => DecodePayload(op, p) = decodeMGetRequest(op, p)
           /\ op = Op.SPublish => DecodePayload(op, p) = Accept(op, Parse(p, <<"str", "u32", "str", "blob">>))
           /\ op = Op.SConsume => DecodePayload(op, p) = Accept(op, Parse(p, <<"str", "str", "str", "u32">>))
           /\ op = Op.SCommit => DecodePayload(op, p) = Accept(op, Parse(p, <<"str", "str", "u32", "i64">>))
           /\ op = Op.SCreateTopic => DecodePayload(op, p) = Accept(op, Parse(p, <<"str", "u32", "i64">>))
           /\ op \in {Op.SSubscribe, Op.SUnsubscribe} =>
                DecodePayload(op, p) = Accept(op, Parse(p, <<"str", "str", "str">>))
  <1>1. ASSUME op \in SingleKeyOps
        PROVE  DecodePayload(op, p) = decodeSimpleRequest(op, p)
    <2>1. op \in {2, 3, 4, 5, 6, 33, 34, 35, 36}
      BY <1>1, OpIs DEF SingleKeyOps
    <2>2. /\ op # Op.Set /\ op # Op.MSet /\ op \notin {Op.MGet, Op.MDel} /\ op # Op.QPush
          /\ op # Op.SPublish /\ op # Op.SConsume /\ op # Op.SCommit /\ op # Op.SCreateTopic
          /\ op # Op.SPublishBatch /\ op # Op.SSubscribe /\ op # Op.SUnsubscribe
          /\ op # Op.DocInsert /\ op # Op.DocFind /\ op # Op.DocUpdate /\ op # Op.DocDelete /\ op # Op.DocIndex
      BY <2>1, OpIs
    <2> QED
      BY <1>1, <2>2 DEF DecodePayload, SingleKeyOps
  <1>2. ASSUME op \in BodyOps
        PROVE  DecodePayload(op, p) = Accept(op, Parse(p, <<"str", "blob">>))
    <2>1. CASE op = Op.Set
      BY <2>1, OpIs DEF DecodePayload, decodeSetRequest
    <2>2. CASE op = Op.QPush
      BY <2>2, OpIs DEF DecodePayload, decodeQPushRequest
    <2>3. CASE op = Op.DocInsert
      BY <2>3, OpIs DEF DecodePayload, decodeDocInsertRequest
    <2>4. CASE op = Op.DocFind
      BY <2>4, OpIs DEF DecodePayload, decodeDocFindRequest
    <2>5. CASE op = Op.DocUpdate
      BY <2>5, OpIs DEF DecodePayload, decodeDocUpdateRequest
    <2>6. CASE op = Op.DocDelete
      BY <2>6, OpIs DEF DecodePayload, decodeDocDeleteRequest
    <2> QED
      BY <1>2, <2>1, <2>2, <2>3, <2>4, <2>5, <2>6 DEF BodyOps
  <1>3. op = Op.DocIndex => DecodePayload(op, p) = Accept(op, Parse(p, <<"str", "str">>))
    BY OpIs DEF DecodePayload, decodeDocIndexRequest
  <1>4. op = Op.MSet => DecodePayload(op, p) = decodeMSetRequest(p)
    BY OpIs DEF DecodePayload
  <1>5. ASSUME op \in {Op.MGet, Op.MDel}
        PROVE  DecodePayload(op, p) = decodeMGetRequest(op, p)
    <2>1. CASE op = Op.MGet
      BY <2>1, OpIs DEF DecodePayload
    <2>2. CASE op = Op.MDel
      BY <2>2, OpIs DEF DecodePayload
    <2> QED
      BY <1>5, <2>1, <2>2
  <1>6. op = Op.SPublish => DecodePayload(op, p) = Accept(op, Parse(p, <<"str", "u32", "str", "blob">>))
    BY OpIs DEF DecodePayload, decodeSPublishRequest
  <1>7. op = Op.SConsume => DecodePayload(op, p) = Accept(op, Parse(p, <<"str", "str", "str", "u32">>))
    BY OpIs DEF DecodePayload, decodeSConsumeRequest
  <1>8. op = Op.SCommit => DecodePayload(op, p) = Accept(op, Parse(p, <<"str", "str", "u32", "i64">>))
    BY OpIs DEF DecodePayload, decodeSCommitRequest
  <1>9. op = Op.SCreateTopic => DecodePayload(op, p) = Accept(op, Parse(p, <<"str", "u32", "i64">>))
    BY OpIs DEF DecodePayload, decodeSCreateTopicRequest
  <1>10. op = Op.SSubscribe => DecodePayload(op, p) = Accept(op, Parse(p, <<"str", "str", "str">>))
    BY OpIs DEF DecodePayload, decodeSSubscribeRequest
  <1>11. op = Op.SUnsubscribe => DecodePayload(op, p) = Accept(op, Parse(p, <<"str", "str", "str">>))
    BY OpIs DEF DecodePayload, decodeSUnsubscribeRequest
  <1> QED
    BY <1>1, <1>2, <1>3, <1>4, <1>5, <1>6, <1>7, <1>8, <1>9, <1>10, <1>11

TooLong(c) == c.op \in SingleKeyOps /\ Len(c.args[1]) + 2 > MaxKeyLen

\* The decoder of a call's opcode gets back what the encoder put in.
LEMMA PayloadDecoded ==
    ASSUME NEW c \in Calls, c.op # Op.SPublishBatch
    PROVE  DecodePayload(c.op, Payload(c)) = IF TooLong(c) THEN Crash ELSE Arriving(c)
  <1> DEFINE op == c.op
             a == c.args
             n == Len(a)
             kinds == Kinds(op, n)
             r == ArgsRead(kinds, a)
             fb == FieldBytes(c)
             p == Payload(c)
  <1>1. Arriving(c) = Request(op, r) /\ Arriving(c).args = r
    BY DEF Arriving, Request
  <1>2. op \in OpNumbers /\ n \in Nat /\ AllFit(kinds, a) /\ kinds \in Seq(FieldKinds) /\ op # Op.SPublishBatch
    BY CallIs
  <1>3. fb \in Seq(Byte) /\ Parse(fb, kinds) = Parsed(<<>>, r) /\ (op \in Counted => Count(c) \in 0 .. Base2 - 1)
    BY <1>1, PayloadIs
  <1>4. p = IF op \in Counted THEN PutUint16(Count(c)) \o fb ELSE fb
    BY DEF Payload
  <1>5. Accept(op, Parsed(<<>>, r)) = Arriving(c)
    BY <1>1 DEF Accept, Parsed
  <1>6. TooLong(c) => op \in SingleKeyOps
    BY DEF TooLong
  <1>7. op \in SingleKeyOps => op \notin BodyOps /\ op \notin Counted
    BY OpIs DEF SingleKeyOps, BodyOps, Counted
  <1> HIDE DEF op, a, n, kinds, r, fb, p
  <1>8. CASE op \in SingleKeyOps
    <2>1. kinds = <<"str">>
      BY <1>2, <1>8, KindsAre DEF kinds
    <2>2. p = Str(a[1])
      <3>1. Fields(<<"str">>, a) = Str(a[1])
        BY Shapes
      <3>2. fb = Fields(kinds, a)
        BY DEF fb, FieldBytes, kinds, a, n, op
      <3> QED
        BY <1>4, <1>7, <1>8, <2>1, <3>1, <3>2
    <2>3. Len(<<"str">>) = 1 /\ <<"str">>[1] = "str"
      OBVIOUS
    <2>4. Len(a) = 1 /\ a = [i \in 1 .. 1 |-> a[i]] /\ Fits("str", a[1])
      BY <1>2, <2>1, <2>3 DEF AllFit
    <2>5. r = <<a[1]>>
      BY <2>1, <2>3 DEF r, ArgsRead, AsRead
    <2>6. decodeSimpleRequest(op, Str(a[1])) =
              IF Len(a[1]) + 2 > MaxKeyLen THEN Crash ELSE Request(op, <<a[1]>>)
      BY <2>4, SimpleDecoded
    <2>7. TooLong(c) <=> Len(a[1]) + 2 > MaxKeyLen
      BY <1>8 DEF TooLong, op, a
    <2>8. DecodePayload(op, p) = decodeSimpleRequest(op, p)
      BY <1>8, DecoderIs
    <2> QED
      BY <1>1, <2>2, <2>5, <2>6, <2>7, <2>8 DEF op, p
  <1>9. CASE op \notin SingleKeyOps /\ op \notin Counted
    <2>1. p = fb
      BY <1>4, <1>9
    <2>2. OpCases(op)
      BY <1>2, OpsInCases
    <2>3. DecodePayload(op, p) = Accept(op, Parse(p, kinds))
      <3>1. op \in Counted <=> op = Op.MSet \/ op \in {Op.MGet, Op.MDel}
        BY DEF Counted
      <3>2. CASE op \in BodyOps
        BY <1>2, <3>2, KindsAre, DecoderIs DEF kinds
      <3>3. CASE op = Op.DocIndex
        BY <1>2, <3>3, KindsAre, DecoderIs DEF kinds
      <3>4. CASE op = Op.SPublish
        BY <1>2, <3>4, KindsAre, DecoderIs DEF kinds
      <3>5. CASE op = Op.SConsume
        BY <1>2, <3>5, KindsAre, DecoderIs DEF kinds
      <3>6. CASE op = Op.SCommit
        BY <1>2, <3>6, KindsAre, DecoderIs DEF kinds
      <3>7. CASE op = Op.SCreateTopic
        BY <1>2, <3>7, KindsAre, DecoderIs DEF kinds
      <3>8. CASE op \in {Op.SSubscribe, Op.SUnsubscribe}
        BY <1>2, <3>8, KindsAre, DecoderIs DEF kinds
      <3> QED
        BY <1>2, <1>9, <2>2, <3>1, <3>2, <3>3, <3>4, <3>5, <3>6, <3>7, <3>8 DEF OpCases
    <2> QED
      BY <1>3, <1>5, <1>6, <1>9, <2>1, <2>3 DEF op, a, p
  <1>10. CASE op \in Counted
    <2> DEFINE count == Count(c)
               head == PutUint16(count)
    <2>1. count \in 0 .. Base2 - 1 /\ count \in Nat
      BY <1>3, <1>10, BaseFacts
    <2>2. head \in Seq(Byte) /\ Len(head) = 2 /\ Uint16(head) = count % Base2
      BY <2>1, Put16
    <2>3. count % Base2 = count
      BY <2>1, BaseFacts, ModSmall
    <2>4. p = head \o fb
      BY <1>4, <1>10
    <2>5. head \in Seq(Nat) /\ fb \in Seq(Nat)
      BY <1>3, <2>2, ByteSeq
    <2> HIDE DEF head, count
    <2>6. /\ Len(p) = Len(head) + Len(fb) /\ Len(fb) \in Nat
          /\ Take(p, Len(head)) = head /\ Drop(p, Len(head)) = fb
      BY <2>4, <2>5, Split
    <2>7. ~(Len(p) < 2) /\ Uint16(Take(p, 2)) = count /\ Drop(p, 2) = fb
      BY <2>2, <2>3, <2>6
    <2>8. op \notin SingleKeyOps
      BY <1>7, <1>10
    <2>9. CASE op = Op.MSet
      <3>1. kinds = Repeat(<<"str", "blob">>, n \div 2)
        BY <1>2, <2>9, KindsAre DEF kinds
      <3>2. count = n \div 2
        BY <2>9 DEF count, Count, op, a, n
      <3>3. decodeMSetRequest(p) = Accept(op, Parse(fb, kinds))
        BY <2>7, <2>9, <3>1, <3>2 DEF decodeMSetRequest
      <3> QED
        BY <1>3, <1>5, <1>6, <2>8, <2>9, <3>3, DecoderIs DEF op, a, p
    <2>10. CASE op \in {Op.MGet, Op.MDel}
      <3>1. kinds = Repeat(<<"str">>, n)
        BY <1>2, <2>10, KindsAre DEF kinds
      <3>2. count = n
        <4>1. op # Op.MSet
          BY <2>10, OpIs
        <4> QED
          BY <4>1 DEF count, Count, op, a, n
      <3>3. decodeMGetRequest(op, p) = Accept(op, Parse(fb, kinds))
        BY <2>7, <3>1, <3>2 DEF decodeMGetRequest
      <3> QED
        BY <1>3, <1>5, <1>6, <2>8, <2>10, <3>3, DecoderIs DEF op, a, p
    <2> QED
      BY <1>10, <2>9, <2>10 DEF Counted
  <1> QED
    BY <1>8, <1>9, <1>10

(***************************************************************************)
(* What is on the connection.                                              *)
(***************************************************************************)
Letter == (0 .. Base - 1) \cup {Op[o] : o \in DOMAIN Op} \cup {Status[t] : t \in DOMAIN Status} \cup {45}

\* Opcodes, statuses, the dash of a text answer and bytes may be on the connection.
LEMMA Letters ==
    /\ Bytes = Seq(Letter) /\ Letter \subseteq Nat /\ Byte \subseteq Letter
    /\ OpNumbers \subseteq Letter /\ 45 \in Letter
    /\ Status.OK = 0 /\ Status.Error = 1 /\ Status.NotFound = 2 /\ Status.MultiValue = 4
    /\ {Status.OK, Status.Error, Status.MultiValue} \subseteq Letter
  <1>1. Bytes = Seq(Letter)
    BY DEF Bytes, Letter
  <1>2. Status.OK = 0 /\ Status.Error = 1 /\ Status.NotFound = 2 /\ Status.MultiValue = 4
    BY DEF Status
  <1>3. {Status[t] : t \in DOMAIN Status} = {0, 1, 2, 4}
    BY DEF Status
  <1>4. Letter = (0 .. Base - 1) \cup OpNumbers \cup {0, 1, 2, 4} \cup {45}
    BY <1>3, OpsAre DEF Letter
  <1>5. Letter \subseteq Nat
    BY <1>4, BaseFacts DEF OpNumbers
  <1>6. Byte \subseteq Letter /\ OpNumbers \subseteq Letter /\ 45 \in Letter
    BY <1>4 DEF Byte
  <1>7. {Status.OK, Status.Error, Status.MultiValue} \subseteq Letter
    BY <1>2, <1>4
  <1> QED
    BY <1>1, <1>2, <1>5, <1>6, <1>7

\* What is on the connection are numbers, and bytes may be on it.
LEMMA OnConnection ==
    /\ \A s \in Bytes : s \in Seq(Nat)
    /\ \A s \in Seq(Byte) : s \in Bytes
    /\ \A s, t \in Bytes : s \o t \in Bytes
    /\ <<>> \in Bytes
    /\ \A x \in Letter : <<x>> \in Bytes
  <1>1. \A s \in Seq(Letter) : s \in Seq(Nat)
    BY Letters, SeqMonotonic
  <1>2. \A s \in Seq(Byte) : s \in Seq(Letter)
    BY Letters, SeqMonotonic
  <1>3. \A s, t \in Seq(Letter) : s \o t \in Seq(Letter)
    OBVIOUS
  <1>4. <<>> \in Seq(Letter) /\ \A x \in Letter : <<x>> \in Seq(Letter)
    OBVIOUS
  <1> QED
    BY <1>1, <1>2, <1>3, <1>4, Letters

\* A frame of bytes may be on the connection, and is five bytes longer than its payload.
LEMMA FrameBytes ==
    ASSUME NEW code \in Letter, NEW payload \in Seq(Byte)
    PROVE  Frame(code, payload) \in Bytes /\ Len(Frame(code, payload)) = 5 + Len(payload)
  <1>1. Len(payload) \in Nat
    OBVIOUS
  <1> DEFINE length == PutUint32(Len(payload))
             one == <<code>>
  <1>2. length \in Seq(Byte) /\ Len(length) = 4
    BY <1>1, Put32
  <1>3. one \in Bytes /\ Len(one) = 1
    BY OnConnection
  <1>4. Frame(code, payload) = (one \o length) \o payload
    BY DEF Frame
  <1> HIDE DEF length, one
  <1>5. length \in Bytes /\ payload \in Bytes
    BY <1>2, OnConnection
  <1>6. one \o length \in Bytes
    BY <1>3, <1>5, OnConnection
  <1>7. (one \o length) \o payload \in Bytes
    BY <1>5, <1>6, OnConnection
  <1>8. /\ one \in Seq(Nat) /\ length \in Seq(Nat) /\ payload \in Seq(Nat) /\ one \o length \in Seq(Nat)
    BY <1>3, <1>5, <1>6, OnConnection
  <1>9. Len(one \o length) = Len(one) + Len(length)
    BY <1>8, Split
  <1>10. Len((one \o length) \o payload) = Len(one \o length) + Len(payload)
    BY <1>8, Split
  <1> QED
    BY <1>1, <1>2, <1>3, <1>4, <1>7, <1>9, <1>10

\* A call other than SPUBLISHBATCH: its frame, what a server makes of it and of its fronts.
THEOREM CallFrame ==
    ASSUME NEW c \in Calls, c.op # Op.SPublishBatch
    PROVE  /\ Encode(c) \in Bytes /\ Encode(c) # <<>> /\ Encode(c)[1] = c.op /\ isBinary(c.op)
           /\ DecodeRequest(Encode(c)) = IF TooLong(c) THEN Crash ELSE Arriving(c)
           /\ \A n \in 1 .. Len(Encode(c)) - 1 : DecodeRequest(Take(Encode(c), n)) = Invalid
           /\ Len(Encode(c)) = 5 + Len(Payload(c))
  <1> DEFINE p == Payload(c)
  <1>1. Encode(c) = Frame(c.op, p) /\ p \in Seq(Byte) /\ c.op \in OpNumbers
    BY EncodeIs, PayloadIs, CallIs
  <1> HIDE DEF p
  <1>2. c.op \in Letter /\ c.op \in Nat
    BY <1>1, Letters
  <1>3. Encode(c) \in Bytes /\ Len(Encode(c)) = 5 + Len(p)
    BY <1>1, <1>2, FrameBytes
  <1>4. p \in Seq(Nat) /\ Len(p) \in Nat
    BY <1>1, ByteSeq
  <1>5. 5 + Len(p) < Base4 /\ Len(p) < Base4
    <2>1. Len(Encode(c)) < Base4
      BY CallsFit
    <2> QED
      BY <1>3, <1>4, <2>1, BaseFacts
  <1>6. Encode(c)[1] = c.op
    BY <1>1, <1>2, <1>4, <1>5, FrameIs
  <1>7. DecodeRequest(Encode(c)) = DecodePayload(c.op, p)
    BY <1>1, <1>2, <1>4, <1>5, WholeFrame
  <1>8. \A n \in 1 .. 4 + Len(p) : DecodeRequest(Take(Encode(c), n)) = Invalid
    BY <1>1, <1>2, <1>4, <1>5, CutFrame
  <1>9. isBinary(c.op)
    BY <1>1, OpIs, SMTT(30) DEF OpNumbers, isBinary
  <1>10. Encode(c) # <<>>
    BY <1>3, <1>4
  <1>11. Len(Encode(c)) - 1 = 4 + Len(p)
    BY <1>3, <1>4
  <1> QED
    BY <1>3, <1>6, <1>7, <1>8, <1>9, <1>10, <1>11, PayloadDecoded DEF p

\* The parts of two sequences of kinds in a row.
LEMMA Joined ==
    ASSUME NEW s \in Seq(FieldKinds), NEW t \in Seq(FieldKinds)
    PROVE  /\ Len(s \o t) = Len(s) + Len(t)
           /\ \A i \in 1 .. Len(s) : (s \o t)[i] = s[i]
           /\ \A i \in 1 .. Len(t) : (s \o t)[Len(s) + i] = t[i]
  OBVIOUS

\* The request of SPUBLISHBATCH has no header; its first byte is none of the binary protocol.
LEMMA BatchFrame ==
    ASSUME NEW c \in Calls, c.op = Op.SPublishBatch
    PROVE  Encode(c) \in Bytes /\ Encode(c) # <<>> /\ ~isBinary(Encode(c)[1])
  <1> DEFINE a == c.args
             n == Len(a)
             kinds == Kinds(c.op, n)
             m == n \div 3
             r == Repeat(<<"u32", "str", "blob">>, m)
             ms == Tail(a)
  <1>1. n \in Nat /\ AllFit(kinds, a) /\ kinds \in Seq(FieldKinds)
    BY CallIs
  <1>2. kinds = <<"str">> \o r
    BY <1>1, KindsAre
  <1>3. m \in Nat
    <2> HIDE DEF n
    <2> QED
      BY <1>1
  <1>4. r \in Seq(FieldKinds) /\ Len(r) = m * 3
    <2>1. <<"u32", "str", "blob">> \in Seq(FieldKinds) /\ Len(<<"u32", "str", "blob">>) > 0
      BY DEF FieldKinds
    <2> QED
      BY <1>3, <2>1, RepeatIs, Repeats
  <1>5. Encode(c) = EncodeSPublishBatchRequest(a[1], ms)
    BY EncoderIs DEF PublishBatch
  <1> HIDE DEF a, n, m, r, kinds
  <1>6. Len(kinds) = 1 + m * 3 /\ kinds[1] = "str" /\ \A i \in 1 .. m * 3 : kinds[i + 1] = r[i]
    <2> DEFINE first == <<"str">>
    <2>1. first \in Seq(FieldKinds) /\ Len(first) = 1 /\ first[1] = "str" /\ kinds = first \o r
      BY <1>2 DEF FieldKinds
    <2> HIDE DEF first
    <2>2. first \in Seq(FieldKinds) /\ r \in Seq(FieldKinds) /\ kinds = first \o r
      BY <1>4, <2>1
    <2>3. Len(kinds) = Len(first) + Len(r) /\ 1 \in 1 .. Len(first)
      <3>1. Len(first \o r) = Len(first) + Len(r)
        BY <2>2, Joined
      <3>2. 1 \in 1 .. Len(first)
        BY <2>1
      <3> QED
        BY <2>2, <3>1, <3>2
    <2>4. kinds[1] = first[1]
      BY <1>4, <2>1, <2>3, Joined
    <2>5. ASSUME NEW i \in 1 .. m * 3
          PROVE  kinds[i + 1] = r[i]
      <3>1. i \in 1 .. Len(r) /\ Len(first) + i = i + 1
        BY <1>3, <1>4, <2>1
      <3> QED
        <4>1. (first \o r)[Len(first) + i] = r[i]
          BY <2>2, <3>1, Joined
        <4> QED
          BY <2>2, <3>1, <4>1
    <2> QED
      BY <1>4, <2>1, <2>3, <2>4, <2>5
  <1>7. n = 1 + m * 3 /\ a = [i \in 1 .. n |-> a[i]] /\ \A i \in 1 .. n : Fits(kinds[i], a[i])
    BY <1>1, <1>6 DEF AllFit, n
  <1>8. Len(ms) = m * 3 /\ \A i \in 1 .. m * 3 : ms[i] = a[i + 1]
    BY <1>1, <1>3, <1>7
  <1> HIDE DEF ms
  <1> DEFINE fs == [i \in 1 .. Len(ms) |->
                        CASE i % 3 = 1 -> PutUint32(ms[i])
                          [] i % 3 = 2 -> Str(ms[i])
                          [] OTHER -> Blob(ms[i])]
  <1>9. ASSUME NEW i \in 1 .. Len(ms)
        PROVE  (CASE i % 3 = 1 -> PutUint32(ms[i])
                  [] i % 3 = 2 -> Str(ms[i])
                  [] OTHER -> Blob(ms[i])) \in Seq(Byte)
    <2>1. i \in 1 .. m * 3 /\ i + 1 \in 1 .. n
      BY <1>3, <1>7, <1>8
    <2>2. ms[i] = a[i + 1] /\ kinds[i + 1] = r[i] /\ Fits(kinds[i + 1], a[i + 1])
      BY <1>6, <1>7, <1>8, <2>1
    <2>3. r[i] = IF i % 3 = 1 THEN "u32" ELSE IF i % 3 = 2 THEN "str" ELSE "blob"
      BY <1>3, <2>1, Repeats DEF r
    <2> DEFINE k == r[i]
               x == ms[i]
    <2>4. k \in FieldKinds /\ Fits(k, x)
      BY <2>2, <2>3 DEF FieldKinds
    <2> HIDE DEF k, x
    <2>5. Field(k, x) \in Seq(Byte)
      BY <2>4, FieldReadBack, EmptySeq
    <2>6. Field(k, x) = CASE i % 3 = 1 -> PutUint32(x) [] i % 3 = 2 -> Str(x) [] OTHER -> Blob(x)
      BY <2>3, FieldIs DEF k
    <2> QED
      BY <2>5, <2>6 DEF x
  <1>10. Len(ms) \in Nat
    BY <1>3, <1>8
  <1>11. fs \in Seq(Seq(Byte))
    BY <1>9, <1>10, IsASeq
  <1>12. FlattenSeq(fs) \in Seq(Byte)
    <2> HIDE DEF fs
    <2>1. PICK P \in [0 .. Len(fs) -> Seq(Byte)] : FlattenSeq(fs) = P[Len(fs)]
      BY <1>11, Fronts
    <2>2. Len(fs) \in 0 .. Len(fs)
      BY <1>11
    <2> QED
      BY <2>1, <2>2
  <1> DEFINE one == <<Op.SPublishBatch>>
             topic == Str(a[1])
             count == PutUint32(Len(ms) \div 3)
             rest == FlattenSeq(fs)
  <1>13. Encode(c) = ((one \o topic) \o count) \o rest
    BY <1>5 DEF EncodeSPublishBatchRequest
  <1>14. topic \in Seq(Byte)
    <2>1. 1 \in 1 .. n
      BY <1>3, <1>7
    <2>2. Fits("str", a[1])
      BY <1>6, <1>7, <2>1
    <2>3. Field("str", a[1]) \in Seq(Byte)
      BY <2>2, FieldReadBack, EmptySeq DEF FieldKinds
    <2> QED
      BY <2>3, FieldIs
  <1>15. count \in Seq(Byte)
    <2>1. Len(ms) \div 3 \in Nat
      BY <1>10
    <2> QED
      BY <2>1, Put32
  <1>16. one \in Bytes /\ Len(one) = 1 /\ one[1] = 55
    <2>1. Op.SPublishBatch \in Letter /\ Op.SPublishBatch = 55
      BY OpIs, Letters DEF OpNumbers
    <2> QED
      BY <2>1, OnConnection
  <1> HIDE DEF one, topic, count, rest, fs
  <1>17. topic \in Bytes /\ count \in Bytes /\ rest \in Bytes
    BY <1>12, <1>14, <1>15, OnConnection DEF rest
  <1>18. one \o topic \in Bytes /\ (one \o topic) \o count \in Bytes
    BY <1>16, <1>17, OnConnection
  <1>19. ((one \o topic) \o count) \o rest \in Bytes
    BY <1>17, <1>18, OnConnection
  <1>20. /\ one \in Seq(Nat) /\ topic \in Seq(Nat) /\ count \in Seq(Nat) /\ rest \in Seq(Nat)
         /\ one \o topic \in Seq(Nat) /\ (one \o topic) \o count \in Seq(Nat)
    BY <1>16, <1>17, <1>18, OnConnection
  <1>21. ((one \o topic) \o count) \o rest = one \o (topic \o (count \o rest))
    <2> DEFINE ot == one \o topic
               cr == count \o rest
    <2>1. ot \in Seq(Nat) /\ cr \in Seq(Nat)
      BY <1>20
    <2>2. ot \o cr = one \o (topic \o cr)
      <3> HIDE DEF cr
      <3>1. one \in Seq(Nat) /\ topic \in Seq(Nat) /\ cr \in Seq(Nat)
        BY <1>20, <2>1
      <3> QED
        BY <3>1, Assoc, Zenon
    <2>3. (ot \o count) \o rest = ot \o cr
      <3> HIDE DEF ot
      <3> QED
        BY <1>20, <2>1, Assoc, SMTT(30)
    <2> QED
      BY <2>2, <2>3
  <1> DEFINE tail == topic \o (count \o rest)
  <1>22. tail \in Seq(Nat)
    BY <1>20
  <1> HIDE DEF tail
  <1>23. 1 \in 1 .. Len(one)
    BY <1>16
  <1>24. (one \o tail)[1] = 55 /\ Len(one \o tail) = 1 + Len(tail)
    <2>1. (one \o tail)[1] = one[1]
      BY <1>20, <1>22, <1>23, ConcatFront
    <2>2. Len(one \o tail) = Len(one) + Len(tail)
      BY <1>20, <1>22, Split
    <2> QED
      BY <1>16, <2>1, <2>2
  <1>25. Encode(c)[1] = 55 /\ Encode(c) # <<>> /\ Encode(c) \in Bytes
    BY <1>13, <1>19, <1>21, <1>22, <1>24 DEF tail
  <1>26. ~isBinary(55)
    BY DEF isBinary
  <1> QED
    BY <1>25, <1>26

(***************************************************************************)
(* Any bytes at all: what DecodeRequest returns has a number of arguments. *)
(***************************************************************************)
Argument == Seq(Nat) \cup Int
ParsedSet == [ok : BOOLEAN, rest : Seq(Nat), args : Seq(Argument)]

\* ReadField leaves numbers behind what it read, and adds one argument at most.
LEMMA ReadFieldTypes ==
    ASSUME NEW p \in ParsedSet, NEW kind \in FieldKinds
    PROVE  ReadField(p, kind) \in ParsedSet
  <1> DEFINE w == Width[kind]
             rest == p.rest
             args == p.args
             body == Drop(rest, w)
             n == Uint(kind, Take(rest, w))
             failed == [p EXCEPT !.ok = FALSE]
  <1>1. w \in {2, 4, 8}
    BY Widths DEF FieldKinds
  <1>2. rest \in Seq(Nat) /\ Len(rest) \in Nat /\ args \in Seq(Argument)
    BY DEF ParsedSet
  <1>3. failed \in ParsedSet
    BY DEF ParsedSet
  <1>4. ReadField(p, kind) =
            IF ~p.ok \/ Len(rest) < w THEN failed
            ELSE IF kind \in IntKinds THEN [ok |-> TRUE, rest |-> body, args |-> Append(args, n)]
            ELSE IF Len(body) < n THEN failed
            ELSE [ok |-> TRUE, rest |-> Drop(body, n), args |-> Append(args, Take(body, n))]
    BY DEF ReadField
  <1>5. CASE ~p.ok \/ Len(rest) < w
    BY <1>3, <1>4, <1>5
  <1>6. CASE ~(~p.ok \/ Len(rest) < w)
    <2> DEFINE front == Take(rest, w)
    <2>1. w \in 0 .. Len(rest)
      <3> HIDE DEF w, rest
      <3> QED
        BY <1>1, <1>2, <1>6
    <2>2. front \in Seq(Nat) /\ Len(front) = w /\ body \in Seq(Nat)
      <3> HIDE DEF w, rest
      <3> QED
        BY <1>2, <2>1, TakeDrop
    <2>3. n \in Int /\ (kind \notin IntKinds => n \in Nat)
      <3> HIDE DEF front
      <3>1. CASE kind # "i64"
        <4>1. Uint(kind, front) \in Nat
          BY <2>2, <3>1, UintTypes, Widths DEF FieldKinds
        <4> QED
          BY <4>1 DEF front
      <3>2. CASE kind = "i64"
        <4>1. Uint64(front) \in Nat /\ Uint(kind, front) = Signed(Uint64(front))
          BY <2>2, <3>2, UintTypes, Widths
        <4>2. Signed(Uint64(front)) \in Int
          BY <4>1, BaseFacts DEF Signed
        <4> QED
          BY <3>2, <4>1, <4>2 DEF front, IntKinds
      <3> QED
        BY <3>1, <3>2
    <2> HIDE DEF n, body, args, rest, w, failed
    <2>4. Append(args, n) \in Seq(Argument)
      <3>1. n \in Argument
        BY <2>3 DEF Argument
      <3> HIDE DEF Argument
      <3> QED
        BY <1>2, <3>1
    <2>5. [ok |-> TRUE, rest |-> body, args |-> Append(args, n)] \in ParsedSet
      BY <2>2, <2>4 DEF ParsedSet
    <2>6. CASE kind \in IntKinds \/ Len(body) < n
      BY <1>3, <1>4, <1>6, <2>5, <2>6
    <2>7. CASE kind \notin IntKinds /\ ~(Len(body) < n)
      <3>1. n \in 0 .. Len(body)
        BY <2>2, <2>3, <2>7
      <3>2. Take(body, n) \in Seq(Nat) /\ Drop(body, n) \in Seq(Nat)
        BY <2>2, <3>1, TakeDrop
      <3>3. Append(args, Take(body, n)) \in Seq(Argument)
        <4>1. Take(body, n) \in Argument
          BY <3>2 DEF Argument
        <4> HIDE DEF Argument
        <4> QED
          BY <1>2, <4>1
      <3>4. [ok |-> TRUE, rest |-> Drop(body, n), args |-> Append(args, Take(body, n))] \in ParsedSet
        BY <3>2, <3>3 DEF ParsedSet
      <3> QED
        BY <1>3, <1>4, <1>6, <2>5, <2>7, <3>4
    <2> QED
      BY <2>6, <2>7
  <1> QED
    BY <1>5, <1>6

\* So does Parse.
LEMMA ParseTypes ==
    ASSUME NEW payload \in Seq(Nat), NEW kinds \in Seq(FieldKinds)
    PROVE  Parse(payload, kinds) \in ParsedSet
  <1>1. Len(kinds) \in Nat /\ \A i \in 1 .. Len(kinds) : kinds[i] \in FieldKinds
    BY ElementOfSeq
  <1>2. PICK f : /\ f[0] = Parsed(payload, <<>>)
                 /\ \A i \in 1 .. Len(kinds) : f[i] = ReadField(f[i - 1], kinds[i])
                 /\ Parse(payload, kinds) = f[Len(kinds)]
    BY <1>1, ParseIs
  <1> DEFINE S == {i \in Nat : i <= Len(kinds) => f[i] \in ParsedSet}
  <1>3. 0 \in S
    <2>1. <<>> \in Seq(Argument)
      BY EmptySeq
    <2> HIDE DEF Argument
    <2>2. Parsed(payload, <<>>) \in ParsedSet
      BY <2>1 DEF Parsed, ParsedSet
    <2> QED
      BY <1>2, <2>2
  <1>4. ASSUME NEW i \in S
        PROVE  i + 1 \in S
    <2> SUFFICES ASSUME i + 1 <= Len(kinds)
                 PROVE  f[i + 1] \in ParsedSet
      OBVIOUS
    <2>1. i \in Nat /\ i <= Len(kinds) /\ i + 1 \in 1 .. Len(kinds) /\ (i + 1) - 1 = i
      BY <1>1
    <2>2. f[i] \in ParsedSet
      BY <2>1
    <2>3. f[i + 1] = ReadField(f[i], kinds[i + 1])
      BY <1>2, <2>1
    <2>4. kinds[i + 1] \in FieldKinds
      BY <1>1, <2>1
    <2> QED
      BY <2>2, <2>3, <2>4, ReadFieldTypes
  <1>5. S \in SUBSET Nat
    OBVIOUS
  <1> HIDE DEF S
  <1>6. Len(kinds) \in S
    BY <1>1, <1>3, <1>4, <1>5, Induction
  <1> QED
    BY <1>1, <1>2, <1>6 DEF S

\* The decoder of an opcode returns a request of that opcode, or none.
LEMMA DecodedOp ==
    ASSUME NEW op \in Nat, NEW p
    PROVE  DecodePayload(op, p).outcome = "ok" => DecodePayload(op, p).op = op
  <1>1. \A q : Accept(op, q).outcome = "ok" => Accept(op, q).op = op
    BY DEF Accept, Request, Invalid
  <1>2. Invalid.outcome # "ok" /\ Crash.outcome # "ok"
    BY DEF Invalid, Crash
  <1>3. CASE op \notin OpNumbers
    <2>1. DecodePayload(op, p) = Invalid
      BY <1>3, OpIs DEF OpNumbers, DecodePayload
    <2> QED
      BY <1>2, <2>1
  <1>4. CASE op \in OpNumbers
    <2>1. OpCases(op)
      BY <1>4, OpsInCases
    <2>2. CASE op \in SingleKeyOps
      <3>1. DecodePayload(op, p) = decodeSimpleRequest(op, p)
        BY <2>2, DecoderIs
      <3> QED
        BY <3>1 DEF decodeSimpleRequest, Request, Invalid, Crash
    <2>3. CASE op = Op.MSet
      <3>1. DecodePayload(op, p) = decodeMSetRequest(p)
        BY <2>3, DecoderIs
      <3> QED
        BY <1>1, <1>2, <2>3, <3>1 DEF decodeMSetRequest
    <2>4. CASE op \in {Op.MGet, Op.MDel}
      <3>1. DecodePayload(op, p) = decodeMGetRequest(op, p)
        BY <2>4, DecoderIs
      <3> QED
        BY <1>1, <1>2, <3>1 DEF decodeMGetRequest
    <2>5. CASE op = Op.SPublishBatch
      <3>1. DecodePayload(op, p) = decodeSPublishBatchRequest(p)
        BY <2>5, OpIs DEF DecodePayload
      <3> QED
        BY <1>1, <1>2, <2>5, <3>1 DEF decodeSPublishBatchRequest
    <2>6. CASE \/ op \in BodyOps \/ op = Op.DocIndex \/ op = Op.SPublish \/ op = Op.SConsume \/ op = Op.SCommit
               \/ op = Op.SCreateTopic \/ op \in {Op.SSubscribe, Op.SUnsubscribe}
      <3> QED
        BY <1>1, <2>6, DecoderIs
    <2> QED
      BY <2>1, <2>2, <2>3, <2>4, <2>5, <2>6 DEF OpCases
  <1> QED
    BY <1>3, <1>4

\* An MGET request that is decoded has a number of keys, whatever bytes it comes from.
LEMMA DecodedKeys ==
    ASSUME NEW data \in Seq(Nat), data # <<>>,
           DecodeRequest(data).outcome = "ok", DecodeRequest(data).op = Op.MGet
    PROVE  Len(DecodeRequest(data).args) \in Nat
  <1> DEFINE end == (5 + Uint32(SubSeq(data, 2, 5))) % Base4
             p == SubSeq(data, 6, end)
  <1>1. DecodeRequest(data) = IF Len(data) < 5 \/ Len(data) < end THEN Invalid
                              ELSE IF end < 5 THEN Crash
                              ELSE DecodePayload(data[1], p)
    BY DEF DecodeRequest
  <1>2. /\ DecodeRequest(data) = DecodePayload(data[1], p)
        /\ ~(Len(data) < 5) /\ ~(Len(data) < end) /\ ~(end < 5)
    <2> HIDE DEF end, p
    <2> QED
      BY <1>1 DEF Invalid, Crash
  <1>3. 1 \in 1 .. Len(data) /\ data[1] \in Nat
    BY ElementOfSeq
  <1>4. data[1] = Op.MGet
    BY <1>2, <1>3, DecodedOp
  <1>5. p \in Seq(Nat)
    <2>1. SubSeq(data, 2, 5) \in Seq(Nat) /\ Len(SubSeq(data, 2, 5)) = 4
      BY <1>2, SMTT(30)
    <2>2. Uint32(SubSeq(data, 2, 5)) \in Nat
      BY <2>1, UintTypes
    <2>3. end \in Nat
      BY <2>2, BaseFacts
    <2> HIDE DEF end
    <2> QED
      BY <1>2, <2>3
  <1> HIDE DEF p
  <1>6. DecodePayload(data[1], p) = decodeMGetRequest(data[1], p)
    BY <1>4, DecoderIs
  <1> DEFINE keys == Parse(Drop(p, 2), Repeat(<<"str">>, Uint16(Take(p, 2))))
  <1>7. decodeMGetRequest(data[1], p) = IF Len(p) < 2 THEN Invalid ELSE Accept(data[1], keys)
    BY DEF decodeMGetRequest
  <1>8. ~(Len(p) < 2)
    <2> HIDE DEF keys
    <2> QED
      BY <1>2, <1>6, <1>7 DEF Invalid
  <1>9. keys \in ParsedSet
    <2>1. 2 \in 0 .. Len(p)
      BY <1>5, <1>8
    <2>2. Drop(p, 2) \in Seq(Nat) /\ Take(p, 2) \in Seq(Nat) /\ Len(Take(p, 2)) = 2
      BY <1>5, <2>1, TakeDrop
    <2>3. Uint16(Take(p, 2)) \in Nat
      BY <2>2, UintTypes
    <2>4. <<"str">> \in Seq(FieldKinds) /\ Len(<<"str">>) > 0
      BY DEF FieldKinds
    <2>5. Repeat(<<"str">>, Uint16(Take(p, 2))) \in Seq(FieldKinds)
      BY <2>3, <2>4, RepeatIs
    <2> QED
      BY <2>2, <2>5, ParseTypes
  <1> HIDE DEF keys
  <1>10. DecodeRequest(data) = Accept(data[1], keys)
    BY <1>2, <1>6, <1>7, <1>8
  <1>11. DecodeRequest(data).args = keys.args
    BY <1>10 DEF Accept, Request, Invalid
  <1>12. keys.args \in Seq(Argument)
    BY <1>9 DEF ParsedSet
  <1> HIDE DEF Argument
  <1> QED
    BY <1>11, <1>12

(***************************************************************************)
(* Answers: the frames that handlers send.                                 *)
(***************************************************************************)
MultiPayload(vs) == PutUint16(Len(vs)) \o FlattenSeq([i \in 1 .. Len(vs) |-> Blob(vs[i])])
Encoded(ms) == [i \in 1 .. Len(ms) |-> EncodeStreamMessage(ms[i])]

OKOps == {Op.Set, Op.Del, Op.MSet, Op.MDel, Op.QPush, Op.QClear, Op.SPublish, Op.SCommit, Op.SCreateTopic,
          Op.SSubscribe, Op.SUnsubscribe, Op.SPublishBatch}
CountOps == {Op.DocUpdate, Op.DocDelete, Op.DocIndex}

Refused(a) == a = Answers(Failed, Frame(Status.Error, ErrorText))
Acknowledged(op, a) == op \in OKOps /\ a = Answers(Done, Frame(Status.OK, <<>>))
WithValue(op, a) ==
    op \in ValueOps /\ \E v \in Values : a = Answers(Returns("value", v), Frame(Status.OK, v))
WithCount(op, a) ==
    op \in CountOps /\ \E v \in Values : a = Answers(Done, Frame(Status.OK, v))
WithValues(op, n, a) ==
    op = Op.MGet /\ \E vs \in [1 .. n -> Values] :
        a = Answers(Returns("values", vs), Frame(Status.MultiValue, MultiPayload(vs)))
WithNumber(op, a) ==
    op = Op.QLen /\ \E n \in Lengths : a = Answers(Returns("number", <<n>>), Frame(Status.OK, PutUint64(n)))
WithMessages(op, a) ==
    op = Op.SConsume /\ \E ms \in Consumed :
        a = Answers(Returns("messages", ms), Frame(Status.MultiValue, MultiPayload(Encoded(ms))))

\* Every answer is one of these.
LEMMA HandleIs ==
    ASSUME NEW req, NEW a \in Handle(req)
    PROVE  \/ Refused(a) \/ Acknowledged(req.op, a) \/ WithValue(req.op, a) \/ WithCount(req.op, a)
           \/ WithValues(req.op, Len(req.args), a) \/ WithNumber(req.op, a) \/ WithMessages(req.op, a)
  <1> DEFINE op == req.op
             n == Len(req.args)
  <1>1. \/ a = Refusal \/ a \in KVHandlers(req) \/ a \in QueueHandlers(req)
        \/ a \in StreamHandlers(req) \/ a \in DocHandlers(req)
    BY DEF Handle
  <1>2. CASE a = Refusal
    BY <1>2 DEF Refusal, EncodeErrorResponse, Refused
  <1>3. CASE a \in KVHandlers(req)
    <2>1. CASE op \in {Op.Set, Op.Del, Op.MSet, Op.MDel}
      <3>1. KVHandlers(req) = {Answers(Done, EncodeOKResponse)}
        BY <2>1, OpIs, SMTT(30) DEF KVHandlers
      <3> QED
        BY <1>3, <2>1, <3>1 DEF Acknowledged, OKOps, EncodeOKResponse
    <2>2. CASE op = Op.Get
      <3>1. KVHandlers(req) = {Answers(Returns("value", v), EncodeValueResponse(v)) : v \in Values}
        BY <2>2, OpIs DEF KVHandlers
      <3> QED
        BY <1>3, <2>2, <3>1 DEF WithValue, ValueOps, EncodeValueResponse
    <2>3. CASE op = Op.MGet
      <3>1. KVHandlers(req) = {Answers(Returns("values", vs), EncodeMultiValueResponse(vs)) : vs \in [1 .. n -> Values]}
        BY <2>3, OpIs DEF KVHandlers
      <3>2. PICK vs \in [1 .. n -> Values] : a = Answers(Returns("values", vs), EncodeMultiValueResponse(vs))
        BY <1>3, <3>1
      <3>3. EncodeMultiValueResponse(vs) = Frame(Status.MultiValue, MultiPayload(vs))
        BY DEF EncodeMultiValueResponse, MultiPayload
      <3>4. WithValues(op, n, a)
        BY <2>3, <3>2, <3>3 DEF WithValues
      <3> QED
        BY <3>4
    <2>4. CASE op \notin {Op.Set, Op.Del, Op.MSet, Op.MDel, Op.Get, Op.MGet}
      BY <1>3, <2>4 DEF KVHandlers
    <2> QED
      BY <2>1, <2>2, <2>3, <2>4
  <1>4. CASE a \in QueueHandlers(req)
    <2>1. CASE op \in {Op.QPush, Op.QClear}
      <3>1. QueueHandlers(req) = {Answers(Done, EncodeOKResponse)}
        BY <2>1, OpIs DEF QueueHandlers
      <3> QED
        BY <1>4, <2>1, <3>1 DEF Acknowledged, OKOps, EncodeOKResponse
    <2>2. CASE op \in {Op.QPop, Op.QPeek}
      <3>1. QueueHandlers(req) = {Answers(Returns("value", v), EncodeValueResponse(v)) : v \in Values}
        BY <2>2, OpIs DEF QueueHandlers
      <3> QED
        BY <1>4, <2>2, <3>1 DEF WithValue, ValueOps, EncodeValueResponse
    <2>3. CASE op = Op.QLen
      <3>1. QueueHandlers(req) = {Answers(Returns("number", <<k>>), EncodeValueResponse(PutUint64(k))) : k \in Lengths}
        BY <2>3, OpIs DEF QueueHandlers
      <3> QED
        BY <1>4, <2>3, <3>1 DEF WithNumber, EncodeValueResponse
    <2>4. CASE op \notin {Op.QPush, Op.QClear, Op.QPop, Op.QPeek, Op.QLen}
      BY <1>4, <2>4 DEF QueueHandlers
    <2> QED
      BY <2>1, <2>2, <2>3, <2>4
  <1>5. CASE a \in StreamHandlers(req)
    <2> DEFINE oks == {Op.SPublish, Op.SCommit, Op.SCreateTopic, Op.SSubscribe, Op.SUnsubscribe, Op.SPublishBatch}
    <2>1. CASE op \in oks
      <3>1. req.op # Op.SConsume
        BY <2>1, OpIs
      <3>2. StreamHandlers(req) = {Answers(Done, EncodeOKResponse)}
        BY <2>1, <3>1, Zenon DEF StreamHandlers
      <3> QED
        BY <1>5, <2>1, <3>2 DEF Acknowledged, OKOps, EncodeOKResponse
    <2>2. CASE op = Op.SConsume
      <3>1. StreamHandlers(req) =
                {Answers(Returns("messages", ms),
                         EncodeMultiValueResponse([i \in 1 .. Len(ms) |-> EncodeStreamMessage(ms[i])])) :
                    ms \in {s \in Consumed : Len(s) <= 1 \/ Len(s) <= req.args[4]}}
        BY <2>2, OpIs DEF StreamHandlers
      <3>2. PICK ms \in Consumed :
                a = Answers(Returns("messages", ms),
                            EncodeMultiValueResponse([i \in 1 .. Len(ms) |-> EncodeStreamMessage(ms[i])]))
        BY <1>5, <3>1
      <3>3. WithMessages(op, a)
        BY <2>2, <3>2 DEF WithMessages, EncodeMultiValueResponse, MultiPayload, Encoded
      <3> QED
        BY <3>3
    <2>3. CASE op \notin oks /\ op # Op.SConsume
      BY <1>5, <2>3 DEF StreamHandlers
    <2> QED
      BY <2>1, <2>2, <2>3
  <1>6. CASE a \in DocHandlers(req)
    <2>1. CASE op \in {Op.DocInsert, Op.DocFind}
      <3>1. DocHandlers(req) = {Answers(Returns("value", v), EncodeValueResponse(v)) : v \in Values}
        BY <2>1, OpIs DEF DocHandlers
      <3> QED
        BY <1>6, <2>1, <3>1 DEF WithValue, ValueOps, EncodeValueResponse
    <2>2. CASE op \in CountOps
      <3>1. DocHandlers(req) = {Answers(Done, EncodeValueResponse(v)) : v \in Values}
        BY <2>2, OpIs DEF DocHandlers, CountOps
      <3> QED
        BY <1>6, <2>2, <3>1 DEF WithCount, EncodeValueResponse
    <2>3. CASE op \notin {Op.DocInsert, Op.DocFind} /\ op \notin CountOps
      BY <1>6, <2>3 DEF DocHandlers, CountOps
    <2> QED
      BY <2>1, <2>2, <2>3
  <1> QED
    BY <1>1, <1>2, <1>3, <1>4, <1>5, <1>6

\* A multi-value payload is bytes.
LEMMA MultiBytes ==
    ASSUME NEW vs \in Seq(Seq(Byte))
    PROVE  MultiPayload(vs) \in Seq(Byte)
  <1> DEFINE fs == [i \in 1 .. Len(vs) |-> Blob(vs[i])]
             n == Len(vs)
  <1>1. n \in Nat
    OBVIOUS
  <1>2. PutUint16(n) \in Seq(Byte)
    BY <1>1, Put16
  <1>3. ASSUME NEW i \in 1 .. n
        PROVE  Blob(vs[i]) \in Seq(Byte)
    <2> DEFINE v == vs[i]
    <2>1. v \in Seq(Byte)
      BY ElementOfSeq
    <2> HIDE DEF v
    <2>2. Len(v) \in Nat
      BY <2>1
    <2>3. PutUint32(Len(v)) \in Seq(Byte)
      BY <2>2, Put32
    <2>4. PutUint32(Len(v)) \o v \in Seq(Byte)
      BY <2>1, <2>3
    <2> QED
      BY <2>4 DEF Blob, v
  <1>4. fs \in Seq(Seq(Byte)) /\ Len(fs) = n
    BY <1>1, <1>3, IsASeq
  <1>5. FlattenSeq(fs) \in Seq(Byte)
    <2> HIDE DEF fs
    <2>1. PICK P \in [0 .. Len(fs) -> Seq(Byte)] : FlattenSeq(fs) = P[Len(fs)]
      BY <1>4, Fronts
    <2>2. Len(fs) \in 0 .. Len(fs)
      BY <1>4
    <2> QED
      BY <2>1, <2>2
  <1>6. MultiPayload(vs) = PutUint16(n) \o FlattenSeq(fs)
    BY DEF MultiPayload
  <1> HIDE DEF fs, n
  <1> QED
    BY <1>2, <1>5, <1>6

\* The client reads it back.
LEMMA MultiRead ==
    ASSUME NEW vs, NEW n \in Nat, n < Base2, vs = [i \in 1 .. n |-> vs[i]],
           \A i \in 1 .. n : Fits("blob", vs[i])
    PROVE  /\ Multi(MultiPayload(vs)) = Parsed(<<>>, vs)
           /\ MultiPayload(vs) \in Seq(Byte) /\ Len(MultiPayload(vs)) >= 2
  <1> DEFINE ks == Repeat(<<"blob">>, n)
             head == PutUint16(n)
             tail == Fields(ks, vs)
  <1>1. ks = [i \in 1 .. n |-> "blob"]
    BY Repeats
  <1>2. Len(vs) = n
    OBVIOUS
  <1> HIDE DEF ks
  <1>3. Len(ks) = n /\ \A i \in 1 .. n : ks[i] = "blob"
    BY <1>1
  <1>4. ks \in Seq(FieldKinds)
    <2>1. "blob" \in FieldKinds
      BY DEF FieldKinds
    <2> QED
      BY <1>1, <2>1, IsASeq
  <1>5. AllFit(ks, vs)
    BY <1>2, <1>3 DEF AllFit
  <1>6. tail \in Seq(Byte) /\ Parse(tail, ks) = Parsed(<<>>, vs)
    <2>1. ArgsRead(ks, vs) = vs
      BY <1>3 DEF ArgsRead, AsRead
    <2> QED
      BY <1>4, <1>5, <2>1, RoundTrip
  <1>7. tail = FlattenSeq([i \in 1 .. n |-> Blob(vs[i])])
    <2>1. FieldList(ks, vs) = [i \in 1 .. n |-> Field(ks[i], vs[i])]
      BY <1>3 DEF FieldList
    <2>2. \A i \in 1 .. n : Field(ks[i], vs[i]) = Blob(vs[i])
      BY <1>3, FieldIs
    <2>3. FieldList(ks, vs) = [i \in 1 .. n |-> Blob(vs[i])]
      BY <2>1, <2>2
    <2> QED
      BY <2>3 DEF Fields
  <1>8. MultiPayload(vs) = head \o tail
    BY <1>2, <1>7 DEF MultiPayload
  <1>9. head \in Seq(Byte) /\ Len(head) = 2 /\ Uint16(head) = n % Base2
    BY Put16
  <1>10. n % Base2 = n
    BY BaseFacts, ModSmall
  <1> HIDE DEF head, tail
  <1>11. head \in Seq(Nat) /\ tail \in Seq(Nat) /\ head \o tail \in Seq(Byte)
    BY <1>6, <1>9, ByteSeq
  <1> DEFINE p == head \o tail
  <1>12. Len(p) = Len(head) + Len(tail) /\ Take(p, Len(head)) = head /\ Drop(p, Len(head)) = tail
    BY <1>11, Split
  <1>13. Len(p) >= 2 /\ Take(p, 2) = head /\ Drop(p, 2) = tail /\ ~(Len(p) < 2)
    BY <1>9, <1>11, <1>12
  <1> HIDE DEF p
  <1>14. Multi(p) = Parsed(<<>>, vs)
    BY <1>6, <1>9, <1>10, <1>13 DEF Multi, ks
  <1> QED
    BY <1>8, <1>11, <1>13, <1>14 DEF p

\* A stream message is bytes, from which the client gets it back.
LEMMA MessageIs ==
    ASSUME NEW m \in Messages
    PROVE  EncodeStreamMessage(m) \in Seq(Byte) /\ decodeStreamMessage(EncodeStreamMessage(m)) = Parsed(<<>>, m)
  <1> DEFINE ks == <<"u64", "i64", "str", "blob">>
  <1>1. ks \in Seq(FieldKinds)
    BY DEF FieldKinds
  <1>2. AllFit(ks, m) /\ ArgsRead(ks, m) = m
    BY AnswersFit
  <1>3. EncodeStreamMessage(m) = Fields(ks, m)
    BY Shapes DEF EncodeStreamMessage
  <1>4. \A d : decodeStreamMessage(d) = Parse(d, ks)
    BY DEF decodeStreamMessage
  <1> HIDE DEF ks
  <1>5. Fields(ks, m) \in Seq(Byte) /\ Parse(Fields(ks, m), ks) = Parsed(<<>>, m)
    BY <1>1, <1>2, RoundTrip
  <1> QED
    BY <1>3, <1>4, <1>5

\* The messages of an answer are bytes one by one.
LEMMA EncodedIs ==
    ASSUME NEW ms \in Consumed
    PROVE  /\ Len(ms) \in Nat /\ ms = [i \in 1 .. Len(ms) |-> ms[i]]
           /\ \A i \in 1 .. Len(ms) : ms[i] \in Messages
           /\ Len(Encoded(ms)) = Len(ms) /\ Encoded(ms) \in Seq(Seq(Byte))
           /\ \A i \in 1 .. Len(ms) : Encoded(ms)[i] = EncodeStreamMessage(ms[i])
  <1>1. ms \in Seq(Messages)
    BY AnswersFit
  <1>2. Len(ms) \in Nat /\ ms = [i \in 1 .. Len(ms) |-> ms[i]] /\ \A i \in 1 .. Len(ms) : ms[i] \in Messages
    BY <1>1
  <1>3. \A i \in 1 .. Len(ms) : EncodeStreamMessage(ms[i]) \in Seq(Byte)
    BY <1>2, MessageIs
  <1>4. Encoded(ms) = [i \in 1 .. Len(ms) |-> EncodeStreamMessage(ms[i])]
    BY DEF Encoded
  <1>5. Encoded(ms) \in Seq(Seq(Byte)) /\ Len(Encoded(ms)) = Len(ms)
    BY <1>2, <1>3, <1>4, IsASeq
  <1>6. \A i \in 1 .. Len(ms) : Encoded(ms)[i] = EncodeStreamMessage(ms[i])
    BY <1>4
  <1> QED
    BY <1>2, <1>5, <1>6

\* Every answer is a frame of bytes, to whatever request.
LEMMA AnswerIsFrame ==
    ASSUME NEW req, req.op = Op.MGet => Len(req.args) \in Nat, NEW a \in Handle(req)
    PROVE  \E st \in {0, 1, 4} : \E p \in Seq(Byte) : a.bytes = Frame(st, p)
  <1> DEFINE op == req.op
             n == Len(req.args)
  <1>1. Status.OK = 0 /\ Status.Error = 1 /\ Status.MultiValue = 4
    BY Letters
  <1>2. \A r, b : Answers(r, b).bytes = b
    BY DEF Answers
  <1>3. \A v \in Values : v \in Seq(Byte)
    BY AnswersFit, FitsIs
  <1>4. CASE Refused(a)
    <2>1. ErrorText \in Seq(Byte)
      BY AnswersFit, FitsIs
    <2> QED
      BY <1>1, <1>2, <1>4, <2>1 DEF Refused
  <1>5. CASE Acknowledged(op, a)
    <2>1. <<>> \in Seq(Byte)
      BY EmptySeq
    <2> QED
      <3>1. a = Answers(Done, Frame(0, <<>>))
        BY <1>1, <1>5, Zenon DEF Acknowledged
      <3>2. a.bytes = Frame(0, <<>>)
        BY <1>2, <3>1, Zenon
      <3>3. 0 \in {0, 1, 4}
        OBVIOUS
      <3> QED
        BY <2>1, <3>2, <3>3, Zenon
  <1>6. CASE WithValue(op, a)
    BY <1>1, <1>2, <1>3, <1>6 DEF WithValue
  <1>7. CASE WithCount(op, a)
    BY <1>1, <1>2, <1>3, <1>7 DEF WithCount
  <1>8. CASE WithValues(op, n, a)
    <2>1. n \in Nat
      BY <1>8 DEF WithValues
    <2> HIDE DEF n
    <2>2. PICK vs \in [1 .. n -> Values] :
              a = Answers(Returns("values", vs), Frame(Status.MultiValue, MultiPayload(vs)))
      BY <1>8 DEF WithValues
    <2>3. vs \in Seq(Seq(Byte))
      <3>1. vs = [i \in 1 .. n |-> vs[i]] /\ \A i \in 1 .. n : vs[i] \in Seq(Byte)
        BY <1>3, <2>2
      <3> QED
        BY <2>1, <3>1, IsASeq
    <2>4. MultiPayload(vs) \in Seq(Byte)
      BY <2>3, MultiBytes
    <2> QED
      BY <1>1, <1>2, <2>2, <2>4
  <1>9. CASE WithNumber(op, a)
    <2>1. PICK k \in Lengths : a = Answers(Returns("number", <<k>>), Frame(Status.OK, PutUint64(k)))
      BY <1>9 DEF WithNumber
    <2>2. PutUint64(k) \in Seq(Byte)
      BY AnswersFit, Put64
    <2> QED
      BY <1>1, <1>2, <2>1, <2>2
  <1>10. CASE WithMessages(op, a)
    <2>1. PICK ms \in Consumed :
              a = Answers(Returns("messages", ms), Frame(Status.MultiValue, MultiPayload(Encoded(ms))))
      BY <1>10 DEF WithMessages
    <2>2. Encoded(ms) \in Seq(Seq(Byte))
      BY <2>1, EncodedIs
    <2>3. MultiPayload(Encoded(ms)) \in Seq(Byte)
      BY <2>2, MultiBytes
    <2> QED
      BY <1>1, <1>2, <2>1, <2>3
  <1> QED
    BY <1>4, <1>5, <1>6, <1>7, <1>8, <1>9, <1>10, HandleIs

\* Which reader an answer goes to.
LEMMA ResultIs ==
    ASSUME NEW op, NEW st, NEW p
    PROVE  /\ op \in ValueOps => Result(op, st, p) = readValueResponse(st, p)
           /\ op = Op.MGet => Result(op, st, p) = readMultiValueResponse(st, p)
           /\ op \in {Op.QLen, Op.Incr, Op.Decr} => Result(op, st, p) = readNumber(st, p)
           /\ op = Op.SConsume => Result(op, st, p) = readMessages(st, p)
           /\ op = Op.Exists => Result(op, st, p) = readExists(st, p)
           /\ op \notin ValueOps \cup {Op.MGet, Op.QLen, Op.Incr, Op.Decr, Op.SConsume, Op.Exists} =>
                Result(op, st, p) = readOKResponse(st, p)
  <1>1. ASSUME op \in ValueOps
        PROVE  Result(op, st, p) = readValueResponse(st, p)
    <2>1. op \notin {Op.MGet, Op.QLen, Op.Incr, Op.Decr, Op.SConsume, Op.Exists}
      BY <1>1, OpIs DEF ValueOps
    <2> QED
      BY <1>1, <2>1 DEF Result
  <1>2. ASSUME op = Op.MGet
        PROVE  Result(op, st, p) = readMultiValueResponse(st, p)
    <2>1. op \notin ValueOps /\ op \notin {Op.QLen, Op.Incr, Op.Decr} /\ op # Op.SConsume /\ op # Op.Exists
      BY <1>2, OpIs DEF ValueOps
    <2> QED
      BY <1>2, <2>1 DEF Result
  <1>3. ASSUME op \in {Op.QLen, Op.Incr, Op.Decr}
        PROVE  Result(op, st, p) = readNumber(st, p)
    <2>1. op \notin ValueOps /\ op # Op.MGet /\ op # Op.SConsume /\ op # Op.Exists
      BY <1>3, OpIs DEF ValueOps
    <2> QED
      BY <1>3, <2>1, Zenon DEF Result
  <1>4. ASSUME op = Op.SConsume
        PROVE  Result(op, st, p) = readMessages(st, p)
    <2>1. op \notin ValueOps /\ op # Op.MGet /\ op \notin {Op.QLen, Op.Incr, Op.Decr} /\ op # Op.Exists
      BY <1>4, OpIs DEF ValueOps
    <2> QED
      BY <1>4, <2>1 DEF Result
  <1>5. ASSUME op = Op.Exists
        PROVE  Result(op, st, p) = readExists(st, p)
    <2>1. op \notin ValueOps /\ op # Op.MGet /\ op \notin {Op.QLen, Op.Incr, Op.Decr} /\ op # Op.SConsume
      BY <1>5, OpIs DEF ValueOps
    <2> QED
      BY <1>5, <2>1 DEF Result
  <1>6. ASSUME op \notin ValueOps \cup {Op.MGet, Op.QLen, Op.Incr, Op.Decr, Op.SConsume, Op.Exists}
        PROVE  Result(op, st, p) = readOKResponse(st, p)
    BY <1>6 DEF Result
  <1> QED
    BY <1>1, <1>2, <1>3, <1>4, <1>5, <1>6

Expected(op, result) == IF op = Op.Exists THEN Returns("found", <<FALSE>>) ELSE result

\* The client's readers take a status and a payload for what the server meant, and leave
\* a payload unread only of a refused EXISTS or SCONSUME.  Of too many messages they make
\* something else.
Understood(op, st, p, result) ==
    \/ /\ LeavesPayload(op, st, Len(p)) /\ op \in {Op.Exists, Op.SConsume} /\ result = Failed
       /\ Result(op, st, <<>>) = Expected(op, result)
    \/ ~LeavesPayload(op, st, Len(p)) /\ (Result(op, st, p) = Expected(op, result) \/ TooMany(result))

\* A refusal is understood.
LEMMA RefusalRead ==
    ASSUME NEW op, NEW p
    PROVE  Understood(op, 1, p, Failed)
  <1>1. Status.OK = 0 /\ Status.Error = 1 /\ Status.NotFound = 2 /\ Status.MultiValue = 4
    BY Letters
  <1>2. CASE op = Op.Exists
    <2>1. LeavesPayload(op, 1, Len(p))
      BY <1>1, <1>2 DEF LeavesPayload
    <2>2. Result(op, 1, <<>>) = readExists(1, <<>>)
      BY <1>2, ResultIs
    <2>3. (1 = Status.OK /\ Len(<<>>) > 0 /\ <<>>[1] = 1) = FALSE
      BY <1>1
    <2>4. readExists(1, <<>>) = Returns("found", <<FALSE>>)
      BY <2>3, Zenon DEF readExists
    <2> QED
      BY <1>2, <2>1, <2>2, <2>4 DEF Understood, Expected
  <1>3. CASE op = Op.SConsume
    <2>1. LeavesPayload(op, 1, Len(p))
      BY <1>1, <1>3 DEF LeavesPayload
    <2>2. Result(op, 1, <<>>) = readMessages(1, <<>>)
      BY <1>3, ResultIs
    <2>3. readMessages(1, <<>>) = Failed
      BY <1>1 DEF readMessages
    <2>4. op # Op.Exists
      BY <1>3, OpIs
    <2> QED
      BY <1>3, <2>1, <2>2, <2>3, <2>4 DEF Understood, Expected
  <1>4. CASE op # Op.Exists /\ op # Op.SConsume
    <2>1. ~LeavesPayload(op, 1, Len(p))
      BY <1>1, <1>4 DEF LeavesPayload
    <2>2. CASE op \in ValueOps
      <3>1. Result(op, 1, p) = readValueResponse(1, p)
        BY <2>2, ResultIs
      <3> QED
        BY <1>1, <1>4, <2>1, <3>1 DEF Understood, Expected, readValueResponse
    <2>3. CASE op = Op.MGet
      <3>1. Result(op, 1, p) = readMultiValueResponse(1, p)
        BY <2>3, ResultIs
      <3> QED
        BY <1>1, <1>4, <2>1, <3>1 DEF Understood, Expected, readMultiValueResponse
    <2>4. CASE op \in {Op.QLen, Op.Incr, Op.Decr}
      <3>1. Result(op, 1, p) = readNumber(1, p)
        BY <2>4, ResultIs
      <3> QED
        BY <1>1, <1>4, <2>1, <3>1 DEF Understood, Expected, readNumber
    <2>5. CASE op \notin ValueOps \cup {Op.MGet, Op.QLen, Op.Incr, Op.Decr}
      <3>1. Result(op, 1, p) = readOKResponse(1, p)
        BY <1>4, <2>5, ResultIs
      <3> QED
        BY <1>1, <1>4, <2>1, <3>1 DEF Understood, Expected, readOKResponse
    <2> QED
      BY <2>2, <2>3, <2>4, <2>5
  <1> QED
    BY <1>2, <1>3, <1>4

\* Every answer to a call is understood: the readers take a response apart the way the
\* handlers put it together.
THEOREM AnswerRead ==
    ASSUME NEW c \in Calls, NEW a \in Handle(Arriving(c))
    PROVE  \E st \in {0, 1, 4} : \E p \in Seq(Byte) :
              /\ a.bytes = Frame(st, p) /\ 5 + Len(p) < Base4
              /\ Understood(c.op, st, p, a.reply)
  <1> DEFINE op == c.op
             n == Len(c.args)
             req == Arriving(c)
  <1>1. Status.OK = 0 /\ Status.Error = 1 /\ Status.NotFound = 2 /\ Status.MultiValue = 4
    BY Letters
  <1>2. req.op = op /\ Len(req.args) = n /\ n \in Nat
    <2>1. /\ req.op = op /\ req.args = ArgsRead(Kinds(op, n), c.args)
          /\ Len(Kinds(op, n)) = n /\ n \in Nat
      BY CallIs DEF Arriving, Request, AllFit
    <2>2. Len(ArgsRead(Kinds(op, n), c.args)) = n
      <3> HIDE DEF n
      <3> QED
        BY <2>1 DEF ArgsRead
    <2> QED
      BY <2>1, <2>2
  <1>3. Len(a.bytes) < Base4
    BY AnswersFit
  <1>4. \A st \in {0, 1, 4} : \A p \in Seq(Byte) : a.bytes = Frame(st, p) => 5 + Len(p) < Base4
    <2> SUFFICES ASSUME NEW st \in {0, 1, 4}, NEW p \in Seq(Byte), a.bytes = Frame(st, p)
                 PROVE  5 + Len(p) < Base4
      OBVIOUS
    <2>1. st \in Letter
      BY <1>1, Letters
    <2>2. Len(Frame(st, p)) = 5 + Len(p)
      BY <2>1, FrameBytes
    <2> QED
      BY <1>3, <2>2
  <1>5. \A r, b : Answers(r, b).bytes = b /\ Answers(r, b).reply = r
    BY DEF Answers
  <1>6. \A v \in Values : v \in Seq(Byte) /\ Fits("blob", v)
    BY AnswersFit, FitsIs
  <1> SUFFICES \E st \in {0, 1, 4} : \E p \in Seq(Byte) : a.bytes = Frame(st, p) /\ Understood(op, st, p, a.reply)
    BY <1>4
  <1>7. op # Op.Exists => Expected(op, a.reply) = a.reply
    BY DEF Expected
  <1>8. op # Op.Exists => \A k : ~LeavesPayload(op, 0, k)
    BY <1>1 DEF LeavesPayload
  <1>9. op # Op.Exists => \A k : ~LeavesPayload(op, 4, k)
    BY <1>1 DEF LeavesPayload
  <1>10. \/ Refused(a) \/ Acknowledged(op, a) \/ WithValue(op, a) \/ WithCount(op, a)
        \/ WithValues(op, n, a) \/ WithNumber(op, a) \/ WithMessages(op, a)
    BY <1>2, HandleIs
  <1> HIDE DEF op, n, req
  <1>11. CASE Refused(a)
    <2>1. ErrorText \in Seq(Byte)
      BY AnswersFit, FitsIs
    <2>2. a.bytes = Frame(1, ErrorText) /\ a.reply = Failed
      BY <1>1, <1>5, <1>11 DEF Refused
    <2>3. Understood(op, 1, ErrorText, Failed)
      BY RefusalRead
    <2> QED
      BY <2>1, <2>2, <2>3
  <1>12. CASE Acknowledged(op, a)
    <2>1. <<>> \in Seq(Byte)
      BY EmptySeq
    <2>2. a.bytes = Frame(0, <<>>) /\ a.reply = Done /\ op \in OKOps
      BY <1>1, <1>5, <1>12 DEF Acknowledged
    <2>3. op \notin ValueOps \cup {Op.MGet, Op.QLen, Op.Incr, Op.Decr, Op.SConsume, Op.Exists}
      <3>1. op \in {1, 3, 16, 18, 32, 36, 48, 50, 51, 52, 53, 55}
        BY <2>2, OpIs DEF OKOps
      <3>2. ValueOps = {2, 33, 34, 64, 65}
        BY OpIs DEF ValueOps
      <3> QED
        BY <3>1, <3>2, OpIs
    <2>4. Result(op, 0, <<>>) = Done
      BY <1>1, <2>3, ResultIs DEF readOKResponse
    <2>5. Understood(op, 0, <<>>, a.reply)
      BY <1>7, <1>8, <2>2, <2>3, <2>4 DEF Understood
    <2> QED
      BY <2>1, <2>2, <2>5
  <1>13. CASE WithValue(op, a)
    <2>1. PICK v \in Values : a = Answers(Returns("value", v), Frame(Status.OK, v))
      BY <1>13 DEF WithValue
    <2>2. op \in ValueOps /\ op # Op.Exists
      BY <1>13, OpIs DEF WithValue, ValueOps
    <2>3. a.bytes = Frame(0, v) /\ a.reply = Returns("value", v)
      BY <1>1, <1>5, <2>1
    <2>4. Result(op, 0, v) = Returns("value", v)
      BY <1>1, <2>2, ResultIs DEF readValueResponse
    <2>5. Understood(op, 0, v, a.reply)
      BY <1>7, <1>8, <2>2, <2>3, <2>4 DEF Understood
    <2> QED
      BY <1>6, <2>3, <2>5
  <1>14. CASE WithCount(op, a)
    <2>1. PICK v \in Values : a = Answers(Done, Frame(Status.OK, v))
      BY <1>14 DEF WithCount
    <2>2. op \notin ValueOps \cup {Op.MGet, Op.QLen, Op.Incr, Op.Decr, Op.SConsume, Op.Exists}
      BY <1>14, OpIs DEF WithCount, CountOps, ValueOps
    <2>3. a.bytes = Frame(0, v) /\ a.reply = Done
      BY <1>1, <1>5, <2>1
    <2>4. Result(op, 0, v) = Done
      BY <1>1, <2>2, ResultIs DEF readOKResponse
    <2>5. Understood(op, 0, v, a.reply)
      BY <1>7, <1>8, <2>2, <2>3, <2>4 DEF Understood
    <2> QED
      BY <1>6, <2>3, <2>5
  <1>15. CASE WithValues(op, n, a)
    <2>1. PICK vs \in [1 .. n -> Values] :
              a = Answers(Returns("values", vs), Frame(Status.MultiValue, MultiPayload(vs)))
      BY <1>15 DEF WithValues
    <2> DEFINE p == MultiPayload(vs)
    <2>2. op = Op.MGet /\ op # Op.Exists
      BY <1>15, OpIs DEF WithValues
    <2>3. a.bytes = Frame(4, p) /\ a.reply = Returns("values", vs)
      BY <1>1, <1>5, <2>1
    <2>4. n < Base2
      BY <2>2, CallsFit DEF op, n
    <2>5. vs = [i \in 1 .. n |-> vs[i]] /\ \A i \in 1 .. n : Fits("blob", vs[i])
      BY <1>6, <2>1
    <2>6. Multi(p) = Parsed(<<>>, vs) /\ p \in Seq(Byte) /\ Len(p) >= 2
      BY <1>2, <2>4, <2>5, MultiRead
    <2> HIDE DEF p
    <2>7. readMultiValueResponse(4, p) = Returns("values", vs)
      <3>1. Len(p) # 0
        BY <2>6
      <3>2. Parsed(<<>>, vs).ok /\ Parsed(<<>>, vs).args = vs
        BY DEF Parsed
      <3> QED
        BY <1>1, <2>6, <3>1, <3>2 DEF readMultiValueResponse
    <2>8. Result(op, 4, p) = Returns("values", vs)
      BY <2>2, <2>7, ResultIs
    <2>9. Understood(op, 4, p, a.reply)
      BY <1>7, <1>9, <2>2, <2>3, <2>8 DEF Understood
    <2> QED
      BY <2>3, <2>6, <2>9
  <1>16. CASE WithNumber(op, a)
    <2>1. PICK k \in Lengths : a = Answers(Returns("number", <<k>>), Frame(Status.OK, PutUint64(k)))
      BY <1>16 DEF WithNumber
    <2>2. k \in Nat /\ 2 * k < Base8
      BY AnswersFit
    <2> DEFINE p == PutUint64(k)
    <2>3. op = Op.QLen /\ op # Op.Exists
      BY <1>16, OpIs DEF WithNumber
    <2>4. a.bytes = Frame(0, p) /\ a.reply = Returns("number", <<k>>)
      BY <1>1, <1>5, <2>1
    <2>5. p \in Seq(Byte) /\ Len(p) = 8 /\ Uint64(p) = k % Base8
      BY <2>2, Put64
    <2>6. k % Base8 = k /\ Signed(k) = k
      <3>1. k \in 0 .. Base8 - 1 /\ Base8 \in Nat
        BY <2>2, BaseFacts
      <3> QED
        BY <2>2, <3>1, BaseFacts, ModSmall DEF Signed
    <2> HIDE DEF p
    <2>7. readNumber(0, p) = Returns("number", <<k>>)
      BY <1>1, <2>5, <2>6 DEF readNumber
    <2>8. Result(op, 0, p) = Returns("number", <<k>>)
      BY <2>3, <2>7, ResultIs
    <2>9. Understood(op, 0, p, a.reply)
      BY <1>7, <1>8, <2>3, <2>4, <2>8 DEF Understood
    <2> QED
      BY <2>4, <2>5, <2>9
  <1>17. CASE WithMessages(op, a)
    <2>1. PICK ms \in Consumed :
              a = Answers(Returns("messages", ms), Frame(Status.MultiValue, MultiPayload(Encoded(ms))))
      BY <1>17 DEF WithMessages
    <2> DEFINE es == Encoded(ms)
               p == MultiPayload(es)
               k == Len(ms)
    <2>2. op = Op.SConsume /\ op # Op.Exists
      BY <1>17, OpIs DEF WithMessages
    <2>3. a.bytes = Frame(4, p) /\ a.reply = Returns("messages", ms)
      BY <1>1, <1>5, <2>1
    <2>4. /\ k \in Nat /\ ms = [i \in 1 .. k |-> ms[i]] /\ \A i \in 1 .. k : ms[i] \in Messages
          /\ Len(es) = k /\ es \in Seq(Seq(Byte)) /\ \A i \in 1 .. k : es[i] = EncodeStreamMessage(ms[i])
      BY EncodedIs
    <2>5. p \in Seq(Byte) /\ 5 + Len(p) < Base4
      <3>1. p \in Seq(Byte)
        BY <2>4, MultiBytes
      <3> HIDE DEF p
      <3> QED
        BY <1>4, <2>3, <3>1
    <2>6. \A i \in 1 .. k : Fits("blob", es[i])
      BY <2>4, AnswersFit
    <2>7. es = [i \in 1 .. k |-> es[i]]
      BY <2>4
    <2>8. CASE ~(k < Base2)
      <3>1. TooMany(a.reply)
        BY <2>3, <2>4, <2>8, BaseFacts DEF TooMany, Returns
      <3>2. Understood(op, 4, p, a.reply)
        BY <1>9, <2>2, <3>1 DEF Understood
      <3> QED
        BY <2>3, <2>5, <3>2
    <2> SUFFICES ASSUME k < Base2
                 PROVE  \E st \in {0, 1, 4} : \E q \in Seq(Byte) : a.bytes = Frame(st, q) /\ Understood(op, st, q, a.reply)
      BY <2>8
    <2> HIDE DEF es, k
    <2>9. Multi(p) = Parsed(<<>>, es)
      BY <2>4, <2>6, <2>7, MultiRead
    <2> HIDE DEF p
    <2>10. DOMAIN es = 1 .. k
      BY <2>7
    <2>11. \A i \in 1 .. k : decodeStreamMessage(es[i]) = Parsed(<<>>, ms[i])
      BY <2>4, MessageIs
    <2>12. readMessages(4, p) = Returns("messages", ms)
      <3> DEFINE values == Multi(p)
                 parsed == [i \in DOMAIN values.args |-> decodeStreamMessage(values.args[i])]
      <3>1. values.ok /\ values.args = es
        BY <2>9 DEF Parsed
      <3>2. parsed = [i \in 1 .. k |-> Parsed(<<>>, ms[i])]
        <4> HIDE DEF values
        <4> QED
          BY <2>10, <2>11, <3>1
      <3>3. \A i \in 1 .. k : Parsed(<<>>, ms[i]).ok /\ Parsed(<<>>, ms[i]).args = ms[i]
        BY DEF Parsed
      <3>4. readMessages(4, p) =
                IF 4 = Status.OK THEN Returns("messages", <<>>)
                ELSE IF 4 = Status.MultiValue /\ values.ok /\ (\A i \in DOMAIN parsed : parsed[i].ok)
                     THEN Returns("messages", [i \in DOMAIN parsed |-> parsed[i].args])
                ELSE Failed
        BY DEF readMessages
      <3> HIDE DEF parsed, values
      <3>5. DOMAIN parsed = 1 .. k /\ \A i \in DOMAIN parsed : parsed[i].ok /\ parsed[i].args = ms[i]
        BY <3>2, <3>3
      <3>6. [i \in DOMAIN parsed |-> parsed[i].args] = ms
        BY <2>4, <3>5
      <3>7. 4 # Status.OK /\ 4 = Status.MultiValue /\ \A i \in DOMAIN parsed : parsed[i].ok
        BY <1>1, <3>5
      <3> QED
        BY <3>1, <3>4, <3>6, <3>7, Zenon
    <2>13. Result(op, 4, p) = Returns("messages", ms)
      BY <2>2, <2>12, ResultIs
    <2>14. Understood(op, 4, p, a.reply)
      BY <1>7, <1>9, <2>2, <2>3, <2>13 DEF Understood
    <2> QED
      BY <2>3, <2>5, <2>14
  <1> QED
    BY <1>10, <1>11, <1>12, <1>13, <1>14, <1>15, <1>16, <1>17

(***************************************************************************)
(* The session.                                                            *)
(***************************************************************************)
\* What remains of the bytes on a connection are bytes.
LEMMA DropBytes ==
    ASSUME NEW s \in Bytes, NEW n \in 0 .. Len(s)
    PROVE  Drop(s, n) \in Bytes /\ Len(Drop(s, n)) = Len(s) - n /\ Len(s) \in Nat
  <1>1. s \in Seq(Letter) /\ Bytes = Seq(Letter)
    BY Letters
  <1> HIDE DEF Letter
  <1>2. Drop(s, n) \in Seq(Letter) /\ Len(Drop(s, n)) = Len(s) - n /\ Len(s) \in Nat
    BY <1>1 DEF Drop
  <1> QED
    BY <1>1, <1>2

\* There is room for the error text in a frame.
LEMMA ErrorFits ==
    /\ ErrorText \in Seq(Byte) /\ 5 + Len(ErrorText) < Base4
    /\ Refusal.reply = Failed /\ Refusal.bytes = Frame(1, ErrorText) /\ Refusal.bytes \in Bytes
  <1>1. ErrorText \in Seq(Byte)
    BY AnswersFit, FitsIs
  <1>2. Refusal.reply = Failed /\ Refusal.bytes = Frame(1, ErrorText)
    BY Letters DEF Refusal, Answers, EncodeErrorResponse
  <1>3. 1 \in Letter
    BY Letters
  <1>4. Frame(1, ErrorText) \in Bytes /\ Len(Frame(1, ErrorText)) = 5 + Len(ErrorText)
    BY <1>1, <1>3, FrameBytes
  <1>5. PICK c : c \in Calls
    BY SessionAssumption
  <1>6. Refusal \in Handle(Arriving(c))
    BY DEF Handle
  <1>7. Len(Refusal.bytes) < Base4
    BY <1>5, <1>6, AnswersFit
  <1> QED
    BY <1>1, <1>2, <1>4, <1>7

\* Read as a header, the text protocol's error announces more than ever comes.
LEMMA TextErrorIs ==
    /\ TextError \in Bytes /\ Len(TextError) = 5 + Len(ErrorText) /\ TextError[1] = 45
    /\ Uint32(SubSeq(TextError, 2, 5)) > Len(ErrorText)
    /\ Len(Drop(TextError, 5)) = Len(ErrorText)
  <1> DEFINE one == <<45>>
             fours == [i \in 1 .. 4 |-> Base - 1]
             head == one \o fours
             b == SubSeq(TextError, 2, 5)
  <1>1. one \in Bytes /\ Len(one) = 1 /\ one[1] = 45
    BY Letters, OnConnection
  <1>2. fours \in Seq(Byte) /\ Len(fours) = 4 /\ \A i \in 1 .. 4 : fours[i] = Base - 1
    <2>1. Base - 1 \in Byte
      BY BaseFacts DEF Byte
    <2>2. fours \in Seq(Byte)
      BY <2>1, IsASeq
    <2> QED
      BY <2>2
  <1>3. TextError = head \o ErrorText
    BY DEF TextError
  <1> HIDE DEF one, fours
  <1>4. fours \in Bytes /\ ErrorText \in Bytes
    BY <1>2, ErrorFits, OnConnection
  <1>5. head \in Bytes
    BY <1>1, <1>4, OnConnection
  <1>6. TextError \in Bytes
    BY <1>3, <1>4, <1>5, OnConnection
  <1>7. one \in Seq(Nat) /\ fours \in Seq(Nat) /\ head \in Seq(Nat) /\ ErrorText \in Seq(Nat) /\ TextError \in Seq(Nat)
    BY <1>1, <1>4, <1>5, <1>6, OnConnection
  <1>8. Len(head) = 5 /\ head[1] = 45 /\ \A i \in 2 .. 5 : head[i] = Base - 1
    <2>1. Len(one \o fours) = Len(one) + Len(fours)
      BY <1>7, Split
    <2>2. \A i \in 1 .. Len(one) : (one \o fours)[i] = one[i]
      BY <1>7, ConcatFront
    <2>3. ASSUME NEW i \in 2 .. 5
          PROVE  (one \o fours)[i] = fours[i - 1] /\ i - 1 \in 1 .. 4
      <3>1. i - 1 \in 1 .. Len(fours) /\ Len(one) + (i - 1) = i
        BY <1>1, <1>2
      <3>2. (one \o fours)[Len(one) + (i - 1)] = fours[i - 1]
        BY <1>7, <3>1, ConcatBack
      <3> QED
        BY <1>2, <3>1, <3>2
    <2> QED
      BY <1>1, <1>2, <2>1, <2>2, <2>3
  <1> HIDE DEF head
  <1>9. Len(TextError) = 5 + Len(ErrorText) /\ TextError[1] = 45 /\ \A i \in 2 .. 5 : TextError[i] = Base - 1
    <2>1. Len(head \o ErrorText) = Len(head) + Len(ErrorText)
      BY <1>7, Split
    <2>2. \A i \in 1 .. Len(head) : (head \o ErrorText)[i] = head[i]
      BY <1>7, ConcatFront
    <2> QED
      BY <1>3, <1>8, <2>1, <2>2
  <1>10. Len(ErrorText) \in Nat
    BY <1>7
  <1>11. b \in Seq(Nat) /\ Len(b) = 4 /\ b[1] = Base - 1 /\ b[2] = Base - 1 /\ b[3] = Base - 1 /\ b[4] = Base - 1
    BY <1>7, <1>9, <1>10
  <1>12. Uint32(b) = Base4 - 1
    <2> HIDE DEF b
    <2>1. 2 \in 0 .. Len(b)
      BY <1>11
    <2>2. /\ Take(b, 2)[1] = Base - 1 /\ Take(b, 2)[2] = Base - 1
          /\ Drop(b, 2)[1] = Base - 1 /\ Drop(b, 2)[2] = Base - 1
      BY <1>11 DEF Take, Drop
    <2>3. Uint16(Take(b, 2)) = Base2 - 1 /\ Uint16(Drop(b, 2)) = Base2 - 1
      BY <2>2, BaseFacts DEF Uint16, Base2
    <2>4. (Base2 - 1) * Base2 + (Base2 - 1) = Base4 - 1
      BY BaseFacts DEF Base4
    <2> QED
      BY <2>3, <2>4 DEF Uint32
  <1>13. Len(Drop(TextError, 5)) = Len(ErrorText)
    <2>1. 5 \in 0 .. Len(TextError)
      BY <1>9, <1>10
    <2> QED
      BY <1>6, <1>9, <1>10, <2>1, DropBytes
  <1> QED
    BY <1>6, <1>9, <1>10, <1>12, <1>13, ErrorFits, BaseFacts

\* The frame of any call.
LEMMA CallBytes ==
    ASSUME NEW c \in Calls
    PROVE  Encode(c) \in Bytes /\ Encode(c) # <<>> /\ Len(Encode(c)) \in Nat
  <1>1. Encode(c) \in Bytes /\ Encode(c) # <<>>
    BY CallFrame, BatchFrame
  <1>2. Encode(c) \in Seq(Nat)
    BY <1>1, OnConnection
  <1> QED
    BY <1>1, <1>2

(***************************************************************************)
(* The inductive invariant.                                                *)
(***************************************************************************)
Fresh ==
    made = 0 =>
        /\ ~waiting /\ toServer = <<>> /\ toClient = <<>> /\ executed = <<>> /\ ~panicked /\ reads = 0

\* The first call's frame is whole until it is read; the first read takes it whole, or
\* nothing is executed.
FirstCall ==
    made = 1 =>
        /\ reads = 0 => toServer = Encode(call) /\ executed = <<>> /\ ~panicked
        /\ reads = 1 => toServer = <<>> \/ (executed = <<>> /\ ~panicked)

\* The stages of a call that nothing disturbs.
Received == <<Arriving(call)>>
Sent ==
    /\ waiting /\ ~panicked /\ reads = 0
    /\ toServer = Encode(call) /\ executed = <<>> /\ toClient = <<>>
Dead ==
    /\ waiting /\ panicked /\ toServer = <<>> /\ toClient = <<>>
    /\ \/ TooLong(call) /\ executed = <<>>
       \/ call.op \in DocOps /\ executed = Received
Answered ==
    /\ waiting /\ ~panicked /\ call.op # Op.SPublishBatch
    /\ toServer = <<>> /\ executed = Received
    /\ \E a \in Handle(Arriving(call)) : reply = a.reply /\ toClient = a.bytes
TakenForText ==
    /\ waiting /\ ~panicked /\ call.op = Op.SPublishBatch
    /\ toServer = <<>> /\ executed = <<>> /\ toClient = TextError
Finished ==
    /\ ~waiting /\ ~panicked
    /\ toServer = <<>> /\ executed = Received
    /\ answer = Expected(call.op, reply) \/ TooMany(reply)
    /\ toClient # <<>> => call.op \in {Op.Exists, Op.SConsume} /\ reply = Failed

Undisturbed == ~disturbed => made = 0 \/ Sent \/ Dead \/ Answered \/ TakenForText \/ Finished

Inv == TypeOK /\ Fresh /\ FirstCall /\ Undisturbed

\* An answer on its way is the frame of a status and a payload that the client understands.
LEMMA AnswerOnWay ==
    ASSUME call \in Calls, Answered
    PROVE  \E st \in {0, 1, 4} : \E p \in Seq(Byte) :
              /\ toClient[1] = st /\ Len(toClient) = 5 + Len(p) /\ HeaderLen = Len(p) /\ Body = p
              /\ Understood(call.op, st, p, reply)
  <1>1. PICK a \in Handle(Arriving(call)) : reply = a.reply /\ toClient = a.bytes
    BY DEF Answered
  <1>2. PICK st \in {0, 1, 4}, p \in Seq(Byte) :
            a.bytes = Frame(st, p) /\ 5 + Len(p) < Base4 /\ Understood(call.op, st, p, a.reply)
    BY AnswerRead
  <1>3. st \in Nat /\ p \in Seq(Nat) /\ Len(p) \in Nat /\ Len(p) < Base4
    BY <1>2, ByteSeq, BaseFacts
  <1>4. /\ Frame(st, p)[1] = st /\ Len(Frame(st, p)) = 5 + Len(p)
        /\ Uint32(SubSeq(Frame(st, p), 2, 5)) = Len(p) /\ Drop(Frame(st, p), 5) = p
    BY <1>3, FrameIs
  <1>5. toClient = Frame(st, p) /\ reply = a.reply
    BY <1>1, <1>2
  <1>6. HeaderLen = Len(p) /\ Body = p
    BY <1>4, <1>5 DEF HeaderLen, Body
  <1> QED
    BY <1>2, <1>4, <1>5, <1>6

\* The text protocol's error is never taken for a whole answer.
LEMMA TextNeverArrives ==
    ASSUME TakenForText
    PROVE  ~ReplyArrived
  <1>1. toClient = TextError /\ call.op = Op.SPublishBatch
    BY DEF TakenForText
  <1>2. ~Leaves
    <2>1. call.op \notin ValueOps \cup {Op.QLen, Op.Incr, Op.Decr} /\ call.op # Op.Exists /\ call.op # Op.SConsume
      BY <1>1, OpIs DEF ValueOps
    <2> QED
      BY <2>1 DEF Leaves, LeavesPayload
  <1>3. HeaderLen > Len(ErrorText) /\ Len(Body) = Len(ErrorText)
    BY <1>1, TextErrorIs DEF HeaderLen, Body
  <1>4. Len(ErrorText) \in Nat
    BY ErrorFits
  <1>5. HeaderLen \in Nat
    <2>1. TextError \in Seq(Nat)
      BY TextErrorIs, OnConnection
    <2>2. SubSeq(TextError, 2, 5) \in Seq(Nat) /\ Len(SubSeq(TextError, 2, 5)) = 4
      BY <1>4, <2>1, TextErrorIs
    <2> QED
      BY <1>1, <2>2, UintTypes DEF HeaderLen
  <1> QED
    BY <1>2, <1>3, <1>4, <1>5 DEF ReplyArrived

\* The invariant holds of a new connection.
LEMMA InvInit ==
    ASSUME Init
    PROVE  Inv
  <1>1. call \in Calls
    BY SessionAssumption DEF Init
  <1>2. <<>> \in Bytes
    BY OnConnection
  <1>3. TypeOK
    <2>1. 0 \in 0 .. MaxCalls /\ 0 \in 0 .. MaxReads
      BY SessionAssumption
    <2>2. /\ made = 0 /\ reads = 0 /\ toServer = <<>> /\ toClient = <<>>
          /\ waiting = FALSE /\ panicked = FALSE /\ disturbed = FALSE
      BY DEF Init
    <2> QED
      BY <1>1, <1>2, <2>1, <2>2 DEF TypeOK
  <1>4. Fresh /\ FirstCall /\ Undisturbed
    BY DEF Init, Fresh, FirstCall, Undisturbed
  <1> QED
    BY <1>3, <1>4 DEF Inv

\* Call preserves it.
LEMMA CallInv ==
    ASSUME Inv, NEW c \in Calls, Call(c)
    PROVE  Inv'
  <1>1. TypeOK /\ Fresh /\ FirstCall /\ Undisturbed
    BY DEF Inv
  <1>2. /\ ~waiting /\ ~panicked /\ made < MaxCalls
        /\ call' = c /\ waiting' = TRUE /\ made' = made + 1 /\ toServer' = toServer \o Encode(c)
        /\ reads' = 0 /\ executed' = <<>> /\ reply' = Failed
        /\ disturbed' = (disturbed \/ toClient # <<>>)
        /\ toClient' = toClient /\ answer' = answer /\ panicked' = panicked
    BY DEF Call
  <1>3. made \in Nat /\ MaxCalls \in Nat /\ MaxReads \in Nat
    BY <1>1, SessionAssumption DEF TypeOK
  <1>4. Encode(c) \in Bytes /\ Encode(c) \in Seq(Nat)
    BY CallBytes, OnConnection
  <1>5. TypeOK'
    <2>1. toServer' \in Bytes
      BY <1>1, <1>2, <1>4, OnConnection DEF TypeOK
    <2>2. made' \in 0 .. MaxCalls
      BY <1>1, <1>2, <1>3 DEF TypeOK
    <2>3. reads' \in 0 .. MaxReads
      BY <1>2, <1>3
    <2>4. disturbed' \in BOOLEAN
      BY <1>2
    <2> QED
      BY <1>1, <1>2, <2>1, <2>2, <2>3, <2>4 DEF TypeOK
  <1>6. Fresh'
    BY <1>2, <1>3 DEF Fresh
  <1>7. toServer = <<>> => toServer' = Encode(c)
    BY <1>2, <1>4
  <1>8. FirstCall'
    <2>1. made' = 1 => toServer = <<>>
      BY <1>1, <1>2, <1>3 DEF Fresh
    <2> QED
      BY <1>2, <1>7, <2>1 DEF FirstCall
  <1>9. Undisturbed'
    <2> SUFFICES ASSUME ~disturbed'
                 PROVE  Sent'
      BY DEF Undisturbed
    <2>1. ~disturbed /\ toClient = <<>>
      BY <1>2
    <2>2. toServer = <<>>
      <3>1. made = 0 \/ Finished
        BY <1>1, <1>2, <2>1 DEF Undisturbed, Sent, Dead, Answered, TakenForText
      <3> QED
        BY <1>1, <3>1 DEF Fresh, Finished
    <2> QED
      BY <1>2, <1>7, <2>1, <2>2 DEF Sent
  <1> QED
    BY <1>5, <1>6, <1>8, <1>9 DEF Inv

\* So does a deadline.
LEMMA TimeoutInv ==
    ASSUME Inv, Timeout
    PROVE  Inv'
  <1>1. TypeOK /\ Fresh /\ FirstCall /\ Undisturbed
    BY DEF Inv
  <1>2. /\ waiting /\ answer' = Failed /\ toClient' = <<>> /\ waiting' = FALSE /\ disturbed' = TRUE
        /\ call' = call /\ made' = made /\ toServer' = toServer /\ reads' = reads /\ executed' = executed
        /\ reply' = reply /\ panicked' = panicked
    BY DEF Timeout, Finish, server
  <1>3. <<>> \in Bytes
    BY OnConnection
  <1>4. TypeOK'
    BY <1>1, <1>2, <1>3 DEF TypeOK
  <1>5. Fresh'
    BY <1>1, <1>2 DEF Fresh
  <1>6. FirstCall'
    BY <1>1, <1>2 DEF FirstCall
  <1>7. Undisturbed'
    BY <1>2 DEF Undisturbed
  <1> QED
    BY <1>4, <1>5, <1>6, <1>7 DEF Inv

\* So does the client's reading of an answer.
LEMMA ClientReadInv ==
    ASSUME Inv, ClientRead
    PROVE  Inv'
  <1>1. TypeOK /\ Fresh /\ FirstCall /\ Undisturbed
    BY DEF Inv
  <1>2. /\ waiting /\ ReplyArrived /\ waiting' = FALSE /\ disturbed' = disturbed
        /\ call' = call /\ made' = made /\ toServer' = toServer /\ reads' = reads /\ executed' = executed
        /\ reply' = reply /\ panicked' = panicked
    BY DEF ClientRead, Finish, server
  <1>3. \/ /\ Leaves
           /\ answer' = Result(call.op, toClient[1], <<>>) /\ toClient' = Body
        \/ /\ ~Leaves
           /\ answer' = Result(call.op, toClient[1], Take(Body, HeaderLen))
           /\ toClient' = Drop(Body, HeaderLen)
    BY DEF ClientRead, Finish
  <1>4. toClient \in Bytes /\ toClient \in Seq(Nat) /\ Len(toClient) \in Nat /\ Len(toClient) >= 5
    BY <1>1, <1>2, OnConnection DEF TypeOK, ReplyArrived
  <1>5. toClient' \in Bytes
    <2>1. 5 \in 0 .. Len(toClient)
      BY <1>4
    <2>2. Body \in Bytes /\ Len(Body) \in Nat
      BY <1>4, <2>1, DropBytes DEF Body
    <2>3. CASE Leaves
      BY <1>3, <2>2, <2>3
    <2>4. CASE ~Leaves
      <3>1. SubSeq(toClient, 2, 5) \in Seq(Nat) /\ Len(SubSeq(toClient, 2, 5)) = 4
        BY <1>4
      <3>2. HeaderLen \in Nat
        BY <3>1, UintTypes DEF HeaderLen
      <3>3. HeaderLen \in 0 .. Len(Body)
        BY <1>2, <2>2, <2>4, <3>2 DEF ReplyArrived
      <3> QED
        BY <1>3, <2>2, <2>4, <3>3, DropBytes
    <2> QED
      BY <2>3, <2>4
  <1>6. TypeOK'
    BY <1>1, <1>2, <1>5 DEF TypeOK
  <1>7. Fresh'
    BY <1>1, <1>2 DEF Fresh
  <1>8. FirstCall'
    BY <1>1, <1>2 DEF FirstCall
  <1>9. Undisturbed'
    <2> SUFFICES ASSUME ~disturbed'
                 PROVE  Finished'
      BY DEF Undisturbed
    <2>1. Answered
      <3>1. made = 0 \/ Sent \/ Dead \/ Answered \/ TakenForText \/ Finished
        BY <1>1, <1>2 DEF Undisturbed
      <3>2. made # 0 /\ ~Finished
        BY <1>1, <1>2 DEF Fresh, Finished
      <3>3. toClient # <<>>
        BY <1>4
      <3>4. ~Sent /\ ~Dead
        BY <3>3 DEF Sent, Dead
      <3>5. ~TakenForText
        BY <1>2, TextNeverArrives
      <3> QED
        BY <3>1, <3>2, <3>4, <3>5
    <2>2. call \in Calls
      BY <1>1 DEF TypeOK
    <2>3. PICK st \in {0, 1, 4}, p \in Seq(Byte) :
              /\ toClient[1] = st /\ HeaderLen = Len(p) /\ Body = p
              /\ Understood(call.op, st, p, reply)
      BY <2>1, <2>2, AnswerOnWay
    <2>4. p \in Seq(Nat) /\ Len(p) \in 0 .. Len(p)
      BY ByteSeq
    <2>5. Take(p, Len(p)) = p /\ Drop(p, Len(p)) = <<>>
      BY <2>4, TakeDrop
    <2>6. Leaves <=> LeavesPayload(call.op, st, Len(p))
      BY <2>3 DEF Leaves
    <2>7. /\ answer' = Expected(call.op, reply) \/ TooMany(reply)
          /\ toClient' # <<>> => call.op \in {Op.Exists, Op.SConsume} /\ reply = Failed
      BY <1>3, <2>3, <2>5, <2>6 DEF Understood
    <2> QED
      BY <1>2, <2>1, <2>7 DEF Answered, Finished, Received
  <1> QED
    BY <1>6, <1>7, <1>8, <1>9 DEF Inv

\* A read that does not take the whole frame of a call executes nothing and breaks nothing.
LEMMA CutRead ==
    ASSUME call \in Calls, toServer = Encode(call), NEW n \in 1 .. Len(toServer) - 1, ServerRead(n)
    PROVE  executed' = executed /\ panicked' = panicked
  <1> DEFINE data == Take(toServer, n)
             req == DecodeRequest(data)
  <1>1. \/ isBinary(data[1]) /\ req.outcome = "panic"
        \/ executed' = executed /\ panicked' = panicked
        \/ isBinary(data[1]) /\ req.outcome = "ok"
    BY DEF ServerRead
  <1>2. CASE call.op # Op.SPublishBatch
    <2>1. req = Invalid
      BY <1>2, CallFrame
    <2> HIDE DEF req
    <2> QED
      BY <1>1, <2>1 DEF Invalid
  <1>3. CASE call.op = Op.SPublishBatch
    <2>1. toServer \in Seq(Nat) /\ Len(toServer) \in Nat
      BY CallBytes, OnConnection
    <2>2. data[1] = toServer[1]
      <3>1. n \in 0 .. Len(toServer) /\ 1 \in 1 .. n
        BY <2>1
      <3> QED
        BY <2>1, <3>1, TakeDrop
    <2>3. ~isBinary(data[1])
      BY <1>3, <2>2, BatchFrame
    <2> HIDE DEF data
    <2> QED
      BY <1>1, <2>3
  <1> QED
    BY <1>2, <1>3

\* The server's read of a whole undisturbed call.
LEMMA WholeRead ==
    ASSUME call \in Calls, Sent, ServerRead(Len(toServer))
    PROVE  (Dead \/ Answered \/ TakenForText)'
  <1> DEFINE n == Len(toServer)
             data == Take(toServer, n)
             req == DecodeRequest(data)
             sent == Arriving(call)
  <1>1. /\ waiting /\ ~panicked /\ toServer = Encode(call) /\ executed = <<>> /\ toClient = <<>>
    BY DEF Sent
  <1>2. toServer' = Drop(toServer, n) /\ call' = call /\ waiting' = waiting
    BY DEF ServerRead
  <1>3. \/ /\ isBinary(data[1]) /\ req.outcome = "panic" /\ panicked' = TRUE
           /\ executed' = executed /\ reply' = reply /\ toClient' = toClient
        \/ isBinary(data[1]) /\ req.outcome = "error"
        \/ /\ isBinary(data[1]) /\ req.outcome = "ok" /\ executed' = Append(executed, req)
           /\ \E a \in Handle(req) : reply' = a.reply /\ toClient' = toClient \o a.bytes
           /\ panicked' = panicked
        \/ /\ isBinary(data[1]) /\ req.outcome = "ok" /\ req.op \in DocOps /\ executed' = Append(executed, req)
           /\ panicked' = TRUE /\ reply' = reply /\ toClient' = toClient
        \/ /\ ~isBinary(data[1]) /\ toClient' = toClient \o TextError
           /\ executed' = executed /\ panicked' = panicked
    BY DEF ServerRead
  <1>4. toServer \in Seq(Nat)
    BY <1>1, CallBytes, OnConnection
  <1>5. n \in 0 .. n
    BY <1>4
  <1>6. data = toServer /\ Drop(toServer, n) = <<>>
    BY <1>4, <1>5, TakeDrop
  <1> HIDE DEF n
  <1>7. \A s \in Seq(Nat) : <<>> \o s = s
    OBVIOUS
  <1>8. CASE call.op = Op.SPublishBatch
    <2>1. ~isBinary(data[1])
      BY <1>1, <1>6, <1>8, BatchFrame
    <2>2. TextError \in Seq(Nat)
      BY TextErrorIs, OnConnection
    <2> HIDE DEF data, req
    <2>3. toClient' = TextError /\ executed' = <<>> /\ panicked' = panicked
      BY <1>1, <1>3, <1>7, <2>1, <2>2
    <2> QED
      BY <1>1, <1>2, <1>6, <1>8, <2>3 DEF TakenForText
  <1>9. CASE call.op # Op.SPublishBatch
    <2>1. isBinary(data[1]) /\ req = IF TooLong(call) THEN Crash ELSE sent
      BY <1>1, <1>6, <1>9, CallFrame
    <2> HIDE DEF data, req
    <2>2. CASE TooLong(call)
      <3>1. req.outcome = "panic"
        BY <2>1, <2>2 DEF Crash
      <3>2. panicked' = TRUE /\ executed' = <<>> /\ toClient' = <<>>
        BY <1>1, <1>3, <2>1, <3>1
      <3> QED
        BY <1>1, <1>2, <1>6, <2>2, <3>2 DEF Dead
    <2>3. CASE ~TooLong(call)
      <3>1. req = sent /\ req.outcome = "ok" /\ sent.op = call.op
        BY <2>1, <2>3 DEF Arriving, Request
      <3> HIDE DEF sent
      <3>2. executed' = Append(<<>>, sent)
        BY <1>1, <1>3, <2>1, <3>1
      <3>3. executed' = <<sent>>
        BY <3>2
      <3>4. CASE panicked' = panicked /\ \E a \in Handle(sent) : reply' = a.reply /\ toClient' = toClient \o a.bytes
        <4>1. PICK a \in Handle(sent) : reply' = a.reply /\ toClient' = <<>> \o a.bytes
          BY <1>1, <3>4
        <4>2. a.bytes \in Seq(Nat)
          <5>1. PICK st \in {0, 1, 4}, p \in Seq(Byte) : a.bytes = Frame(st, p)
            BY <4>1, AnswerRead DEF sent
          <5>2. st \in Letter
            BY <5>1, Letters
          <5> QED
            BY <5>1, <5>2, FrameBytes, OnConnection
        <4>3. toClient' = a.bytes
          BY <1>7, <4>1, <4>2
        <4> QED
          BY <1>1, <1>2, <1>6, <1>9, <3>3, <3>4, <4>1, <4>3 DEF Answered, Received, sent
      <3>5. CASE sent.op \in DocOps /\ panicked' = TRUE /\ toClient' = toClient
        BY <1>1, <1>2, <1>6, <3>1, <3>3, <3>5 DEF Dead, Received, sent
      <3> QED
        BY <1>3, <2>1, <3>1, <3>4, <3>5
    <2> QED
      BY <2>2, <2>3
  <1> QED
    BY <1>8, <1>9

\* The server's reads preserve the invariant.
LEMMA ServerReadInv ==
    ASSUME Inv, NEW n \in 1 .. ReadBuf, n <= Len(toServer), ServerRead(n)
    PROVE  Inv'
  <1> DEFINE data == Take(toServer, n)
             req == DecodeRequest(data)
  <1>1. TypeOK /\ Fresh /\ FirstCall /\ Undisturbed
    BY DEF Inv
  <1>2. /\ ~panicked /\ reads < MaxReads /\ reads' = reads + 1 /\ toServer' = Drop(toServer, n)
        /\ disturbed' = (disturbed \/ n # Len(toServer))
        /\ call' = call /\ waiting' = waiting /\ made' = made /\ answer' = answer
    BY DEF ServerRead
  <1>3. /\ \/ toClient' = toClient
           \/ toClient' = toClient \o Refusal.bytes
           \/ req.outcome = "ok" /\ \E a \in Handle(req) : toClient' = toClient \o a.bytes
           \/ toClient' = toClient \o TextError
        /\ panicked' = TRUE \/ panicked' = panicked
    BY DEF ServerRead
  <1>4. toServer \in Bytes /\ toServer \in Seq(Nat) /\ Len(toServer) \in Nat
    BY <1>1, OnConnection DEF TypeOK
  <1>5. n \in Nat /\ n \in 1 .. Len(toServer) /\ n \in 0 .. Len(toServer) /\ toServer # <<>>
    BY <1>4, SessionAssumption
  <1>6. toServer' \in Bytes /\ Len(toServer') = Len(toServer) - n
    BY <1>2, <1>4, <1>5, DropBytes
  <1>7. data \in Seq(Nat) /\ data # <<>>
    <2>1. data \in Seq(Nat) /\ Len(data) = n
      BY <1>4, <1>5, TakeDrop
    <2> QED
      BY <1>5, <2>1
  <1>8. toClient' \in Bytes
    <2>1. toClient \in Bytes
      BY <1>1 DEF TypeOK
    <2>2. \A s \in Bytes : toClient \o s \in Bytes
      BY <2>1, OnConnection
    <2>3. CASE req.outcome = "ok" /\ \E a \in Handle(req) : toClient' = toClient \o a.bytes
      <3>1. req.op = Op.MGet => Len(req.args) \in Nat
        BY <1>7, <2>3, DecodedKeys
      <3>2. PICK a \in Handle(req) : toClient' = toClient \o a.bytes
        BY <2>3
      <3> HIDE DEF req
      <3>3. PICK st \in {0, 1, 4}, p \in Seq(Byte) : a.bytes = Frame(st, p)
        BY <3>1, <3>2, AnswerIsFrame
      <3>4. st \in Letter
        BY <3>3, Letters
      <3>5. a.bytes \in Bytes
        BY <3>3, <3>4, FrameBytes
      <3> QED
        BY <2>2, <3>2, <3>5
    <2> QED
      <3> HIDE DEF req
      <3>1. Refusal.bytes \in Bytes /\ TextError \in Bytes
        BY ErrorFits, TextErrorIs, Zenon
      <3>2. toClient \o Refusal.bytes \in Bytes /\ toClient \o TextError \in Bytes
        BY <2>2, <3>1, Zenon
      <3> QED
        BY <1>3, <2>1, <2>3, <3>2, Zenon
  <1>9. TypeOK'
    <2>1. reads' \in 0 .. MaxReads
      BY <1>1, <1>2, SessionAssumption DEF TypeOK
    <2>2. panicked' \in BOOLEAN /\ disturbed' \in BOOLEAN
      BY <1>1, <1>2, <1>3 DEF TypeOK
    <2> QED
      BY <1>1, <1>2, <1>6, <1>8, <2>1, <2>2 DEF TypeOK
  <1>10. made # 0
    BY <1>1, <1>5 DEF Fresh
  <1>11. Fresh'
    BY <1>2, <1>10 DEF Fresh
  <1>12. reads \in Nat /\ call \in Calls
    BY <1>1 DEF TypeOK
  <1>13. FirstCall'
    <2> SUFFICES ASSUME made' = 1, reads' = 1
                 PROVE  toServer' = <<>> \/ (executed' = <<>> /\ ~panicked')
      BY <1>2, <1>12 DEF FirstCall
    <2>1. toServer = Encode(call) /\ executed = <<>> /\ ~panicked
      BY <1>1, <1>2, <1>12 DEF FirstCall
    <2>2. CASE n = Len(toServer)
      BY <1>2, <1>4, <1>5, <2>2, TakeDrop
    <2>3. CASE n # Len(toServer)
      <3>1. n \in 1 .. Len(toServer) - 1
        BY <1>4, <1>5, <2>3
      <3>2. executed' = executed /\ panicked' = panicked
        BY <1>12, <2>1, <3>1, CutRead
      <3> QED
        BY <2>1, <3>2
    <2> QED
      BY <2>2, <2>3
  <1>14. Undisturbed'
    <2> SUFFICES ASSUME ~disturbed'
                 PROVE  (Dead \/ Answered \/ TakenForText)'
      BY DEF Undisturbed
    <2>1. ~disturbed /\ n = Len(toServer)
      BY <1>2
    <2>2. Sent
      BY <1>1, <1>5, <1>10, <2>1 DEF Undisturbed, Dead, Answered, TakenForText, Finished
    <2>3. ServerRead(Len(toServer))
      BY <2>1
    <2> QED
      BY <1>12, <2>2, <2>3, WholeRead
  <1> QED
    BY <1>9, <1>11, <1>13, <1>14 DEF Inv

\* The inductive invariant of the session.
LEMMA SessionInv ==
    Spec => []Inv
  <1>1. Init => Inv
    BY InvInit
  <1>2. Inv /\ [Next]_vars => Inv'
    <2> SUFFICES ASSUME Inv, [Next]_vars
                 PROVE  Inv'
      OBVIOUS
    <2>1. ASSUME NEW c \in Calls, Call(c)
          PROVE  Inv'
      BY <2>1, CallInv
    <2>2. ASSUME NEW n \in 1 .. ReadBuf, n <= Len(toServer), ServerRead(n)
          PROVE  Inv'
      BY <2>2, ServerReadInv
    <2>3. CASE ClientRead
      BY <2>3, ClientReadInv
    <2>4. CASE Timeout
      BY <2>4, TimeoutInv
    <2>5. CASE UNCHANGED vars
      BY <2>5 DEF vars, Inv, TypeOK, Fresh, FirstCall, Undisturbed, Sent, Dead, Answered, TakenForText, Finished, Received
    <2> QED
      BY <2>1, <2>2, <2>3, <2>4, <2>5 DEF Next
  <1> QED
    BY <1>1, <1>2, PTL DEF Spec

(***************************************************************************)
(* What follows from it.                                                   *)
(***************************************************************************)
\* Both directions carry bytes, and counters stay in their bounds, in every session.
THEOREM SessionTypes ==
    Spec => []TypeOK
  <1>1. Inv => TypeOK
    BY DEF Inv
  <1> QED
    BY <1>1, SessionInv, PTL

\* In an undisturbed session a handler gets the call the client made, field by field and
\* at most once, with its integers cut to the width of their place: every request decoder
\* undoes its encoder but for that cut.
THEOREM CallReachesHandler ==
    Spec => []HandlerGetsCall
  <1>1. Inv => HandlerGetsCall
    BY DEF Inv, Fresh, Undisturbed, Sent, Dead, Answered, TakenForText, Finished, Received, HandlerGetsCall
  <1> QED
    BY <1>1, SessionInv, PTL

\* A frame of which only the front arrived is never executed, wherever the read cut it:
\* DecodeRequest checks the announced length before it decodes anything.
THEOREM CutFrameRefused ==
    Spec => []CutFrameNotExecuted
  <1>1. Inv => CutFrameNotExecuted
    BY DEF Inv, FirstCall, CutFrameNotExecuted
  <1> QED
    BY <1>1, SessionInv, PTL

\* In an undisturbed session a call returns what the server answered to it: the client's
\* readers undo the handlers' encoders, as long as an answer holds fewer than Base2 messages.
THEOREM CallReturnsReply ==
    Spec => []AnswerIsReply
  <1>1. Inv => AnswerIsReply
    <2> SUFFICES ASSUME Inv, made > 0, ~waiting, ~disturbed
                 PROVE  \/ answer = IF call.op = Op.Exists THEN Returns("found", <<FALSE>>) ELSE reply
                        \/ TooMany(reply)
      BY DEF AnswerIsReply
    <2>1. made # 0
      BY DEF Inv, TypeOK
    <2>2. Finished
      BY <2>1 DEF Inv, Undisturbed, Sent, Dead, Answered, TakenForText
    <2> QED
      BY <2>2 DEF Finished, Expected
  <1> QED
    BY <1>1, SessionInv, PTL

\* In an undisturbed session the connection goes back to the pool empty, except after an
\* EXISTS or SCONSUME that was answered with an error, whose text the client left unread.
THEOREM ConnectionReturnedEmpty ==
    Spec => []InSync
  <1>1. Inv => InSync
    <2> SUFFICES ASSUME Inv, ~waiting, ~disturbed, toClient # <<>>
                 PROVE  call.op \in {Op.Exists, Op.SConsume} /\ reply = Failed
      BY DEF InSync
    <2>1. made # 0
      BY DEF Inv, Fresh
    <2>2. Finished
      BY <2>1 DEF Inv, Undisturbed, Sent, Dead, Answered, TakenForText
    <2> QED
      BY <2>2 DEF Finished
  <1> QED
    BY <1>1, SessionInv, PTL

\* In an undisturbed session the server panics either in decodeSimpleRequest, for a single
\* key within two bytes of MaxKeyLen, or in a document handler that got the call as made.
THEOREM PanicsHaveCause ==
    Spec => []PanicHasCause
  <1>1. Inv => PanicHasCause
    <2> SUFFICES ASSUME Inv, panicked, ~disturbed
                 PROVE  \/ executed = <<>> /\ Len(call.args) = 1 /\ Len(call.args[1]) + 2 > MaxKeyLen
                        \/ executed = <<Arriving(call)>> /\ call.op \in DocOps
      BY DEF PanicHasCause
    <2>1. Dead
      BY DEF Inv, Fresh, Undisturbed, Sent, Answered, TakenForText, Finished
    <2> SUFFICES ASSUME TooLong(call), executed = <<>>
                 PROVE  Len(call.args) = 1 /\ Len(call.args[1]) + 2 > MaxKeyLen
      BY <2>1 DEF Dead, Received
    <2>2. call \in Calls
      BY DEF Inv, TypeOK
    <2>3. Len(call.args) \in Nat /\ AllFit(Kinds(call.op, Len(call.args)), call.args)
      BY <2>2, CallIs
    <2>4. Kinds(call.op, Len(call.args)) = <<"str">>
      BY <2>3, KindsAre DEF TooLong
    <2>5. Len(call.args) = Len(<<"str">>)
      BY <2>3, <2>4 DEF AllFit
    <2> QED
      BY <2>5 DEF TooLong
  <1> QED
    BY <1>1, SessionInv, PTL

\* In an undisturbed session all that a client reads of an answer is there once the server
\* has read its call: no call but SPUBLISHBATCH waits for its deadline.
THEOREM AnswerArrives ==
    Spec => []NeverStuck
  <1>1. Inv => NeverStuck
    <2> SUFFICES ASSUME Inv, waiting, reads > 0, ~disturbed, ~panicked, call.op # Op.SPublishBatch
                 PROVE  ReplyArrived
      BY DEF NeverStuck
    <2>1. call \in Calls /\ made # 0 /\ reads # 0
      BY DEF Inv, TypeOK, Fresh
    <2>2. Answered
      BY <2>1 DEF Inv, Undisturbed, Sent, Dead, TakenForText, Finished
    <2>3. PICK st \in {0, 1, 4}, p \in Seq(Byte) : Len(toClient) = 5 + Len(p) /\ HeaderLen = Len(p) /\ Body = p
      BY <2>1, <2>2, AnswerOnWay
    <2>4. Len(p) \in Nat
      OBVIOUS
    <2> QED
      BY <2>3, <2>4 DEF ReplyArrived
  <1> QED
    BY <1>1, SessionInv, PTL

\* The frame of a call whose key is that long is longer than Base2 bytes.
LEMMA LongFrame ==
    ASSUME NEW c \in Calls, TooLong(c)
    PROVE  Len(Encode(c)) >= Base2 + 5
  <1> DEFINE key == c.args[1]
             head == PutUint16(Len(key))
  <1>1. c.op \in SingleKeyOps /\ Len(key) + 2 > MaxKeyLen
    BY DEF TooLong
  <1>2. c.op # Op.SPublishBatch /\ c.op \notin Counted
    <2>1. c.op \in {2, 3, 4, 5, 6, 33, 34, 35, 36}
      BY <1>1, OpIs DEF SingleKeyOps
    <2>2. Counted = {16, 17, 18} /\ Op.SPublishBatch = 55
      BY OpIs DEF Counted
    <2> QED
      BY <2>1, <2>2
  <1>3. Len(c.args) \in Nat /\ AllFit(Kinds(c.op, Len(c.args)), c.args)
    BY CallIs
  <1>4. Kinds(c.op, Len(c.args)) = <<"str">>
    BY <1>1, <1>3, KindsAre
  <1>5. Fits("str", key)
    BY <1>3, <1>4 DEF AllFit
  <1>6. key \in Seq(Byte) /\ Len(key) \in Nat
    BY <1>5, FitsIs
  <1>7. Payload(c) = Str(key)
    BY <1>2, <1>4, Shapes DEF Payload, FieldBytes
  <1>8. Len(Encode(c)) = 5 + Len(Payload(c))
    BY <1>2, CallFrame
  <1>9. head \in Seq(Byte) /\ Len(head) = 2
    BY <1>6, Put16
  <1>10. Str(key) = head \o key
    BY DEF Str
  <1> HIDE DEF key, head
  <1>11. Len(head \o key) = Len(head) + Len(key)
    <2>1. head \in Seq(Nat) /\ key \in Seq(Nat)
      BY <1>6, <1>9, ByteSeq
    <2> QED
      BY <2>1, Split
  <1>12. Len(Encode(c)) = 7 + Len(key)
    BY <1>6, <1>7, <1>8, <1>9, <1>10, <1>11
  <1> QED
    BY <1>1, <1>6, <1>12, BaseFacts DEF MaxKeyLen

\* A server whose read buffer is smaller than such a frame, as the code's is (32 KiB for
\* keys of up to 64 KiB), is brought down in an undisturbed session by a document handler
\* only.
THEOREM OnlyDocumentsPanic ==
    ASSUME ReadBuf < Base2 + 5
    PROVE  Spec => [](~disturbed /\ panicked => call.op \in DocOps)
  <1> DEFINE Alive == ~disturbed /\ panicked => call.op \in DocOps
  <1>1. Init => Alive
    BY DEF Init
  <1>2. Inv /\ Inv' /\ Alive /\ [Next]_vars => Alive'
    <2> SUFFICES ASSUME Inv, Inv', Alive, [Next]_vars, ~disturbed', panicked'
                 PROVE  call.op \in DocOps /\ call' = call
      OBVIOUS
    <2>1. ASSUME NEW c \in Calls, Call(c)
          PROVE  FALSE
      BY <2>1 DEF Call
    <2>2. ASSUME NEW n \in 1 .. ReadBuf, n <= Len(toServer), ServerRead(n)
          PROVE  call.op \in DocOps /\ call' = call
      <3>1. ~disturbed /\ n = Len(toServer) /\ call' = call
        BY <2>2 DEF ServerRead
      <3>2. call \in Calls /\ toServer \in Seq(Nat) /\ Len(toServer) \in Nat
        BY OnConnection DEF Inv, TypeOK
      <3>3. n \in Nat /\ n # 0 /\ n <= ReadBuf /\ ReadBuf \in Nat
        BY SessionAssumption
      <3>4. toServer # <<>>
        BY <3>1, <3>2, <3>3
      <3>5. toServer = Encode(call)
        BY <3>1, <3>4 DEF Inv, Fresh, Undisturbed, Sent, Dead, Answered, TakenForText, Finished
      <3>6. TooLong(call) \/ call.op \in DocOps
        <4>1. made' = 0 \/ Dead'
          BY DEF Inv, Undisturbed, Sent, Answered, TakenForText, Finished
        <4>2. made' # 0
          BY DEF Inv, Fresh
        <4> QED
          BY <3>1, <4>1, <4>2 DEF Dead
      <3>7. CASE TooLong(call)
        <4>1. Len(toServer) >= Base2 + 5
          BY <3>2, <3>5, <3>7, LongFrame
        <4> QED
          BY <3>1, <3>2, <3>3, <4>1, BaseFacts
      <3> QED
        BY <3>1, <3>6, <3>7
    <2>3. CASE ClientRead
      BY <2>3 DEF ClientRead, Finish, server
    <2>4. CASE Timeout
      BY <2>4 DEF Timeout
    <2>5. CASE UNCHANGED vars
      BY <2>5 DEF vars
    <2> QED
      BY <2>1, <2>2, <2>3, <2>4, <2>5 DEF Next
  <1> QED
    BY <1>1, <1>2, SessionInv, PTL DEF Spec
================================================================================
