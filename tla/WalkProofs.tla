----------------------------- MODULE WalkProofs ------------------------------
(***************************************************************************)
(* Proofs about the walks through a packet's bytes, for packets of any      *)
(* number of records, items and bytes.  IoElement's stays within the packet *)
(* and, through a regular one, in step with what the tracker encoded.       *)
(* GryphonFrame's, through a packet of which any part may have arrived in a *)
(* buffer that held anything, stays in step with what was sent of it.       *)
(***************************************************************************)
EXTENDS IoElement, GryphonFrame, DataLemmas

-----------------------------------------------------------------------------
(* Lists of sequences, joined up to a place and from one on.                *)

UpTo(s, k) == FlattenSeq(SubSeq(s, 1, k))
From(s, k) == FlattenSeq(SubSeq(s, k, Len(s)))

\* No sequences joined are the empty one.
LEMMA FlattenEmpty == FlattenSeq(<<>>) = <<>>
<1>1. <<>> \in Seq(Seq({})) /\ Len(<<>>) = 0
  OBVIOUS
<1>2. PICK g \in [0 .. 0 -> Seq({})] : Joins(g, <<>>) /\ FlattenSeq(<<>>) = g[0]
  BY <1>1, FlattenJoins
<1> QED BY <1>2 DEF Joins

\* Joining sequences of numbers associates.
LEMMA ThreeJoined == \A x, y, z \in Seq(Nat) : (x \o y) \o z = x \o (y \o z)
<1> TAKE x, y, z \in Seq(Nat)
<1> QED BY ConcatAssociative, SMTT(30)

\* Four sequences joined from the left are those joined from the right.
LEMMA FourJoined ==
  \A a, b, c, d \in Seq(Nat) : ((a \o b) \o c) \o d = a \o (b \o (c \o d))
<1> TAKE a, b, c, d \in Seq(Nat)
<1> DEFINE x == a \o b
           y == c \o d
<1>1. x \in Seq(Nat) /\ y \in Seq(Nat)
  BY ConcatProperties
<1>2. x \o y = a \o (b \o y)
  <2> HIDE DEF y
  <2> QED BY <1>1, ThreeJoined
<1>3. (x \o c) \o d = x \o y
  <2> HIDE DEF x
  <2>0. x \in Seq(Nat)
    BY <1>1
  <2>1. (x \o c) \o d = x \o (c \o d)
    BY <2>0, ThreeJoined, Zenon
  <2> QED BY <2>1
<1> QED BY <1>2, <1>3

\* The parts of a list of sequences, and these joined, keep their type.
LEMMA PartType ==
  ASSUME NEW T, NEW s \in Seq(Seq(T)), NEW k \in Nat
  PROVE  /\ k <= Len(s) => SubSeq(s, 1, k) \in Seq(Seq(T)) /\ UpTo(s, k) \in Seq(T)
         /\ k # 0 => SubSeq(s, k, Len(s)) \in Seq(Seq(T)) /\ From(s, k) \in Seq(T)
<1>1. k <= Len(s) => SubSeq(s, 1, k) \in Seq(Seq(T))
  OBVIOUS
<1>2. k # 0 => SubSeq(s, k, Len(s)) \in Seq(Seq(T))
  OBVIOUS
<1> QED BY <1>1, <1>2, FlattenType DEF UpTo, From

\* What is joined from a place on begins with the sequence at that place.
LEMMA FromNext ==
  ASSUME NEW T, NEW s \in Seq(Seq(T)), NEW k \in 1 .. Len(s)
  PROVE  From(s, k) = s[k] \o From(s, k + 1)
<1> DEFINE t == SubSeq(s, k, Len(s))
<1>0. Len(t) = Len(s) - k + 1
  OBVIOUS
<1>1. k \in Nat /\ k # 0 /\ Len(s) \in k .. Len(s) /\ t # <<>>
  <2>1. t # <<>>
    <3> HIDE DEF t
    <3> QED BY <1>0
  <2> QED BY <2>1
<1>2. t \in Seq(Seq(T))
  BY <1>1, PartType
<1>3. Head(t) = s[k] /\ Tail(t) = SubSeq(s, k + 1, Len(s))
  BY <1>1, HeadTailOfSubSeq
<1>4. FlattenSeq(t) = Head(t) \o FlattenSeq(Tail(t))
  <2> HIDE DEF t
  <2> QED BY <1>1, <1>2, FlattenHead
<1> QED BY <1>3, <1>4 DEF From

\* Nothing is joined from behind the last one on.
LEMMA FromEnd ==
  ASSUME NEW T, NEW s \in Seq(Seq(T)) PROVE From(s, Len(s) + 1) = <<>>
<1>1. SubSeq(s, Len(s) + 1, Len(s)) = <<>>
  OBVIOUS
<1> QED BY <1>1, FlattenEmpty DEF From

\* One sequence more is joined to those up to a place.
LEMMA UpToNext ==
  ASSUME NEW T, NEW s \in Seq(Seq(T)), NEW k \in Nat, k < Len(s)
  PROVE  UpTo(s, k + 1) = UpTo(s, k) \o s[k + 1]
<1> DEFINE t == SubSeq(s, 1, k)
           u == SubSeq(s, 1, k + 1)
<1>1. /\ t \in Seq(Seq(T)) /\ u \in Seq(Seq(T)) /\ Len(t) = k /\ Len(u) = k + 1
      /\ \A i \in 1 .. k : u[i] = t[i]
      /\ u[k + 1] = s[k + 1]
  OBVIOUS
<1>2. FlattenSeq(u) = FlattenSeq(t) \o u[k + 1]
  <2> HIDE DEF t, u
  <2>1. Len(u) = Len(t) + 1 /\ \A i \in 1 .. Len(t) : u[i] = t[i]
    BY <1>1
  <2> QED BY <1>1, <2>1, FlattenNext
<1> QED BY <1>1, <1>2 DEF UpTo

\* The two parts are the whole.
LEMMA UpToFrom ==
  ASSUME NEW T, NEW s \in Seq(Seq(T)), NEW k \in Nat, k <= Len(s)
  PROVE  FlattenSeq(s) = UpTo(s, k) \o From(s, k + 1)
<1> DEFINE S == {n \in Nat : n <= Len(s) => FlattenSeq(s) = UpTo(s, n) \o From(s, n + 1)}
<1>1. 0 \in S
  <2>1. SubSeq(s, 1, 0) = <<>> /\ SubSeq(s, 1, Len(s)) = s
    OBVIOUS
  <2>2. UpTo(s, 0) = <<>> /\ From(s, 1) = FlattenSeq(s) /\ FlattenSeq(s) \in Seq(T)
    BY <2>1, FlattenEmpty, FlattenType DEF UpTo, From
  <2> QED BY <2>2
<1>2. ASSUME NEW n \in Nat, n \in S PROVE n + 1 \in S
  <2>1. SUFFICES ASSUME n + 1 <= Len(s)
                 PROVE  FlattenSeq(s) = UpTo(s, n + 1) \o From(s, n + 1 + 1)
    OBVIOUS
  <2>2. Len(s) \in Nat /\ n < Len(s) /\ n + 1 \in 1 .. Len(s)
    BY <2>1
  <2>3. FlattenSeq(s) = UpTo(s, n) \o From(s, n + 1)
    BY <1>2, <2>1
  <2>4. /\ UpTo(s, n) \in Seq(T) /\ s[n + 1] \in Seq(T)
        /\ From(s, n + 1 + 1) \in Seq(T)
    BY <2>2, PartType
  <2>5. From(s, n + 1) = s[n + 1] \o From(s, n + 1 + 1)
    BY <2>2, FromNext
  <2>6. UpTo(s, n + 1) = UpTo(s, n) \o s[n + 1]
    BY <2>2, UpToNext
  <2>7. (UpTo(s, n) \o s[n + 1]) \o From(s, n + 1 + 1)
          = UpTo(s, n) \o (s[n + 1] \o From(s, n + 1 + 1))
    <3> DEFINE a == UpTo(s, n)
               b == s[n + 1]
               c == From(s, n + 1 + 1)
    <3>1. a \in Seq(T) /\ b \in Seq(T) /\ c \in Seq(T)
      BY <2>4
    <3> HIDE DEF a, b, c
    <3>2. (a \o b) \o c = a \o (b \o c)
      BY <3>1, ConcatAssociative, SMTT(30)
    <3> QED BY <3>2 DEF a, b, c
  <2> QED BY <2>3, <2>5, <2>6, <2>7
<1>3. Nat \subseteq S
  <2> HIDE DEF S
  <2> QED BY <1>1, <1>2, Induction
<1> QED BY <1>3
\* As many elements in each list, as many in all.
LEMMA SameLength ==
  ASSUME NEW T, NEW U, NEW s \in Seq(Seq(T)), NEW t \in Seq(Seq(U)), Len(s) = Len(t),
         \A i \in 1 .. Len(s) : Len(s[i]) = Len(t[i])
  PROVE  Len(FlattenSeq(s)) = Len(FlattenSeq(t))
<1> DEFINE S == {n \in Nat : n <= Len(s) => Len(UpTo(s, n)) = Len(UpTo(t, n))}
<1>0. Len(s) \in Nat /\ Len(t) \in Nat
  OBVIOUS
<1>1. 0 \in S
  <2>1. SubSeq(s, 1, 0) = <<>> /\ SubSeq(t, 1, 0) = <<>>
    OBVIOUS
  <2> QED BY <2>1 DEF UpTo
<1>2. ASSUME NEW n \in Nat, n \in S PROVE n + 1 \in S
  <2>1. SUFFICES ASSUME n + 1 <= Len(s) PROVE Len(UpTo(s, n + 1)) = Len(UpTo(t, n + 1))
    OBVIOUS
  <2>2. n < Len(s) /\ n < Len(t) /\ n <= Len(s) /\ n <= Len(t) /\ n + 1 \in 1 .. Len(s)
    BY <1>0, <2>1
  <2>3. UpTo(s, n + 1) = UpTo(s, n) \o s[n + 1] /\ UpTo(t, n + 1) = UpTo(t, n) \o t[n + 1]
    BY <2>2, UpToNext
  <2>4. UpTo(s, n) \in Seq(T) /\ s[n + 1] \in Seq(T)
    BY <2>2, PartType
  <2>5. UpTo(t, n) \in Seq(U) /\ t[n + 1] \in Seq(U)
    BY <2>2, PartType
  <2>6. Len(UpTo(s, n)) = Len(UpTo(t, n)) /\ Len(s[n + 1]) = Len(t[n + 1])
    BY <1>2, <2>2
  <2> QED BY <2>3, <2>4, <2>5, <2>6
<1>3. Nat \subseteq S
  <2> HIDE DEF S
  <2> QED BY <1>1, <1>2, Induction
<1>4. SubSeq(s, 1, Len(s)) = s /\ SubSeq(t, 1, Len(t)) = t
  OBVIOUS
<1>5. Len(UpTo(s, Len(s))) = Len(UpTo(t, Len(s)))
  BY <1>0, <1>3
<1> QED BY <1>4, <1>5 DEF UpTo

Ending(s, p) == SubSeq(s, p, Len(s))

EndsWith(s, p, X, R) == Ending(s, p) = X \o R

\* What a sequence ends with from a place on is found there, one part after another.
LEMMA EndingReads ==
  ASSUME NEW s \in Seq(Nat), NEW X \in Seq(Nat), NEW R \in Seq(Nat),
         NEW p \in 1 .. Len(s) + 1, EndsWith(s, p, X, R)
  PROVE  /\ p + Len(X) \in 1 .. Len(s) + 1
         /\ \A i \in 1 .. Len(X) : s[p + i - 1] = X[i]
         /\ Ending(s, p + Len(X)) = R
<1> DEFINE n == Len(s)
           t == SubSeq(s, p, n)
           v == SubSeq(s, p + Len(X), n)
<1>0. n \in Nat /\ p \in 1 .. n + 1 /\ s \in Seq(Nat) /\ Len(X) \in Nat /\ Len(R) \in Nat
  OBVIOUS
<1>1. Len(t) = n - p + 1 /\ \A i \in 1 .. n - p + 1 : t[i] = s[p + i - 1]
  BY <1>0
<1>2. t = X \o R
  BY DEF Ending, EndsWith
<1>3. /\ Len(t) = Len(X) + Len(R)
      /\ \A i \in 1 .. Len(X) : t[i] = X[i]
      /\ \A i \in 1 .. Len(R) : t[Len(X) + i] = R[i]
  BY <1>2
<1> HIDE DEF t
<1>4. n = p + Len(X) + Len(R) - 1
  <2>1. n - p + 1 = Len(X) + Len(R)
    BY <1>1, <1>3
  <2> QED BY <1>0, <2>1
<1>5. \A i \in 1 .. Len(X) : s[p + i - 1] = X[i]
  <2> TAKE i \in 1 .. Len(X)
  <2>1. i \in 1 .. n - p + 1
    BY <1>0, <1>4
  <2>2. t[i] = s[p + i - 1]
    BY <1>1, <2>1
  <2> QED BY <1>3, <2>2
<1>7. v = R
  <2>1. /\ v \in Seq(Nat) /\ Len(v) = Len(R)
        /\ \A i \in 1 .. Len(R) : v[i] = s[p + Len(X) + i - 1]
    BY <1>0, <1>4
  <2>2. \A i \in 1 .. Len(R) : R[i] = s[p + Len(X) + i - 1]
    <3> TAKE i \in 1 .. Len(R)
    <3>1. Len(X) + i \in 1 .. n - p + 1
      BY <1>0, <1>4
    <3>2. t[Len(X) + i] = s[p + (Len(X) + i) - 1]
      BY <1>1, <3>1
    <3>3. p + (Len(X) + i) - 1 = p + Len(X) + i - 1
      BY <1>0
    <3> QED BY <1>3, <3>2, <3>3
  <2> HIDE DEF v
  <2>3. \A i \in 1 .. Len(v) : v[i] = R[i]
    BY <2>1, <2>2
  <2> QED BY <2>1, <2>3, SeqEqual
<1>8. p + Len(X) \in 1 .. n + 1
  BY <1>0, <1>4
<1> QED BY <1>5, <1>7, <1>8 DEF Ending

-----------------------------------------------------------------------------
(* The encodings, as lists of what is read one after the other.             *)

SensorCodes(size, g, ss) == [i \in DOMAIN ss |-> EncodeSensor(size, g, ss[i])]
GroupCodes(size, rec) == [g \in GroupsOf(size) |-> EncodeGroup(size, g, rec[g])]
RecordCodes(size, recs) == [i \in DOMAIN recs |-> EncodeRecord(size, recs[i])]

Records(size) == [GroupsOf(size) -> Seq(Sensors)]

\* Zeros are n numbers.
LEMMA ZerosType ==
  ASSUME NEW n \in Nat PROVE Zeros(n) \in Seq(Nat) /\ Len(Zeros(n)) = n
  BY DEF Zeros

\* A number of one or two bytes: its last byte is its value, the first is 0.
LEMMA NumberType ==
  ASSUME NEW size \in {1, 2}, NEW n \in Nat
  PROVE  /\ Number(size, n) \in Seq(Nat) /\ Len(Number(size, n)) = size
         /\ Number(size, n)[size] = n
         /\ size = 2 => Number(size, n)[1] = 0
<1> DEFINE z == Zeros(size - 1)
           t == <<n>>
<1>1. size - 1 \in Nat /\ z \in Seq(Nat) /\ Len(z) = size - 1
  BY ZerosType
<1>2. size = 2 => z[1] = 0
  BY DEF Zeros
<1>3. t \in Seq(Nat) /\ Len(t) = 1 /\ t[1] = n
  OBVIOUS
<1>4. Number(size, n) = z \o t
  BY DEF Number
<1> HIDE DEF z, t
<1>5. /\ z \o t \in Seq(Nat) /\ Len(z \o t) = size
      /\ \A i \in 1 .. size : (z \o t)[i] = IF i <= Len(z) THEN z[i] ELSE t[i - Len(z)]
  <2>1. size \in Nat /\ Len(z) + Len(t) = size
    BY <1>1, <1>3
  <2> QED BY <1>1, <1>3, <2>1, ConcatProperties, Zenon
<1>6. (z \o t)[size] = n /\ (size = 2 => (z \o t)[1] = 0)
  BY <1>1, <1>2, <1>3, <1>5
<1> QED BY <1>4, <1>5, <1>6

\* A sensor is sent as numbers.
LEMMA SensorCode ==
  ASSUME NEW size \in {1, 2}, NEW g, NEW s \in Sensors
  PROVE  EncodeSensor(size, g, s) \in Seq(Nat)
<1>1. s.id \in Nat /\ s.val \in Seq(Nat) /\ Len(s.val) \in Nat
  BY DEF Sensors
<1>2. Number(size, s.id) \in Seq(Nat) /\ Number(size, Len(s.val)) \in Seq(Nat)
  BY <1>1, NumberType
<1> QED BY <1>1, <1>2 DEF EncodeSensor

\* The sensors of a group are sent one by one.
LEMMA SensorCodesType ==
  ASSUME NEW size \in {1, 2}, NEW g, NEW ss \in Seq(Sensors)
  PROVE  /\ SensorCodes(size, g, ss) \in Seq(Seq(Nat))
         /\ Len(SensorCodes(size, g, ss)) = Len(ss)
         /\ \A i \in 1 .. Len(ss) :
               SensorCodes(size, g, ss)[i] = EncodeSensor(size, g, ss[i])
<1>1. \A i \in DOMAIN ss : EncodeSensor(size, g, ss[i]) \in Seq(Nat)
  BY SensorCode
<1> QED BY <1>1 DEF SensorCodes

\* A group is its count and its sensors' codes.
LEMMA GroupCode ==
  ASSUME NEW size \in {1, 2}, NEW g, NEW ss \in Seq(Sensors)
  PROVE  /\ EncodeGroup(size, g, ss) \in Seq(Nat)
         /\ EncodeGroup(size, g, ss)
              = Number(size, Len(ss)) \o From(SensorCodes(size, g, ss), 1)
         /\ From(SensorCodes(size, g, ss), 1) \in Seq(Nat)
<1> DEFINE c == SensorCodes(size, g, ss)
<1>1. c \in Seq(Seq(Nat))
  BY SensorCodesType
<1>2. EncodeGroup(size, g, ss) = Number(size, Len(ss)) \o FlattenSeq(c)
  BY DEF EncodeGroup, SensorCodes
<1>3. Number(size, Len(ss)) \in Seq(Nat)
  <2>1. Len(ss) \in Nat
    OBVIOUS
  <2> QED BY <2>1, NumberType
<1> HIDE DEF c
<1>4. SubSeq(c, 1, Len(c)) = c /\ FlattenSeq(c) \in Seq(Nat)
  BY <1>1, FlattenType
<1>5. From(c, 1) = FlattenSeq(c)
  BY <1>4 DEF From
<1>6. EncodeGroup(size, g, ss) = Number(size, Len(ss)) \o From(c, 1) /\ From(c, 1) \in Seq(Nat)
  BY <1>2, <1>4, <1>5
<1>7. Number(size, Len(ss)) \o From(c, 1) \in Seq(Nat)
  BY <1>3, <1>6, ConcatProperties
<1> QED BY <1>6, <1>7 DEF c

\* The groups of a record are sent one by one.
LEMMA GroupCodesType ==
  ASSUME NEW size \in {1, 2}, NEW rec \in Records(size)
  PROVE  /\ GroupCodes(size, rec) \in Seq(Seq(Nat))
         /\ GroupsOf(size) = 1 .. Len(GroupCodes(size, rec))
         /\ Len(GroupCodes(size, rec)) = Len(rec)
         /\ \A g \in GroupsOf(size) :
               GroupCodes(size, rec)[g] = EncodeGroup(size, g, rec[g])
<1> DEFINE n == IF size = 1 THEN 4 ELSE 5
<1>1. GroupsOf(size) = 1 .. n /\ n \in Nat
  BY DEF GroupsOf
<1>2. \A g \in GroupsOf(size) : EncodeGroup(size, g, rec[g]) \in Seq(Nat)
  BY GroupCode DEF Records
<1> HIDE DEF n
<1>3. Len(rec) = n
  BY <1>1 DEF Records
<1> QED BY <1>1, <1>2, <1>3 DEF GroupCodes

\* The fixed part of a record with its number of sensors.
Header(size, rec) == Zeros(FixedSize + size) \o Number(size, Total(rec))

\* The sensors of a record can be counted.
LEMMA TotalType ==
  ASSUME NEW size \in {1, 2}, NEW rec \in Records(size)
  PROVE  rec \in Seq(Seq(Sensors)) /\ Total(rec) \in Nat
<1>1. rec \in Seq(Seq(Sensors))
  <2> DEFINE T == Seq(Sensors)
  <2>1. rec \in [1 .. 4 -> T] \/ rec \in [1 .. 5 -> T]
    BY DEF Records, GroupsOf
  <2> HIDE DEF T
  <2>2. 4 \in Nat /\ 5 \in Nat
    OBVIOUS
  <2>3. rec \in Seq(T)
    BY <2>1, <2>2, SeqDef
  <2> QED BY <2>3 DEF T
<1>2. FlattenSeq(rec) \in Seq(Sensors)
  BY <1>1, FlattenType
<1> QED BY <1>1, <1>2 DEF Total

\* A record is its header and its groups' codes.
LEMMA RecordCode ==
  ASSUME NEW size \in {1, 2}, NEW rec \in Records(size)
  PROVE  /\ EncodeRecord(size, rec) \in Seq(Nat)
         /\ EncodeRecord(size, rec) = Header(size, rec) \o From(GroupCodes(size, rec), 1)
         /\ From(GroupCodes(size, rec), 1) \in Seq(Nat)
<1> DEFINE c == GroupCodes(size, rec)
<1>0. FixedSize + size \in Nat /\ Total(rec) \in Nat
  BY PacketAssumption, TotalType DEF PacketAssumption
<1>1. c \in Seq(Seq(Nat))
  BY GroupCodesType
<1>2. EncodeRecord(size, rec)
        = Zeros(FixedSize + size) \o Number(size, Total(rec)) \o FlattenSeq(c)
  BY DEF EncodeRecord, GroupCodes
<1>3. Number(size, Total(rec)) \in Seq(Nat) /\ Zeros(FixedSize + size) \in Seq(Nat)
  BY <1>0, NumberType, ZerosType
<1> HIDE DEF c
<1>4. SubSeq(c, 1, Len(c)) = c /\ FlattenSeq(c) \in Seq(Nat)
  BY <1>1, FlattenType
<1>5. From(c, 1) = FlattenSeq(c)
  BY <1>4 DEF From
<1>6. Header(size, rec) \in Seq(Nat)
  BY <1>3, ConcatProperties DEF Header
<1>7. /\ EncodeRecord(size, rec) = Header(size, rec) \o From(c, 1)
      /\ From(c, 1) \in Seq(Nat)
  BY <1>2, <1>4, <1>5 DEF Header
<1>8. Header(size, rec) \o From(c, 1) \in Seq(Nat)
  BY <1>6, <1>7, ConcatProperties
<1> QED BY <1>7, <1>8 DEF c

\* A header is a sequence of numbers.
LEMMA HeaderType ==
  ASSUME NEW size \in {1, 2}, NEW rec \in Records(size)
  PROVE  Header(size, rec) \in Seq(Nat)
<1>1. FixedSize + size \in Nat /\ Total(rec) \in Nat
  BY PacketAssumption, TotalType DEF PacketAssumption
<1>2. Number(size, Total(rec)) \in Seq(Nat) /\ Zeros(FixedSize + size) \in Seq(Nat)
  BY <1>1, NumberType, ZerosType
<1> QED BY <1>2, ConcatProperties DEF Header

\* The records of a packet are sent one by one.
LEMMA RecordCodesType ==
  ASSUME NEW size \in {1, 2}, NEW recs \in Seq(Records(size))
  PROVE  /\ RecordCodes(size, recs) \in Seq(Seq(Nat))
         /\ Len(RecordCodes(size, recs)) = Len(recs)
         /\ \A i \in 1 .. Len(recs) :
               RecordCodes(size, recs)[i] = EncodeRecord(size, recs[i])
         /\ Encode(size, recs) = FlattenSeq(RecordCodes(size, recs))
<1>1. \A i \in DOMAIN recs : EncodeRecord(size, recs[i]) \in Seq(Nat)
  BY RecordCode
<1> QED BY <1>1 DEF RecordCodes, Encode

-----------------------------------------------------------------------------
(* What is true of the walk through any packet.                             *)

TypeInv ==
    /\ TypeOK /\ bytes \in Seq(Nat)
    /\ pc \in {"group", "sensor", "check"} => record <= Len(packet.recs)
    /\ pc = "sensor" => group \in Groups /\ group <= all

\* What the assumption on packets says of the one at hand.
LEMMA PacketType ==
  ASSUME TypeOK
  PROVE  Size \in {1, 2} /\ packet.recs \in Seq(Records(Size)) /\ FixedSize \in Nat
  BY PacketAssumption DEF PacketAssumption, TypeOK, Size, Records

\* A number read within the packet is one.
LEMMA NumberAtType ==
  ASSUME TypeInv, NEW n \in Nat, Inside(n), NEW k \in Nat, k + Size <= n
  PROVE  NumberAt(pos + k) \in Nat
<1>1. /\ Size \in {1, 2} /\ pos \in Nat /\ pos >= 1 /\ bytes \in Seq(Nat)
      /\ pos + n - 1 <= Len(bytes)
  BY PacketType DEF TypeInv, TypeOK, Inside
<1>2. pos + k \in 1 .. Len(bytes) /\ (Size = 2 => pos + k + 1 \in 1 .. Len(bytes))
  BY <1>1
<1>3. bytes[pos + k] \in Nat /\ (Size = 2 => bytes[pos + k + 1] \in Nat)
  BY <1>1, <1>2
<1> QED BY <1>1, <1>3 DEF NumberAt

\* Every step keeps the types, also one that leads the walk astray.
LEMMA TypeNext == ASSUME TypeInv, [Next]_vars PROVE TypeInv'
<1>0. /\ Size \in {1, 2} /\ packet.recs \in Seq(Records(Size)) /\ FixedSize \in Nat
      /\ Len(packet.recs) \in Nat /\ Len(bytes) \in Nat
      /\ packet \in Packets /\ bytes \in Seq(Nat)
      /\ pos \in 1 .. Len(bytes) + 1 /\ record \in 1 .. Len(packet.recs) + 1
      /\ all \in Nat /\ left \in Nat /\ group \in 1 .. all + 1 /\ lastError \in BOOLEAN
      /\ HeaderSize \in Nat
  BY PacketType DEF TypeInv, TypeOK, HeaderSize
<1>1. ASSUME NEW n, Astray(n) PROVE TypeInv'
  BY <1>0, <1>1 DEF Astray, TypeInv, TypeOK
<1>2. ASSUME ReadHeader PROVE TypeInv'
  <2>1. CASE Astray(HeaderSize + Size)
    BY <1>1, <2>1
  <2>2. CASE ~Astray(HeaderSize + Size)
    <3>1. /\ Inside(HeaderSize + Size) /\ all' = NumberAt(pos + HeaderSize)
          /\ pos' = pos + HeaderSize + Size /\ group' = 1 /\ lastError' = FALSE
          /\ pc' = "group" /\ record <= Len(packet.recs)
          /\ UNCHANGED <<packet, bytes, record, left>>
      BY <1>2, <2>2 DEF ReadHeader
    <3>2. all' \in Nat
      BY <1>0, <3>1, NumberAtType
    <3>3. pos' \in 1 .. Len(bytes) + 1
      BY <1>0, <3>1 DEF Inside
    <3>4. group' \in 1 .. all' + 1 /\ record' \in 1 .. Len(packet'.recs) + 1
          /\ record' <= Len(packet'.recs)
      BY <1>0, <3>1, <3>2
    <3> QED BY <1>0, <3>1, <3>2, <3>3, <3>4 DEF TypeInv, TypeOK
  <2> QED BY <2>1, <2>2
<1>3. ASSUME NextGroup PROVE TypeInv'
  <2>1. CASE Astray(Size)
    BY <1>1, <2>1
  <2>2. CASE group \in Groups /\ ~Astray(Size)
    <3>1. /\ Inside(Size) /\ left' = NumberAt(pos) /\ pos' = pos + Size
          /\ pc' = "sensor" /\ pc = "group" /\ group <= all
          /\ UNCHANGED <<packet, bytes, record, all, group, decoded, lastError>>
      BY <1>3, <2>2 DEF NextGroup
    <3>2. left' \in Nat
      <4>1. 0 \in Nat /\ Size \in Nat /\ 0 + Size <= Size
        BY <1>0
      <4>2. NumberAt(pos + 0) \in Nat
        BY <3>1, <4>1, NumberAtType
      <4>3. pos + 0 = pos
        BY <1>0
      <4> QED BY <3>1, <4>2, <4>3
    <3>3. pos' \in 1 .. Len(bytes) + 1
      BY <1>0, <3>1 DEF Inside
    <3>4. Groups' = Groups
      BY <3>1 DEF Groups, Size
    <3> QED BY <1>0, <2>2, <3>1, <3>2, <3>3, <3>4 DEF TypeInv, TypeOK
  <2>3. CASE group \notin Groups
    <3>1. /\ group' = group + 1 /\ pc = "group" /\ group <= all
          /\ UNCHANGED <<packet, bytes, pos, record, all, left, decoded, lastError, pc>>
          \/ Astray(Size)
      BY <1>3, <2>3 DEF NextGroup
    <3>2. CASE group' = group + 1 /\ ~Astray(Size)
      BY <1>0, <3>1, <3>2 DEF TypeInv, TypeOK
    <3> QED BY <2>1, <3>1, <3>2
  <2> QED BY <2>1, <2>2, <2>3
<1>4. ASSUME ReadSensor PROVE TypeInv'
  <2>1. CASE Astray(Size) \/ Astray(Size + ValueSize)
    BY <1>1, <2>1
  <2>2. CASE ~(Astray(Size) \/ Astray(Size + ValueSize))
    <3>1. /\ Inside(Size) /\ Inside(Size + ValueSize)
          /\ pos' = pos + Size + ValueSize /\ left' = left - 1 /\ left > 0
          /\ pc = "sensor" /\ lastError' \in {lastError, TRUE}
          /\ UNCHANGED <<packet, bytes, record, all, group, pc>>
      BY <1>4, <2>2 DEF ReadSensor
    <3>2. ValueSize \in Nat
      <4>1. CASE group = 5
        <5>1. 0 \in Nat /\ Size \in Nat /\ 0 + Size <= Size
          BY <1>0
        <5>2. NumberAt(pos + 0) \in Nat
          BY <3>1, <5>1, NumberAtType
        <5>3. pos + 0 = pos
          BY <1>0
        <5> QED BY <4>1, <5>2, <5>3 DEF ValueSize
      <4>2. CASE group # 5
        <5>1. group \in 1 .. 4
          BY <3>1, <4>2 DEF TypeInv, Groups, GroupsOf
        <5> QED BY <4>2, <5>1 DEF ValueSize, Width
      <4> QED BY <4>1, <4>2
    <3>3. pos' \in 1 .. Len(bytes) + 1
      BY <1>0, <3>1, <3>2 DEF Inside
    <3>4. Groups' = Groups
      BY <3>1 DEF Groups, Size
    <3>5. left' \in Nat
      BY <1>0, <3>1
    <3>6. lastError' \in BOOLEAN
      BY <1>0, <3>1, Zenon
    <3> QED BY <1>0, <3>1, <3>3, <3>4, <3>5, <3>6 DEF TypeInv, TypeOK
  <2> QED BY <2>1, <2>2
<1>5. ASSUME EndOfGroup PROVE TypeInv'
  BY <1>0, <1>5 DEF EndOfGroup, TypeInv, TypeOK
<1>7. ASSUME NextRecord PROVE TypeInv'
  BY <1>0, <1>7 DEF NextRecord, TypeInv, TypeOK
<1>8. ASSUME EndOfGroups \/ EndOfPacket PROVE TypeInv'
  BY <1>0, <1>8 DEF EndOfGroups, EndOfPacket, TypeInv, TypeOK
<1>6. ASSUME UNCHANGED vars PROVE TypeInv'
  BY <1>6 DEF vars, TypeInv, TypeOK, Groups, Size
<1> QED BY <1>2, <1>3, <1>4, <1>5, <1>6, <1>7, <1>8 DEF Next, Stop

-----------------------------------------------------------------------------
(* What is true of the walk through a regular packet.                       *)

\* The bytes from a position on, and from the read position on, are R.
Ahead(p, R) == SubSeq(bytes, p, Len(bytes)) = R
Todo(R) == Ahead(pos, R)

Rec == packet.recs[record]
Codes == RecordCodes(Size, packet.recs)
CodesOf(g) == SensorCodes(Size, g, Rec[g])

\* The records after the one being read, its groups from g on and they, the
\* sensors of the group being read from i on and these.
After == From(Codes, record + 1)
GroupsFrom(g) == From(GroupCodes(Size, Rec), g) \o After
SensorsFrom(i) == From(CodesOf(group), i) \o GroupsFrom(group + 1)

Position ==
    /\ pc = "header" => Todo(From(Codes, record))
    /\ pc = "group" /\ group \in Groups => Todo(GroupsFrom(group))
    /\ pc = "group" /\ group \notin Groups => Todo(After)
    /\ pc = "sensor" => /\ left <= Len(Rec[group])
                        /\ Todo(SensorsFrom(Len(Rec[group]) - left + 1))
    /\ pc = "check" => Todo(After)

Counted == pc \in {"group", "sensor"} => all = Total(Rec)

\* What the tracker sent in a group of the record being read, and in all.
SentIn(g) ==
    [i \in DOMAIN Rec[g] |-> [group |-> g, id |-> Rec[g][i].id, val |-> Rec[g][i].val]]
SentGroups == [g \in Groups |-> SentIn(g)]

\* Of the sensors of a list those are decoded that ParseInt takes.
IsDecoded(list) ==
    /\ decoded = Readable(list) /\ Len(decoded) <= Len(list)
    /\ lastError <=> Len(decoded) < Len(list)

Decoding ==
    /\ pc = "group" /\ group \in Groups => IsDecoded(UpTo(SentGroups, group - 1))
    /\ pc = "group" /\ group \notin Groups => IsDecoded(SentSensors(Rec))
    /\ pc = "sensor" => IsDecoded(UpTo(SentGroups, group - 1)
                          \o SubSeq(SentIn(group), 1, Len(Rec[group]) - left))
    /\ pc = "check" => IsDecoded(SentSensors(Rec))

InStep == pc # "astray" /\ Position /\ Counted /\ Decoding

WalkInv ==
    /\ TypeInv /\ bytes = Encode(Size, packet.recs)
    /\ Regular(packet) => InStep

\* What is ahead can be read, and the rest is ahead of the place behind it.
LEMMA AheadReads ==
  ASSUME TypeInv, NEW X \in Seq(Nat), NEW R \in Seq(Nat),
         NEW p \in 1 .. Len(bytes) + 1, Ahead(p, X \o R)
  PROVE  /\ p + Len(X) \in 1 .. Len(bytes) + 1
         /\ \A i \in 1 .. Len(X) : bytes[p + i - 1] = X[i]
         /\ SubSeq(bytes, p, p + Len(X) - 1) = X
         /\ Ahead(p + Len(X), R)
<1>1. bytes \in Seq(Nat) /\ EndsWith(bytes, p, X, R)
  BY DEF TypeInv, Ahead, Ending, EndsWith
<1>2. /\ p + Len(X) \in 1 .. Len(bytes) + 1
      /\ \A i \in 1 .. Len(X) : bytes[p + i - 1] = X[i]
      /\ Ending(bytes, p + Len(X)) = R
  <2>1. bytes \in Seq(Nat)
    BY <1>1
  <2>2. EndsWith(bytes, p, X, R)
    BY <1>1
  <2> QED BY <2>1, <2>2, EndingReads, ZenonT(30)
<1>3. SubSeq(bytes, p, p + Len(X) - 1) = X
  <2> DEFINE u == SubSeq(bytes, p, p + Len(X) - 1)
  <2>1. bytes \in Seq(Nat) /\ Len(X) \in Nat /\ p + Len(X) <= Len(bytes) + 1
    BY <1>1, <1>2
  <2>2. u \in Seq(Nat) /\ Len(u) = Len(X) /\ \A i \in 1 .. Len(X) : u[i] = bytes[p + i - 1]
    <3> DEFINE q == p + Len(X) - 1
    <3>1. q \in Nat /\ q <= Len(bytes) /\ q - p + 1 = Len(X)
      BY <2>1
    <3> HIDE DEF q
    <3>2. SubSeq(bytes, p, q) \in Seq(Nat)
      BY <2>1, <3>1
    <3>3. Len(SubSeq(bytes, p, q)) = q - p + 1
      BY <2>1, <3>1
    <3>4. \A i \in 1 .. q - p + 1 : SubSeq(bytes, p, q)[i] = bytes[p + i - 1]
      BY <2>1, <3>1
    <3> QED BY <3>1, <3>2, <3>3, <3>4 DEF q
  <2> HIDE DEF u
  <2>3. \A i \in 1 .. Len(u) : u[i] = X[i]
    BY <1>2, <2>2
  <2> QED BY <2>2, <2>3, SeqEqual DEF u
<1> QED BY <1>2, <1>3 DEF Ahead, Ending

\* A number ahead is read as it was sent.
LEMMA NumberReads ==
  ASSUME TypeInv, NEW n \in Nat, NEW R \in Seq(Nat), NEW p \in 1 .. Len(bytes) + 1,
         Ahead(p, Number(Size, n) \o R)
  PROVE  /\ p + Size \in 1 .. Len(bytes) + 1
         /\ NumberAt(p) = n
         /\ Ahead(p + Size, R)
<1> DEFINE m == Number(Size, n)
<1>0. Size \in {1, 2} /\ Len(bytes) \in Nat
  BY PacketType DEF TypeInv
<1>1. m \in Seq(Nat) /\ Len(m) = Size /\ m[Size] = n /\ (Size = 2 => m[1] = 0)
  BY <1>0, NumberType
<1> HIDE DEF m
<1>2. Ahead(p, m \o R)
  BY DEF m
<1>3. /\ p + Len(m) \in 1 .. Len(bytes) + 1
      /\ \A i \in 1 .. Len(m) : bytes[p + i - 1] = m[i]
      /\ Ahead(p + Len(m), R)
  BY <1>1, <1>2, AheadReads
<1>4. NumberAt(p) = n
  <2>1. CASE Size = 1
    <3>1. bytes[p + 1 - 1] = m[1] /\ p + 1 - 1 = p
      BY <1>1, <1>3, <2>1
    <3> QED BY <1>1, <2>1, <3>1 DEF NumberAt
  <2>2. CASE Size = 2
    <3>1. bytes[p + 1 - 1] = m[1] /\ p + 1 - 1 = p
      BY <1>1, <1>3, <2>2
    <3>2. bytes[p + 2 - 1] = m[2] /\ p + 2 - 1 = p + 1
      BY <1>1, <1>3, <2>2
    <3>3. 256 * bytes[p] + bytes[p + 1] = n
      BY <1>1, <2>2, <3>1, <3>2
    <3> QED BY <2>2, <3>3 DEF NumberAt
  <2> QED BY <1>0, <2>1, <2>2
<1> QED BY <1>1, <1>3, <1>4

\* What a regular packet says of the record being read.
LEMMA RegularRecord ==
  ASSUME TypeInv, Regular(packet), record <= Len(packet.recs)
  PROVE  /\ Rec \in Records(Size) /\ record \in 1 .. Len(packet.recs)
         /\ Total(Rec) \in Nat /\ Total(Rec) >= Len(Rec)
         /\ Groups = 1 .. Len(Rec) /\ Len(Rec) \in {4, 5}
         /\ \A g \in Groups : /\ Rec[g] \in Seq(Sensors)
                              /\ \A k \in DOMAIN Rec[g] :
                                    g \in 1 .. 4 /\ Len(Rec[g][k].val) = Width[g]
<1>0. /\ Size \in {1, 2} /\ packet.recs \in Seq(Records(Size)) /\ packet \in Packets
      /\ record \in 1 .. Len(packet.recs)
  BY PacketType DEF TypeInv, TypeOK
<1>1. Rec \in Records(Size)
  BY <1>0 DEF Rec
<1>2. Total(Rec) \in Nat
  BY <1>0, <1>1, TotalType
<1>3. Total(Rec) >= Len(Rec) /\ (Size = 2 => Rec[5] = <<>>)
  BY <1>0 DEF Regular, Rec, Size
<1>4. Groups = 1 .. Len(Rec)
  BY <1>0, <1>1, GroupCodesType DEF Groups
<1>5. Groups = IF Size = 1 THEN 1 .. 4 ELSE 1 .. 5
  BY DEF Groups, GroupsOf
<1>6. Len(Rec) \in {4, 5}
  <2>1. Rec \in Seq(Seq(Sensors))
    BY <1>0, <1>1, TotalType
  <2>2. Len(Rec) \in Nat
    BY <2>1
  <2>3. 4 \in 1 .. Len(Rec) /\ 6 \notin 1 .. Len(Rec)
    BY <1>4, <1>5
  <2>4. Len(Rec) >= 4
    BY <2>2, <2>3
  <2>5. Len(Rec) < 6
    BY <2>2, <2>3
  <2>6. Len(Rec) = 4 \/ Len(Rec) = 5
    <3> DEFINE l == Len(Rec)
    <3>1. l \in Nat /\ l >= 4 /\ l < 6
      BY <2>2, <2>4, <2>5
    <3> HIDE DEF l
    <3>2. l = 4 \/ l = 5
      BY <3>1
    <3> QED BY <3>2 DEF l
  <2> QED BY <2>6
<1>7. \A g \in Groups : Rec[g] \in Seq(Sensors)
  BY <1>1 DEF Records, Groups
<1>8. ASSUME NEW g \in Groups, NEW k \in DOMAIN Rec[g]
      PROVE  g \in 1 .. 4 /\ Len(Rec[g][k].val) = Width[g]
  <2>1. g \in 1 .. 4
    BY <1>0, <1>3, <1>5, <1>8
  <2>2. Len(Rec[g][k].val) = SentWidth[g]
    <3>1. \A i \in DOMAIN packet.recs, h \in 1 .. 4 : \A j \in DOMAIN packet.recs[i][h] :
             Len(packet.recs[i][h][j].val) = SentWidth[h]
      BY <1>0, PacketAssumption, Zenon DEF PacketAssumption
    <3>2. record \in DOMAIN packet.recs
      BY <1>0
    <3> QED BY <1>8, <2>1, <3>1, <3>2, Zenon DEF Rec
  <2> QED BY <2>1, <2>2 DEF SentWidth, Width
<1> QED BY <1>0, <1>1, <1>2, <1>3, <1>4, <1>6, <1>7, <1>8

\* What is ahead in a record: its header, its groups, each with its sensors.
LEMMA CodesAhead ==
  ASSUME TypeInv, Regular(packet), record <= Len(packet.recs)
  PROVE  /\ After \in Seq(Nat)
         /\ From(Codes, record) = Header(Size, Rec) \o GroupsFrom(1)
         /\ GroupsFrom(Len(Rec) + 1) = After
         /\ \A g \in 1 .. Len(Rec) + 1 : GroupsFrom(g) \in Seq(Nat)
         /\ \A g \in Groups :
              /\ CodesOf(g) \in Seq(Seq(Nat)) /\ Len(CodesOf(g)) = Len(Rec[g])
              /\ GroupsFrom(g)
                   = Number(Size, Len(Rec[g])) \o (From(CodesOf(g), 1) \o GroupsFrom(g + 1))
<1> DEFINE n == Len(Rec)
           c == GroupCodes(Size, Rec)
<1>0. /\ Size \in {1, 2} /\ packet.recs \in Seq(Records(Size)) /\ Rec \in Records(Size)
      /\ record \in 1 .. Len(packet.recs) /\ n \in Nat /\ Groups = 1 .. n
      /\ \A g \in Groups : Rec[g] \in Seq(Sensors)
  BY PacketType, RegularRecord DEF TypeInv
<1>1. /\ Codes \in Seq(Seq(Nat)) /\ Len(Codes) = Len(packet.recs)
      /\ record \in 1 .. Len(Codes) /\ Codes[record] = EncodeRecord(Size, Rec)
  BY <1>0, RecordCodesType DEF Codes, Rec
<1>2. After \in Seq(Nat) /\ From(Codes, record) = Codes[record] \o After
  <2>1. record + 1 \in Nat /\ record + 1 # 0
    BY <1>0
  <2> QED BY <1>1, <2>1, FromNext, PartType DEF After
<1>3. /\ c \in Seq(Seq(Nat)) /\ Len(c) = n
      /\ \A g \in 1 .. n : c[g] = EncodeGroup(Size, g, Rec[g])
  BY <1>0, GroupCodesType DEF Groups
<1>4. \A g \in 1 .. n + 1 : From(c, g) \in Seq(Nat)
  <2> TAKE g \in 1 .. n + 1
  <2>1. g \in Nat /\ g # 0
    OBVIOUS
  <2> HIDE DEF c
  <2> QED BY <1>3, <2>1, PartType
<1>5. \A g \in 1 .. n + 1 : GroupsFrom(g) = From(c, g) \o After
  BY DEF GroupsFrom
<1> HIDE DEF c
<1>6. GroupsFrom(n + 1) = After
  <2>1. From(c, n + 1) = <<>>
    BY <1>3, FromEnd
  <2>2. n + 1 \in 1 .. n + 1
    BY <1>0
  <2>3. <<>> \o After = After
    BY <1>2, ConcatEmptySeq
  <2>4. GroupsFrom(n + 1) = From(c, n + 1) \o After
    BY <1>5, <2>2
  <2> QED BY <2>1, <2>3, <2>4
<1>7. From(Codes, record) = Header(Size, Rec) \o GroupsFrom(1)
  <2> DEFINE h == Header(Size, Rec)
             f == From(c, 1)
  <2>1. h \in Seq(Nat) /\ f \in Seq(Nat) /\ Codes[record] = h \o f
    BY <1>0, <1>1, RecordCode, HeaderType DEF c
  <2>2. GroupsFrom(1) = f \o After
    <3>1. 1 \in 1 .. n + 1
      BY <1>0
    <3> QED BY <1>5, <3>1
  <2> HIDE DEF h, f
  <2>3. (h \o f) \o After = h \o (f \o After)
    BY <1>2, <2>1, ThreeJoined, Zenon
  <2> QED BY <1>2, <2>1, <2>2, <2>3 DEF h
<1>8. \A g \in 1 .. n + 1 : GroupsFrom(g) \in Seq(Nat)
  <2> TAKE g \in 1 .. n + 1
  <2>1. From(c, g) \in Seq(Nat) /\ After \in Seq(Nat) /\ GroupsFrom(g) = From(c, g) \o After
    BY <1>2, <1>4, <1>5
  <2>2. From(c, g) \o After \in Seq(Nat)
    BY <2>1, ConcatProperties
  <2> QED BY <2>1, <2>2
<1>9. ASSUME NEW g \in Groups
      PROVE  /\ CodesOf(g) \in Seq(Seq(Nat)) /\ Len(CodesOf(g)) = Len(Rec[g])
             /\ GroupsFrom(g)
                  = Number(Size, Len(Rec[g])) \o (From(CodesOf(g), 1) \o GroupsFrom(g + 1))
  <2> DEFINE m == Number(Size, Len(Rec[g]))
             f == From(CodesOf(g), 1)
             r == From(c, g + 1)
  <2>0. g \in 1 .. n /\ g \in 1 .. n + 1 /\ g + 1 \in 1 .. n + 1 /\ g \in 1 .. Len(c)
        /\ Rec[g] \in Seq(Sensors) /\ Len(Rec[g]) \in Nat
    BY <1>0, <1>3
  <2>1. CodesOf(g) \in Seq(Seq(Nat)) /\ Len(CodesOf(g)) = Len(Rec[g])
    BY <1>0, <2>0, SensorCodesType DEF CodesOf
  <2>2. m \in Seq(Nat) /\ f \in Seq(Nat) /\ c[g] = m \o f
    <3>1. m \in Seq(Nat)
      BY <1>0, <2>0, NumberType
    <3>2. c[g] = EncodeGroup(Size, g, Rec[g])
      BY <1>3, <2>0
    <3>3. f \in Seq(Nat) /\ EncodeGroup(Size, g, Rec[g]) = m \o f
      BY <1>0, <2>0, GroupCode DEF CodesOf
    <3> QED BY <3>1, <3>2, <3>3
  <2>3. r \in Seq(Nat) /\ From(c, g) = c[g] \o r
    BY <1>3, <1>4, <2>0, FromNext
  <2>4. GroupsFrom(g) = From(c, g) \o After /\ GroupsFrom(g + 1) = r \o After
    BY <1>5, <2>0
  <2> HIDE DEF m, f, r
  <2>5. ((m \o f) \o r) \o After = m \o (f \o (r \o After))
    BY <1>2, <2>2, <2>3, FourJoined, SMTT(40)
  <2> QED BY <2>1, <2>2, <2>3, <2>4, <2>5 DEF m, f
<1> QED BY <1>2, <1>6, <1>7, <1>8, <1>9

-----------------------------------------------------------------------------
(* What is decoded.                                                         *)

Decodable == [group : 1 .. 5, id : Nat, val : Seq(Nat)]

\* One sensor more is decoded when ParseInt takes it and else leaves all as it is.
LEMMA ReadableNext ==
  ASSUME NEW s \in Seq(Decodable), NEW e \in Decodable
  PROVE  /\ Readable(s) \in Seq(Decodable)
         /\ Readable(s \o <<e>>)
              = Readable(s) \o (IF Parses(e.group, e.val) THEN <<e>> ELSE <<>>)
<1> DEFINE One(x) == IF Parses(x.group, x.val) THEN <<x>> ELSE <<>>
           t == s \o <<e>>
           a == [i \in DOMAIN s |-> One(s[i])]
           b == [i \in DOMAIN t |-> One(t[i])]
<1>1. \A x \in Decodable : One(x) \in Seq(Decodable)
  OBVIOUS
<1>2. /\ t \in Seq(Decodable) /\ Len(t) = Len(s) + 1 /\ t[Len(s) + 1] = e
      /\ \A i \in 1 .. Len(s) : t[i] = s[i]
  OBVIOUS
<1>3. Readable(s) = FlattenSeq(a) /\ Readable(t) = FlattenSeq(b)
  BY DEF Readable
<1> HIDE DEF t, One
<1>4. a \in Seq(Seq(Decodable)) /\ Len(a) = Len(s) /\ \A i \in 1 .. Len(s) : a[i] = One(s[i])
  <2> DEFINE n == Len(s)
             T == Seq(Decodable)
  <2>1. n \in Nat /\ DOMAIN s = 1 .. n /\ \A i \in 1 .. n : s[i] \in Decodable
    OBVIOUS
  <2>2. a \in [1 .. n -> T] /\ \A i \in 1 .. n : a[i] = One(s[i])
    BY <1>1, <2>1
  <2> HIDE DEF n, T, a
  <2>3. a \in Seq(T) /\ Len(a) = n
    BY <2>1, <2>2
  <2> QED BY <2>2, <2>3 DEF n, T
<1>5. b \in Seq(Seq(Decodable)) /\ Len(b) = Len(t) /\ \A i \in 1 .. Len(t) : b[i] = One(t[i])
  BY <1>1, <1>2
<1> HIDE DEF a, b
<1>6. FlattenSeq(b) = FlattenSeq(a) \o b[Len(a) + 1]
  <2>1. Len(b) = Len(a) + 1 /\ \A i \in 1 .. Len(a) : b[i] = a[i]
    BY <1>2, <1>4, <1>5
  <2> QED BY <1>4, <1>5, <2>1, FlattenNext
<1>7. b[Len(a) + 1] = One(e)
  <2>1. Len(s) + 1 \in 1 .. Len(t)
    BY <1>2
  <2> QED BY <1>2, <1>4, <1>5, <2>1
<1>8. FlattenSeq(a) \in Seq(Decodable)
  BY <1>4, FlattenType
<1> QED BY <1>3, <1>6, <1>7, <1>8 DEF One, t

\* A list is decoded after the step.
WillDecode(list) ==
    /\ decoded' = Readable(list) /\ Len(decoded') <= Len(list)
    /\ lastError' <=> Len(decoded') < Len(list)

\* Reading one more keeps the decoded in step with what is read.
LEMMA DecodesNext ==
  ASSUME NEW s \in Seq(Decodable), NEW e \in Decodable, IsDecoded(s),
         IF Parses(e.group, e.val)
         THEN decoded' = Append(decoded, e) /\ lastError' = lastError
         ELSE lastError' = TRUE /\ decoded' = decoded
  PROVE  WillDecode(s \o <<e>>)
<1> DEFINE t == s \o <<e>>
<1>1. /\ Readable(s) \in Seq(Decodable)
      /\ Readable(t) = Readable(s) \o (IF Parses(e.group, e.val) THEN <<e>> ELSE <<>>)
  BY ReadableNext
<1>2. Len(t) = Len(s) + 1 /\ Len(s) \in Nat
  OBVIOUS
<1>3. /\ decoded = Readable(s) /\ Len(decoded) <= Len(s) /\ Len(decoded) \in Nat
      /\ lastError <=> Len(decoded) < Len(s)
  BY <1>1 DEF IsDecoded
<1> HIDE DEF t
<1>4. CASE Parses(e.group, e.val)
  <2>1. decoded' = decoded \o <<e>> /\ lastError' = lastError
    BY <1>1, <1>3, <1>4, AppendIsConcat
  <2>2. Readable(t) = decoded \o <<e>>
    BY <1>1, <1>3, <1>4
  <2>3. Len(decoded \o <<e>>) = Len(decoded) + 1
    BY <1>1, <1>3
  <2> QED BY <1>2, <1>3, <2>1, <2>2, <2>3 DEF WillDecode, t
<1>5. CASE ~Parses(e.group, e.val)
  <2>1. Readable(t) = decoded
    BY <1>1, <1>3, <1>5, ConcatEmptySeq
  <2> QED BY <1>2, <1>3, <1>5, <2>1 DEF WillDecode, t
<1> QED BY <1>4, <1>5

\* The sensors sent in a record, joined from its groups, are as many as it counts.
LEMMA SentType ==
  ASSUME TypeInv, Regular(packet), record <= Len(packet.recs)
  PROVE  /\ \A g \in Groups :
               /\ SentIn(g) \in Seq(Decodable) /\ Len(SentIn(g)) = Len(Rec[g])
               /\ \A i \in DOMAIN Rec[g] :
                    SentIn(g)[i] = [group |-> g, id |-> Rec[g][i].id, val |-> Rec[g][i].val]
         /\ SentGroups \in Seq(Seq(Decodable)) /\ Len(SentGroups) = Len(Rec)
         /\ \A g \in Groups : SentGroups[g] = SentIn(g)
         /\ SentSensors(Rec) = FlattenSeq(SentGroups)
         /\ Len(SentSensors(Rec)) = Total(Rec)
<1>0. /\ Rec \in Records(Size) /\ Groups = 1 .. Len(Rec) /\ Len(Rec) \in {4, 5}
      /\ \A g \in Groups : Rec[g] \in Seq(Sensors) /\ g \in 1 .. 5
      /\ Size \in {1, 2}
  BY PacketType, RegularRecord DEF TypeInv
<1>1. ASSUME NEW g \in Groups
      PROVE  /\ SentIn(g) \in Seq(Decodable) /\ Len(SentIn(g)) = Len(Rec[g])
             /\ \A i \in DOMAIN Rec[g] :
                  SentIn(g)[i] = [group |-> g, id |-> Rec[g][i].id, val |-> Rec[g][i].val]
  <2>1. Rec[g] \in Seq(Sensors) /\ g \in 1 .. 5
    BY <1>0
  <2>2. \A i \in DOMAIN Rec[g] :
           [group |-> g, id |-> Rec[g][i].id, val |-> Rec[g][i].val] \in Decodable
    <3> TAKE i \in DOMAIN Rec[g]
    <3>1. Rec[g][i] \in Sensors
      BY <2>1
    <3>2. Rec[g][i].id \in Nat /\ Rec[g][i].val \in Seq(Nat)
      BY <3>1 DEF Sensors
    <3> QED BY <2>1, <3>2 DEF Decodable
  <2> DEFINE n == Len(Rec[g])
  <2>3. n \in Nat /\ DOMAIN Rec[g] = 1 .. n
    BY <2>1
  <2>4. SentIn(g) \in [1 .. n -> Decodable]
    BY <2>2, <2>3 DEF SentIn
  <2>5. SentIn(g) \in Seq(Decodable) /\ Len(SentIn(g)) = n
    <3> HIDE DEF n
    <3> QED BY <2>3, <2>4
  <2> QED BY <2>5 DEF SentIn
<1>2. SentGroups \in Seq(Seq(Decodable)) /\ Len(SentGroups) = Len(Rec)
  <2>1. \A g \in Groups : SentIn(g) \in Seq(Decodable)
    BY <1>1
  <2> DEFINE n == Len(Rec)
             T == Seq(Decodable)
  <2>2. n \in Nat /\ SentGroups \in [1 .. n -> T]
    BY <1>0, <2>1 DEF SentGroups
  <2> HIDE DEF n, T
  <2>3. SentGroups \in Seq(T) /\ Len(SentGroups) = n
    BY <2>2
  <2> QED BY <2>3 DEF n, T
<1>3. \A g \in Groups : SentGroups[g] = SentIn(g)
  BY DEF SentGroups
<1>4. SentSensors(Rec) = FlattenSeq(SentGroups)
  BY DEF SentSensors, SentGroups, SentIn
<1>5. Len(FlattenSeq(SentGroups)) = Len(FlattenSeq(Rec))
  <2>1. Rec \in Seq(Seq(Sensors))
    BY <1>0, TotalType
  <2>2. \A i \in 1 .. Len(SentGroups) : Len(SentGroups[i]) = Len(Rec[i])
    BY <1>0, <1>1, <1>2, <1>3
  <2> QED BY <1>2, <2>1, <2>2, SameLength
<1> QED BY <1>1, <1>2, <1>3, <1>4, <1>5 DEF Total

-----------------------------------------------------------------------------
(* The steps of the walk.                                                   *)

\* Where a step within a record leads.
LEMMA ArrivesAtGroup ==
  ASSUME UNCHANGED <<packet, bytes, record>>, pc' = "group", all' = Total(Rec),
         group' \in Groups => /\ Ahead(pos', GroupsFrom(group'))
                              /\ WillDecode(UpTo(SentGroups, group' - 1)),
         group' \notin Groups => Ahead(pos', After) /\ WillDecode(SentSensors(Rec))
  PROVE  InStep'
<1>1. Rec' = Rec /\ Groups' = Groups /\ Total(Rec') = Total(Rec)
  BY DEF Rec, Groups, Size
<1>2. Position'
  BY DEF Position, Todo, Ahead, GroupsFrom, After, Codes, Rec, Groups, Size
<1>3. Decoding'
  BY DEF Decoding, IsDecoded, WillDecode, SentGroups, SentSensors, SentIn, Rec, Groups, Size
<1> QED BY <1>1, <1>2, <1>3 DEF InStep, Counted

\* A step to the sensors of a group: what the invariant asks of it.
LEMMA ArrivesAtSensor ==
  ASSUME UNCHANGED <<packet, bytes, record, group>>, pc' = "sensor", all' = Total(Rec),
         left' <= Len(Rec[group]), Ahead(pos', SensorsFrom(Len(Rec[group]) - left' + 1)),
         WillDecode(UpTo(SentGroups, group - 1)
           \o SubSeq(SentIn(group), 1, Len(Rec[group]) - left'))
  PROVE  InStep'
<1>1. Rec' = Rec /\ Groups' = Groups /\ Total(Rec') = Total(Rec)
  BY DEF Rec, Groups, Size
<1>2. Position'
  BY DEF Position, Todo, Ahead, SensorsFrom, CodesOf, GroupsFrom, After, Codes, Rec, Groups, Size
<1>3. Decoding'
  BY DEF Decoding, IsDecoded, WillDecode, SentGroups, SentSensors, SentIn, Rec, Groups, Size
<1> QED BY <1>1, <1>2, <1>3 DEF InStep, Counted

\* The count of a header is the record's, and the record's groups are ahead of it.
LEMMA HeaderStep ==
  ASSUME TypeInv, Regular(packet), InStep, ReadHeader PROVE InStep'
<1> DEFINE z == Zeros(FixedSize + Size)
           m == Number(Size, Total(Rec))
<1>0. /\ pc = "header" /\ record <= Len(packet.recs) /\ Size \in {1, 2} /\ FixedSize \in Nat
      /\ HeaderSize = FixedSize + Size /\ HeaderSize \in Nat
      /\ pos \in 1 .. Len(bytes) + 1 /\ Len(bytes) \in Nat
  BY PacketType DEF ReadHeader, HeaderSize, TypeInv, TypeOK
<1>1. /\ Total(Rec) \in Nat /\ Groups = 1 .. Len(Rec) /\ Len(Rec) \in {4, 5}
      /\ GroupsFrom(1) \in Seq(Nat) /\ From(Codes, record) = Header(Size, Rec) \o GroupsFrom(1)
  <2>1. 1 \in 1 .. Len(Rec) + 1
    BY <1>0, RegularRecord
  <2> QED BY <1>0, <2>1, RegularRecord, CodesAhead
<1>2. z \in Seq(Nat) /\ Len(z) = HeaderSize /\ m \in Seq(Nat)
  BY <1>0, <1>1, ZerosType, NumberType
<1>3. Header(Size, Rec) = z \o m
  BY DEF Header
<1> HIDE DEF z
<1>4. Ahead(pos, z \o (m \o GroupsFrom(1)))
  <2>1. Ahead(pos, (z \o m) \o GroupsFrom(1))
    BY <1>0, <1>1, <1>3 DEF InStep, Position, Todo
  <2>2. (z \o m) \o GroupsFrom(1) = z \o (m \o GroupsFrom(1))
    <3> HIDE DEF m
    <3> QED BY <1>1, <1>2, ThreeJoined, Zenon
  <2> QED BY <2>1, <2>2
<1>5. m \o GroupsFrom(1) \in Seq(Nat)
  BY <1>1, <1>2, ConcatProperties
<1>6. /\ pos + HeaderSize \in 1 .. Len(bytes) + 1
      /\ Ahead(pos + HeaderSize, m \o GroupsFrom(1))
  <2> HIDE DEF m
  <2> QED BY <1>0, <1>2, <1>4, <1>5, AheadReads
<1>7. /\ pos + HeaderSize + Size \in 1 .. Len(bytes) + 1
      /\ NumberAt(pos + HeaderSize) = Total(Rec)
      /\ Ahead(pos + HeaderSize + Size, GroupsFrom(1))
  BY <1>1, <1>6, NumberReads
<1>8. ~Astray(HeaderSize + Size)
  BY <1>0, <1>7 DEF Astray, Inside
<1>9. /\ all' = Total(Rec) /\ pos' = pos + HeaderSize + Size /\ group' = 1
      /\ lastError' = FALSE /\ decoded' = <<>> /\ pc' = "group"
      /\ UNCHANGED <<packet, bytes, record>>
  BY <1>7, <1>8 DEF ReadHeader
<1>10. WillDecode(UpTo(SentGroups, group' - 1))
  <2>1. group' - 1 = 0 /\ SubSeq(SentGroups, 1, 0) = <<>>
    BY <1>9
  <2>2. UpTo(SentGroups, group' - 1) = <<>>
    BY <2>1, FlattenEmpty DEF UpTo
  <2>3. Readable(<<>>) = <<>>
    <3>1. [i \in DOMAIN <<>> |-> IF Parses(<<>>[i].group, <<>>[i].val)
                                 THEN <<<<>>[i]>> ELSE <<>>] = <<>>
      OBVIOUS
    <3> QED BY <3>1, FlattenEmpty DEF Readable
  <2> QED BY <1>9, <2>2, <2>3 DEF WillDecode
<1>11. group' \in Groups
  <2> DEFINE l == Len(Rec)
  <2>1. l \in {4, 5} /\ Groups = 1 .. l
    BY <1>1
  <2> HIDE DEF l
  <2>2. 1 \in 1 .. l
    BY <2>1
  <2> QED BY <1>9, <2>1, <2>2
<1> QED BY <1>7, <1>9, <1>10, <1>11, ArrivesAtGroup

\* A group's count is read as sent and its sensors are ahead.
LEMMA GroupStep ==
  ASSUME TypeInv, Regular(packet), InStep, NextGroup PROVE InStep'
<1>0. /\ pc = "group" /\ record <= Len(packet.recs) /\ Size \in {1, 2}
      /\ pos \in 1 .. Len(bytes) + 1 /\ group \in Nat /\ group > 0 /\ Len(bytes) \in Nat
      /\ all = Total(Rec) /\ lastError \in BOOLEAN
  BY PacketType DEF NextGroup, TypeInv, TypeOK, InStep, Counted
<1>1. /\ Groups = 1 .. Len(Rec) /\ Len(Rec) \in {4, 5}
      /\ \A g \in Groups : Rec[g] \in Seq(Sensors)
  BY <1>0, RegularRecord
<1>2. CASE group \in Groups
  <2> DEFINE n == Len(Rec[group])
             r == From(CodesOf(group), 1) \o GroupsFrom(group + 1)
  <2>1. /\ n \in Nat /\ GroupsFrom(group) = Number(Size, n) \o r
        /\ CodesOf(group) \in Seq(Seq(Nat))
    <3>1. n \in Nat
      BY <1>1, <1>2
    <3> QED BY <1>0, <1>2, <3>1, CodesAhead
  <2>2. r \in Seq(Nat)
    <3>1. group + 1 \in 1 .. Len(Rec) + 1 /\ 1 \in Nat /\ 1 # 0
      BY <1>0, <1>1, <1>2
    <3>2. From(CodesOf(group), 1) \in Seq(Nat)
      BY <2>1, <3>1, PartType
    <3>3. GroupsFrom(group + 1) \in Seq(Nat)
      BY <1>0, <3>1, CodesAhead
    <3> QED BY <3>2, <3>3, ConcatProperties
  <2>3. Ahead(pos, Number(Size, n) \o r)
    BY <1>0, <1>2, <2>1 DEF InStep, Position, Todo
  <2>4. /\ pos + Size \in 1 .. Len(bytes) + 1 /\ NumberAt(pos) = n /\ Ahead(pos + Size, r)
    <3> HIDE DEF n, r
    <3> QED BY <1>0, <2>1, <2>2, <2>3, NumberReads
  <2>5. ~Astray(Size)
    BY <1>0, <2>4 DEF Astray, Inside
  <2>6. /\ left' = n /\ pos' = pos + Size /\ pc' = "sensor"
        /\ UNCHANGED <<packet, bytes, record, all, group, decoded, lastError>>
    BY <1>2, <2>4, <2>5 DEF NextGroup
  <2>7. Ahead(pos', SensorsFrom(n - left' + 1))
    <3>1. n - left' + 1 = 1
      BY <2>1, <2>6
    <3> QED BY <2>4, <2>6, <3>1 DEF SensorsFrom
  <2>8. WillDecode(UpTo(SentGroups, group - 1) \o SubSeq(SentIn(group), 1, n - left'))
    <3> DEFINE u == UpTo(SentGroups, group - 1)
    <3>1. n - left' = 0 /\ SubSeq(SentIn(group), 1, 0) = <<>>
      BY <2>1, <2>6
    <3>2. u \in Seq(Decodable)
      <4>1. group - 1 \in Nat /\ group - 1 <= Len(SentGroups)
        BY <1>0, <1>1, <1>2, SentType
      <4> QED BY <1>0, <4>1, SentType, PartType
    <3>3. u \o SubSeq(SentIn(group), 1, n - left') = u
      <4> HIDE DEF u, n
      <4> QED BY <3>1, <3>2, ConcatEmptySeq
    <3> HIDE DEF n
    <3> QED BY <1>0, <1>2, <2>6, <3>3 DEF InStep, Decoding, IsDecoded, WillDecode
  <2>9. left' <= n
    BY <2>1, <2>6
  <2> QED BY <1>0, <2>6, <2>7, <2>8, <2>9, ArrivesAtSensor
<1>3. CASE group \notin Groups
  <2>1. \/ group' = group + 1 /\ UNCHANGED <<packet, bytes, pos, record, all, left, decoded,
                                             lastError, pc>>
        \/ Astray(Size) /\ group \in Groups
    BY <1>3 DEF NextGroup
  <2>2. /\ group' = group + 1
        /\ UNCHANGED <<packet, bytes, pos, record, all, left, decoded, lastError, pc>>
    BY <1>3, <2>1
  <2>3. group' \notin Groups
    BY <1>0, <1>1, <1>3, <2>2
  <2>4. Ahead(pos', After) /\ WillDecode(SentSensors(Rec))
    BY <1>0, <1>3, <2>2 DEF InStep, Position, Decoding, Todo, IsDecoded, WillDecode
  <2> QED BY <1>0, <2>2, <2>3, <2>4, ArrivesAtGroup
<1> QED BY <1>2, <1>3

\* A sensor's id and value are read as sent, and the next one is ahead.
LEMMA SensorStep ==
  ASSUME TypeInv, Regular(packet), InStep, ReadSensor PROVE InStep'
<1> DEFINE n == Len(Rec[group])
           k == n - left + 1
           e == Rec[group][k]
           r == From(CodesOf(group), k + 1) \o GroupsFrom(group + 1)
           w == Len(e.val)
<1>0. /\ pc = "sensor" /\ left > 0 /\ record <= Len(packet.recs) /\ Size \in {1, 2}
      /\ pos \in 1 .. Len(bytes) + 1 /\ group \in Groups /\ Len(bytes) \in Nat
      /\ all = Total(Rec) /\ left \in Nat
      /\ left <= n /\ Ahead(pos, SensorsFrom(k))
  BY PacketType DEF ReadSensor, TypeInv, TypeOK, InStep, Counted, Position, Todo
<1>1. Groups = 1 .. Len(Rec) /\ Len(Rec) \in {4, 5} /\ Rec[group] \in Seq(Sensors)
  BY <1>0, RegularRecord
<1>2. n \in Nat /\ k \in 1 .. n /\ k \in Nat /\ DOMAIN Rec[group] = 1 .. n
  BY <1>0, <1>1
<1>3. group \in 1 .. 4 /\ w = Width[group]
  BY <1>0, <1>2, RegularRecord
<1>4. e \in Sensors /\ e.id \in Nat /\ e.val \in Seq(Nat) /\ w \in Nat
  <2>1. e \in Sensors
    BY <1>1, <1>2
  <2> HIDE DEF e
  <2> QED BY <2>1 DEF Sensors
<1>5. /\ CodesOf(group) \in Seq(Seq(Nat)) /\ Len(CodesOf(group)) = n
      /\ CodesOf(group)[k] = Number(Size, e.id) \o e.val
  <2>1. CodesOf(group)[k] = EncodeSensor(Size, group, e)
    BY <1>0, <1>1, <1>2, SensorCodesType DEF CodesOf
  <2>2. EncodeSensor(Size, group, e) = Number(Size, e.id) \o <<>> \o e.val
    <3> HIDE DEF e
    <3>1. group # 5
      BY <1>3
    <3> QED BY <3>1, Zenon DEF EncodeSensor
  <2>3. Number(Size, e.id) \in Seq(Nat)
    BY <1>0, <1>4, NumberType
  <2>4. Number(Size, e.id) \o <<>> = Number(Size, e.id)
    BY <2>3, ConcatEmptySeq
  <2> QED BY <1>0, <2>1, <2>2, <2>4, CodesAhead
<1> HIDE DEF e
<1>6. r \in Seq(Nat) /\ From(CodesOf(group), k + 1) \in Seq(Nat) /\ GroupsFrom(group + 1) \in Seq(Nat)
  <2>1. group + 1 \in 1 .. Len(Rec) + 1 /\ k + 1 \in Nat /\ k + 1 # 0
    BY <1>0, <1>1, <1>2
  <2>2. From(CodesOf(group), k + 1) \in Seq(Nat)
    BY <1>5, <2>1, PartType
  <2>3. GroupsFrom(group + 1) \in Seq(Nat)
    BY <1>0, <2>1, CodesAhead
  <2> QED BY <2>2, <2>3, ConcatProperties
<1>7. SensorsFrom(k) = Number(Size, e.id) \o (e.val \o r)
  <2> DEFINE m == Number(Size, e.id)
             v == e.val
             f == From(CodesOf(group), k + 1)
             q == GroupsFrom(group + 1)
  <2>1. m \in Seq(Nat) /\ v \in Seq(Nat) /\ f \in Seq(Nat) /\ q \in Seq(Nat)
    BY <1>0, <1>4, <1>6, NumberType
  <2>2. From(CodesOf(group), k) = (m \o v) \o f
    <3>1. k \in 1 .. Len(CodesOf(group))
      BY <1>2, <1>5
    <3> HIDE DEF k
    <3>2. From(CodesOf(group), k) = CodesOf(group)[k] \o From(CodesOf(group), k + 1)
      BY <1>5, <3>1, FromNext
    <3> QED BY <1>5, <3>2
  <2>3. SensorsFrom(k) = From(CodesOf(group), k) \o q
    BY DEF SensorsFrom
  <2> HIDE DEF m, v, f, q
  <2>4. ((m \o v) \o f) \o q = m \o (v \o (f \o q))
    BY <2>1, FourJoined, SMTT(40)
  <2> QED BY <2>2, <2>3, <2>4 DEF m, v, f, q
<1> HIDE DEF r
<1>8. e.val \o r \in Seq(Nat)
  BY <1>4, <1>6, ConcatProperties
<1>9. /\ pos + Size \in 1 .. Len(bytes) + 1 /\ NumberAt(pos) = e.id
      /\ Ahead(pos + Size, e.val \o r)
  <2>1. Ahead(pos, Number(Size, e.id) \o (e.val \o r))
    BY <1>0, <1>7
  <2> QED BY <1>0, <1>4, <1>8, <2>1, NumberReads
<1>10. /\ pos + Size + w \in 1 .. Len(bytes) + 1
       /\ SubSeq(bytes, pos + Size, pos + Size + w - 1) = e.val
       /\ Ahead(pos + Size + w, r)
  BY <1>4, <1>6, <1>9, AheadReads
<1>11. ValueSize = w
  BY <1>3 DEF ValueSize
<1>12. ~Astray(Size) /\ ~Astray(Size + ValueSize)
  <2>1. Inside(Size) /\ Inside(Size + w)
    <3> HIDE DEF w
    <3>1. pos + Size <= Len(bytes) + 1 /\ pos + Size + w <= Len(bytes) + 1
      BY <1>0, <1>4, <1>9, <1>10
    <3> QED BY <1>0, <1>4, <3>1 DEF Inside
  <2> QED BY <1>11, <2>1 DEF Astray
<1> DEFINE x == [group |-> group, id |-> e.id, val |-> e.val]
<1>13. /\ pos' = pos + Size + w /\ left' = left - 1
       /\ IF Parses(group, e.val) THEN decoded' = Append(decoded, x) /\ lastError' = lastError
                                  ELSE lastError' = TRUE /\ decoded' = decoded
       /\ UNCHANGED <<packet, bytes, record, all, group, pc>>
  BY <1>9, <1>10, <1>11, <1>12 DEF ReadSensor
<1>14. Ahead(pos', SensorsFrom(n - left' + 1))
  <2>1. n - left' + 1 = k + 1
    BY <1>0, <1>2, <1>13
  <2> QED BY <1>10, <1>13, <2>1 DEF SensorsFrom, r
<1>15. WillDecode(UpTo(SentGroups, group - 1) \o SubSeq(SentIn(group), 1, n - left'))
  <2> DEFINE u == UpTo(SentGroups, group - 1)
             s == SentIn(group)
             p == SubSeq(s, 1, n - left)
  <2>1. u \in Seq(Decodable)
    <3>1. group - 1 \in Nat /\ group - 1 <= Len(SentGroups)
      BY <1>0, <1>1, SentType
    <3> QED BY <1>0, <3>1, SentType, PartType
  <2>2. s \in Seq(Decodable) /\ Len(s) = n /\ s[k] = x
    BY <1>0, <1>2, SentType DEF e
  <2>3. x \in Decodable
    BY <1>3, <1>4 DEF Decodable
  <2>4. IsDecoded(u \o p)
    BY <1>0 DEF InStep, Decoding
  <2> HIDE DEF x, u, s
  <2>5. p \in Seq(Decodable) /\ SubSeq(s, 1, n - left') = p \o <<x>>
    <3>1. n - left' = k /\ n - left = k - 1 /\ 1 \in 1 .. Len(s) /\ k \in 1 .. Len(s)
      BY <1>0, <1>2, <1>13, <2>2
    <3>2. SubSeq(s, 1, k) = SubSeq(s, 1, k - 1) \o <<s[k]>>
      <4> HIDE DEF n, k
      <4> QED BY <2>2, <3>1, SubSeqRecursiveSecond
    <3>3. p \in Seq(Decodable)
      BY <2>2, <3>1
    <3> QED BY <2>2, <3>1, <3>2, <3>3
  <2>6. u \o p \in Seq(Decodable)
    BY <2>1, <2>5, ConcatProperties
  <2> HIDE DEF p
  <2>7. WillDecode((u \o p) \o <<x>>)
    <3>1. x.group = group /\ x.val = e.val
      BY DEF x
    <3>2. IF Parses(x.group, x.val) THEN decoded' = Append(decoded, x) /\ lastError' = lastError
                                    ELSE lastError' = TRUE /\ decoded' = decoded
      BY <1>13, <3>1 DEF x
    <3> QED BY <2>3, <2>4, <2>6, <3>2, DecodesNext
  <2>8. (u \o p) \o <<x>> = u \o (p \o <<x>>)
    <3> DEFINE y == <<x>>
    <3>1. y \in Seq(Decodable)
      BY <2>3
    <3> HIDE DEF y
    <3>2. (u \o p) \o y = u \o (p \o y)
      BY <2>1, <2>5, <3>1, ConcatAssociative, SMTT(30)
    <3> QED BY <3>2 DEF y
  <2> QED BY <2>5, <2>7, <2>8 DEF u, s
<1>16. left' <= n /\ pc' = "sensor" /\ all' = Total(Rec)
  BY <1>0, <1>2, <1>13
<1> QED BY <1>13, <1>14, <1>15, <1>16, ArrivesAtSensor

\* Behind the last sensor of a group the groups after it are ahead.
LEMMA EndOfGroupStep ==
  ASSUME TypeInv, Regular(packet), InStep, EndOfGroup PROVE InStep'
<1> DEFINE n == Len(Rec[group])
           u == UpTo(SentGroups, group - 1)
           s == SentIn(group)
<1>0. /\ pc = "sensor" /\ left = 0 /\ record <= Len(packet.recs) /\ Size \in {1, 2}
      /\ group \in Groups /\ all = Total(Rec) /\ Ahead(pos, SensorsFrom(n - left + 1))
      /\ IsDecoded(u \o SubSeq(s, 1, n - left))
  BY PacketType DEF EndOfGroup, TypeInv, InStep, Counted, Position, Decoding, Todo
<1>1. /\ group' = group + 1 /\ pc' = "group"
      /\ UNCHANGED <<packet, bytes, pos, record, all, left, decoded, lastError>>
  BY DEF EndOfGroup
<1>2. /\ Groups = 1 .. Len(Rec) /\ Len(Rec) \in Nat /\ n \in Nat
      /\ group \in Nat /\ group + 1 \in 1 .. Len(Rec) + 1
      /\ group - 1 \in Nat /\ group - 1 < Len(Rec) /\ group - 1 + 1 = group
  <2>1. Groups = 1 .. Len(Rec) /\ Len(Rec) \in {4, 5} /\ Rec[group] \in Seq(Sensors)
    BY <1>0, RegularRecord
  <2> DEFINE l == Len(Rec)
  <2>2. Groups = 1 .. l /\ l \in Nat
    BY <2>1
  <2> HIDE DEF l
  <2>3. /\ group \in Nat /\ group + 1 \in 1 .. l + 1 /\ group - 1 \in Nat
        /\ group - 1 < l /\ group - 1 + 1 = group
    BY <1>0, <2>2
  <2> QED BY <2>1, <2>2, <2>3 DEF l
<1>3. Ahead(pos', GroupsFrom(group'))
  <2>1. CodesOf(group) \in Seq(Seq(Nat)) /\ Len(CodesOf(group)) = n
    BY <1>0, CodesAhead
  <2>2. From(CodesOf(group), n + 1) = <<>>
    BY <2>1, FromEnd
  <2>3. GroupsFrom(group + 1) \in Seq(Nat)
    BY <1>0, <1>2, CodesAhead
  <2>4. SensorsFrom(n + 1) = GroupsFrom(group + 1)
    BY <2>2, <2>3, ConcatEmptySeq DEF SensorsFrom
  <2>5. n - left + 1 = n + 1
    BY <1>0, <1>2
  <2> QED BY <1>0, <1>1, <2>4, <2>5
<1>4. WillDecode(UpTo(SentGroups, group' - 1))
  <2>1. /\ SentGroups \in Seq(Seq(Decodable)) /\ Len(SentGroups) = Len(Rec)
        /\ s \in Seq(Decodable) /\ Len(s) = n /\ SentGroups[group] = s
    BY <1>0, SentType
  <2>2. SubSeq(s, 1, n - left) = s
    <3>1. n - left = Len(s)
      BY <1>0, <1>2, <2>1
    <3> QED BY <2>1, <3>1, SubSeqFull
  <2>3. UpTo(SentGroups, (group - 1) + 1) = u \o SentGroups[(group - 1) + 1]
    BY <1>2, <2>1, UpToNext
  <2>4. group' - 1 = (group - 1) + 1
    BY <1>1, <1>2
  <2>5. UpTo(SentGroups, group' - 1) = u \o s
    BY <1>2, <2>1, <2>3, <2>4
  <2> HIDE DEF u, s
  <2>6. decoded' = decoded /\ lastError' = lastError
    BY <1>1
  <2> QED BY <1>0, <2>2, <2>5, <2>6 DEF IsDecoded, WillDecode
<1>5. ASSUME group' \notin Groups
      PROVE  GroupsFrom(group') = After /\ UpTo(SentGroups, group' - 1) = SentSensors(Rec)
  <2>1. group' = Len(Rec) + 1 /\ group' - 1 = Len(Rec)
    <3> DEFINE l == Len(Rec)
    <3>1. l \in Nat /\ Groups = 1 .. l /\ group' \in 1 .. l + 1 /\ group' \notin 1 .. l
      BY <1>1, <1>2, <1>5
    <3> HIDE DEF l
    <3>2. group' \in Nat /\ group' >= 1 /\ group' <= l + 1
      BY <3>1
    <3>3. ~(group' <= l)
      BY <3>1, <3>2
    <3>4. group' = l + 1 /\ group' - 1 = l
      <4>1. \A x, y \in Nat : x <= y + 1 /\ ~(x <= y) => x = y + 1 /\ x - 1 = y
        OBVIOUS
      <4>2. l \in Nat
        BY <3>1
      <4> QED BY <3>2, <3>3, <4>1, <4>2
    <3> QED BY <3>4 DEF l
  <2>2. GroupsFrom(Len(Rec) + 1) = After
    BY <1>0, CodesAhead
  <2>3. /\ SentGroups \in Seq(Seq(Decodable)) /\ Len(SentGroups) = Len(Rec)
        /\ SentSensors(Rec) = FlattenSeq(SentGroups)
    BY <1>0, SentType
  <2>4. SubSeq(SentGroups, 1, Len(SentGroups)) = SentGroups
    BY <2>3, SubSeqFull
  <2> QED BY <2>1, <2>2, <2>3, <2>4 DEF UpTo
<1>6. all' = Total(Rec)
  BY <1>0, <1>1
<1>7. ASSUME group' \notin Groups PROVE Ahead(pos', After) /\ WillDecode(SentSensors(Rec))
  BY <1>3, <1>4, <1>5, <1>7
<1> QED BY <1>1, <1>3, <1>4, <1>6, <1>7, ArrivesAtGroup

\* Behind the groups the next record is ahead, and behind the last one nothing.
LEMMA OtherSteps ==
  ASSUME TypeInv, Regular(packet), InStep,
         EndOfGroups \/ NextRecord \/ EndOfPacket \/ UNCHANGED vars
  PROVE  InStep'
<1>1. CASE EndOfGroups
  <2>1. /\ pc = "group" /\ group > all /\ pc' = "check"
        /\ UNCHANGED <<packet, bytes, pos, record, all, group, left, decoded, lastError>>
        /\ record <= Len(packet.recs) /\ all = Total(Rec)
    BY <1>1 DEF EndOfGroups, TypeInv, InStep, Counted
  <2>2. group \notin Groups
    <3> DEFINE l == Len(Rec)
               t == Total(Rec)
    <3>1. Groups = 1 .. l /\ l \in {4, 5} /\ t \in Nat /\ t >= l /\ group > t
      BY <2>1, RegularRecord
    <3>2. group \in Nat
      BY DEF TypeInv, TypeOK
    <3> HIDE DEF l, t
    <3> QED BY <3>1, <3>2
  <2>3. Ahead(pos, After) /\ IsDecoded(SentSensors(Rec))
    BY <2>1, <2>2 DEF InStep, Position, Decoding, Todo
  <2>4. Position'
    BY <2>1, <2>3 DEF Position, Todo, Ahead, After, Codes, Rec, Size
  <2>5. Decoding'
    BY <2>1, <2>3 DEF Decoding, IsDecoded, SentSensors, Rec, Groups, Size
  <2> QED BY <2>1, <2>4, <2>5 DEF InStep, Counted
<1>2. CASE NextRecord
  <2>1. /\ pc = "check" /\ pc' = "header" /\ record' = record + 1
        /\ UNCHANGED <<packet, bytes, pos, all, group, left, decoded, lastError>>
    BY <1>2 DEF NextRecord
  <2>2. Ahead(pos, From(Codes, record + 1))
    BY <2>1 DEF InStep, Position, Todo, After
  <2>3. Position'
    BY <2>1, <2>2 DEF Position, Todo, Ahead, Codes, Size
  <2> QED BY <2>1, <2>3 DEF InStep, Counted, Decoding
<1>3. CASE EndOfPacket
  BY <1>3 DEF EndOfPacket, InStep, Position, Counted, Decoding
<1>4. CASE UNCHANGED vars
  BY <1>4 DEF vars, InStep, Position, Counted, Decoding, Todo, Ahead, IsDecoded, SensorsFrom,
     GroupsFrom, After, CodesOf, Codes, SentSensors, SentGroups, SentIn, Rec, Groups, Size
<1> QED BY <1>1, <1>2, <1>3, <1>4

\* Every step keeps the walk in step with the packet.
LEMMA WalkNext == ASSUME WalkInv, [Next]_vars PROVE WalkInv'
<1>1. TypeInv'
  BY TypeNext DEF WalkInv
<1>2. packet' = packet /\ bytes' = bytes
  BY DEF Next, ReadHeader, NextGroup, ReadSensor, EndOfGroup, EndOfGroups, NextRecord,
     EndOfPacket, Stop, Astray, vars
<1>3. ASSUME Regular(packet) PROVE InStep'
  <2>1. TypeInv /\ InStep
    BY <1>3 DEF WalkInv
  <2> QED BY <1>3, <2>1, HeaderStep, GroupStep, SensorStep, EndOfGroupStep, OtherSteps
          DEF Next, Stop
<1>4. Size' = Size
  BY <1>2 DEF Size
<1> QED BY <1>1, <1>2, <1>3, <1>4 DEF WalkInv

\* The walk begins in front of the first record.
LEMMA WalkInit == Init => WalkInv
<1> SUFFICES ASSUME Init PROVE WalkInv
  OBVIOUS
<1>0. /\ packet \in Packets /\ Size \in {1, 2} /\ packet.recs \in Seq(Records(Size))
      /\ bytes = Encode(Size, packet.recs)
  BY PacketAssumption DEF PacketAssumption, Init, Size, Records
<1>1. /\ Codes \in Seq(Seq(Nat)) /\ bytes = FlattenSeq(Codes)
  BY <1>0, RecordCodesType DEF Codes
<1>2. bytes \in Seq(Nat)
  BY <1>1, FlattenType
<1>3. TypeInv
  <2>1. /\ pos \in 1 .. Len(bytes) + 1 /\ record \in 1 .. Len(packet.recs) + 1
        /\ all \in Nat /\ left \in Nat /\ group \in 1 .. all + 1
    BY <1>0, <1>2 DEF Init
  <2> QED BY <1>0, <1>2, <2>1 DEF Init, TypeInv, TypeOK
<1>4. Position
  <2>1. SubSeq(bytes, 1, Len(bytes)) = bytes
    BY <1>2, SubSeqFull
  <2>2. SubSeq(Codes, 1, Len(Codes)) = Codes
    BY <1>1, SubSeqFull
  <2> QED BY <1>1, <2>1, <2>2 DEF Init, Position, Todo, Ahead, From
<1> QED BY <1>0, <1>3, <1>4 DEF Init, WalkInv, InStep, Counted, Decoding

\* The walk's position and what it has decoded are in step with the packet.
THEOREM Invariance == Spec => []WalkInv
  BY WalkInit, WalkNext, PTL DEF Spec

\* Every variable of the walk keeps its type, through regular packets and those
\* that lead it astray: the position stays within the packet.
THEOREM TypeCorrect == Spec => []TypeOK
<1>1. WalkInv => TypeOK
  BY DEF WalkInv, TypeInv
<1> QED BY <1>1, Invariance, PTL

\* The codes of the first records are the first of the codes.
LEMMA EncodesUpTo ==
  ASSUME TypeInv, NEW i \in 1 .. Len(packet.recs)
  PROVE  Encode(Size, SubSeq(packet.recs, 1, i)) = UpTo(Codes, i)
<1> DEFINE recs == packet.recs
           part == SubSeq(recs, 1, i)
           c == RecordCodes(Size, part)
           d == SubSeq(Codes, 1, i)
<1>0. Size \in {1, 2} /\ recs \in Seq(Records(Size))
  BY PacketType DEF TypeInv
<1>1. /\ Codes \in Seq(Seq(Nat)) /\ Len(Codes) = Len(recs)
      /\ \A k \in 1 .. Len(recs) : Codes[k] = EncodeRecord(Size, recs[k])
  BY <1>0, RecordCodesType DEF Codes
<1>2. /\ part \in Seq(Records(Size)) /\ Len(part) = i /\ \A k \in 1 .. i : part[k] = recs[k]
  BY <1>0
<1> HIDE DEF part
<1>3. /\ c \in Seq(Seq(Nat)) /\ Len(c) = i /\ Encode(Size, part) = FlattenSeq(c)
      /\ \A k \in 1 .. i : c[k] = EncodeRecord(Size, part[k])
  BY <1>0, <1>2, RecordCodesType
<1> HIDE DEF c
<1>4. d \in Seq(Seq(Nat)) /\ Len(d) = i /\ \A k \in 1 .. i : d[k] = Codes[k]
  <2>1. i \in Nat /\ i <= Len(Codes)
    BY <1>1
  <2> QED BY <1>1, <2>1
<1>5. \A k \in 1 .. i : c[k] = d[k]
  <2> TAKE k \in 1 .. i
  <2>1. k \in 1 .. Len(recs)
    OBVIOUS
  <2>2. c[k] = EncodeRecord(Size, part[k]) /\ part[k] = recs[k] /\ d[k] = Codes[k]
    BY <1>2, <1>3, <1>4
  <2> QED BY <1>1, <2>1, <2>2
<1> HIDE DEF d
<1>6. c = d
  BY <1>3, <1>4, <1>5, SeqEqual
<1> QED BY <1>3, <1>6 DEF UpTo, part, d

\* When a record of a regular packet is filed, its sensors are those sent that
\* ParseInt takes, in order, and the position is where the next record begins: for
\* any number of records, of sensors in a group and of bytes before them.
THEOREM RecordsAreRead == Spec => []RecordAsSent
<1>1. ASSUME WalkInv PROVE RecordAsSent
  <2> SUFFICES ASSUME Regular(packet), pc = "check"
               PROVE  /\ decoded = Readable(SentSensors(Rec))
                      /\ lastError <=> Len(decoded) < Total(Rec)
                      /\ pos = EndOf(record)
    BY DEF RecordAsSent, Rec
  <2>0. /\ TypeInv /\ record \in 1 .. Len(packet.recs) /\ record <= Len(packet.recs)
        /\ Size \in {1, 2} /\ packet.recs \in Seq(Records(Size))
        /\ Ahead(pos, After) /\ IsDecoded(SentSensors(Rec))
        /\ pos \in 1 .. Len(bytes) + 1 /\ bytes \in Seq(Nat)
        /\ bytes = Encode(Size, packet.recs)
    BY <1>1, PacketType DEF WalkInv, TypeInv, TypeOK, InStep, Position, Decoding, Todo
  <2>1. Len(SentSensors(Rec)) = Total(Rec)
    BY <2>0, SentType
  <2>2. /\ Codes \in Seq(Seq(Nat)) /\ Len(Codes) = Len(packet.recs)
        /\ bytes = FlattenSeq(Codes)
    BY <2>0, RecordCodesType DEF Codes
  <2>3. /\ UpTo(Codes, record) \in Seq(Nat) /\ After \in Seq(Nat)
        /\ bytes = UpTo(Codes, record) \o After
    <3>1. record \in Nat /\ record <= Len(Codes) /\ record + 1 \in Nat /\ record + 1 # 0
      BY <2>0, <2>2
    <3> QED BY <2>2, <3>1, UpToFrom, PartType DEF After
  <2>4. Len(bytes) - pos + 1 = Len(After)
    <3>1. Len(SubSeq(bytes, pos, Len(bytes))) = Len(bytes) - pos + 1
      BY <2>0
    <3> QED BY <2>0, <3>1 DEF Ahead
  <2>5. Len(bytes) = Len(UpTo(Codes, record)) + Len(After)
    BY <2>3, ConcatProperties
  <2>6. pos = 1 + Len(UpTo(Codes, record))
    <3> DEFINE u == Len(UpTo(Codes, record))
               v == Len(After)
               w == Len(bytes)
    <3>1. u \in Nat /\ v \in Nat /\ w \in Nat /\ pos \in Nat /\ w - pos + 1 = v /\ w = u + v
      BY <2>0, <2>3, <2>4, <2>5
    <3> HIDE DEF u, v, w
    <3>2. pos = 1 + u
      BY <3>1
    <3> QED BY <3>2 DEF u
  <2>7. pos = EndOf(record)
    BY <2>0, <2>6, EncodesUpTo DEF EndOf
  <2> QED BY <2>0, <2>1, <2>7 DEF IsDecoded
<1> QED BY <1>1, Invariance, PTL

-----------------------------------------------------------------------------
(* What a Gryphon Pro tracker sends.                                        *)

\* Bytes are numbers.
LEMMA OctetsAreNumbers == \A s \in Seq(Octet) : s \in Seq(Nat)
<1> TAKE s \in Seq(Octet)
<1>1. ASSUME NEW i \in 1 .. Len(s) PROVE s[i] \in Nat
  <2>1. s[i] \in Octet
    OBVIOUS
  <2>2. \A b \in Octet : b \in Nat
    BY DEF Octet
  <2> QED BY <2>1, <2>2, Zenon
<1> QED BY <1>1

\* An item of a packet is its head, a length and as many bytes.
LEMMA ItemCodeType ==
  ASSUME NEW o \in BOOLEAN, NEW x \in FrameItem(o)
  PROVE  /\ ItemCode(x) \in Seq(Nat) /\ x.head \in Seq(Nat) /\ x.val \in Seq(Nat)
         /\ Len(x.head) = HeadPart(o) /\ Len(x.val) \in Nat
         /\ Append(x.head, Len(x.val)) \in Seq(Nat)
         /\ ItemCode(x) = Append(x.head, Len(x.val)) \o x.val
<1>1. /\ x.head \in Seq(Nat) /\ x.val \in Seq(Nat) /\ Len(x.head) = HeadPart(o)
      /\ Len(x.val) \in Nat /\ Len(x.val) < 256
  <2>1. /\ x.head \in Seq(Octet) /\ x.val \in Seq(Octet) /\ Len(x.head) = HeadPart(o)
        /\ Len(x.val) < 256
    BY DEF FrameItem
  <2> QED BY <2>1, OctetsAreNumbers
<1>2. Append(x.head, Len(x.val)) \in Seq(Nat)
  BY <1>1
<1> QED BY <1>1, <1>2 DEF ItemCode

\* The items of a record are sent one by one.
LEMMA ItemCodesType ==
  ASSUME NEW o \in BOOLEAN, NEW list \in Seq(FrameItem(o))
  PROVE  /\ ItemCodes(list) \in Seq(Seq(Nat)) /\ Len(ItemCodes(list)) = Len(list)
         /\ \A j \in 1 .. Len(list) : ItemCodes(list)[j] = ItemCode(list[j])
<1>1. ASSUME NEW j \in 1 .. Len(list) PROVE ItemCode(list[j]) \in Seq(Nat)
  <2>1. list[j] \in FrameItem(o)
    OBVIOUS
  <2> QED BY <2>1, ItemCodeType
<1> QED BY <1>1 DEF ItemCodes

\* A record of a packet is its fixed part, a count and as many items.
LEMMA RecCodeType ==
  ASSUME NEW o \in BOOLEAN, NEW r \in FrameRecord(o)
  PROVE  /\ r.fixed \in Seq(Nat) /\ Len(r.fixed) = FixedPart(o)
         /\ r.items \in Seq(FrameItem(o)) /\ Len(r.items) \in Nat
         /\ Append(r.fixed, Len(r.items)) \in Seq(Nat)
         /\ From(ItemCodes(r.items), 1) \in Seq(Nat)
         /\ RecCode(r) \in Seq(Nat)
         /\ RecCode(r) = Append(r.fixed, Len(r.items)) \o From(ItemCodes(r.items), 1)
<1> DEFINE c == ItemCodes(r.items)
<1>1. /\ r.fixed \in Seq(Nat) /\ Len(r.fixed) = FixedPart(o)
      /\ r.items \in Seq(FrameItem(o)) /\ Len(r.items) \in Nat /\ Len(r.items) < 256
  <2>1. /\ r.fixed \in Seq(Octet) /\ Len(r.fixed) = FixedPart(o)
        /\ r.items \in Seq(FrameItem(o)) /\ Len(r.items) < 256
    BY DEF FrameRecord
  <2> QED BY <2>1, OctetsAreNumbers
<1>2. c \in Seq(Seq(Nat))
  BY <1>1, ItemCodesType
<1>3. From(c, 1) = FlattenSeq(c) /\ FlattenSeq(c) \in Seq(Nat)
  <2> HIDE DEF c
  <2>1. SubSeq(c, 1, Len(c)) = c
    BY <1>2, SubSeqFull
  <2> QED BY <1>2, <2>1, FlattenType DEF From
<1>4. Append(r.fixed, Len(r.items)) \in Seq(Nat)
  BY <1>1
<1>5. RecCode(r) = Append(r.fixed, Len(r.items)) \o FlattenSeq(c)
  BY DEF RecCode
<1> HIDE DEF c
<1>6. Append(r.fixed, Len(r.items)) \o FlattenSeq(c) \in Seq(Nat)
  BY <1>3, <1>4, ConcatProperties
<1> QED BY <1>1, <1>3, <1>4, <1>5, <1>6 DEF c

\* The records of a packet are sent one by one.
LEMMA RecCodesType ==
  ASSUME NEW o \in BOOLEAN, NEW recs \in Seq(FrameRecord(o))
  PROVE  /\ RecCodes(recs) \in Seq(Seq(Nat)) /\ Len(RecCodes(recs)) = Len(recs)
         /\ \A i \in 1 .. Len(recs) : RecCodes(recs)[i] = RecCode(recs[i])
<1>1. ASSUME NEW i \in 1 .. Len(recs) PROVE RecCode(recs[i]) \in Seq(Nat)
  <2>1. recs[i] \in FrameRecord(o)
    OBVIOUS
  <2> QED BY <2>1, RecCodeType
<1> QED BY <1>1 DEF RecCodes

Opening(f) == Start(f.odp) \o (IF f.odp THEN <<>> ELSE <<Len(f.recs)>>)

\* A packet begins with its kind; its records follow after four or five bytes.
LEMMA OpeningType ==
  ASSUME NEW f, f.odp \in BOOLEAN, Len(f.recs) \in Nat
  PROVE  /\ Opening(f) \in Seq(Nat) /\ Len(Opening(f)) = IF f.odp THEN 4 ELSE 5
         /\ \A i \in 1 .. 4 : Opening(f)[i] = Start(f.odp)[i]
         /\ ~f.odp => Opening(f)[5] = Len(f.recs)
<1>1. CASE f.odp
  <2> DEFINE t == <<170, 0, 20, 204>>
  <2>1. Opening(f) = t \o <<>> /\ Start(f.odp) = t
    BY <1>1 DEF Opening, Start
  <2>2. t \o <<>> = t
    OBVIOUS
  <2>3. t \in Seq(Nat) /\ Len(t) = 4
    OBVIOUS
  <2> HIDE DEF t
  <2> QED BY <1>1, <2>1, <2>2, <2>3
<1>2. CASE ~f.odp
  <2> DEFINE n == Len(f.recs)
             t == <<170, 0, 20, 187>>
             u == <<170, 0, 20, 187, n>>
  <2>1. Opening(f) = t \o <<n>> /\ Start(f.odp) = t
    BY <1>2 DEF Opening, Start
  <2>2. t \o <<n>> = u
    <3>1. t \in Seq(Nat) /\ Len(t) = 4 /\ n \in Nat
      OBVIOUS
    <3> HIDE DEF n
    <3>2. t \o <<n>> \in Seq(Nat) /\ Len(t \o <<n>>) = 5
      BY <3>1
    <3>3. u \in Seq(Nat) /\ Len(u) = 5
      BY <3>1
    <3> DEFINE v == t \o <<n>>
    <3>4. v[1] = 170 /\ v[2] = 0 /\ v[3] = 20 /\ v[4] = 187 /\ v[5] = n
      BY <3>1
    <3>5. u[1] = 170 /\ u[2] = 0 /\ u[3] = 20 /\ u[4] = 187 /\ u[5] = n
      OBVIOUS
    <3>6. v \in Seq(Nat) /\ Len(v) = 5
      BY <3>2
    <3> HIDE DEF v, u
    <3>7. \A i \in 1 .. Len(v) : v[i] = u[i]
      BY <3>4, <3>5, <3>6
    <3> QED BY <3>3, <3>6, <3>7, SeqEqual DEF v
  <2>3. u \in Seq(Nat) /\ Len(u) = 5 /\ (\A i \in 1 .. 4 : u[i] = t[i]) /\ u[5] = n
    OBVIOUS
  <2> HIDE DEF t, u
  <2> QED BY <1>2, <2>1, <2>2, <2>3
<1> QED BY <1>1, <1>2

\* A packet is its opening, its records and four bytes.
LEMMA FrameCodeType ==
  ASSUME NEW f \in Frames
  PROVE  /\ f.odp \in BOOLEAN /\ f.recs \in Seq(FrameRecord(f.odp)) /\ Len(f.recs) \in Nat
         /\ f.odp => Len(f.recs) = 1
         /\ f.sum \in Seq(Nat) /\ Len(f.sum) = 4
         /\ From(RecCodes(f.recs), 1) \in Seq(Nat)
         /\ From(RecCodes(f.recs), 1) \o f.sum \in Seq(Nat)
         /\ FrameCode(f) \in Seq(Nat) /\ Len(FrameCode(f)) >= 8
         /\ FrameCode(f) = Opening(f) \o (From(RecCodes(f.recs), 1) \o f.sum)
<1> DEFINE c == RecCodes(f.recs)
           a == Opening(f)
           b == FlattenSeq(c)
           e == f.sum
<1>1. /\ f.odp \in BOOLEAN /\ f.recs \in Seq(FrameRecord(f.odp)) /\ Len(f.recs) \in Nat
      /\ f.odp => Len(f.recs) = 1
      /\ f.sum \in Seq(Nat) /\ Len(f.sum) = 4
  <2>1. /\ f.odp \in BOOLEAN /\ f.recs \in Seq(FrameRecord(f.odp)) /\ Len(f.recs) < 256
        /\ f.odp => Len(f.recs) = 1
        /\ f.sum \in Seq(Nat) /\ Len(f.sum) = 4
    BY FrameAssumption, OctetsAreNumbers, Zenon DEF FrameAssumption
  <2>2. Len(f.recs) \in Nat
    BY <2>1
  <2> QED BY <2>1, <2>2
<1>2. c \in Seq(Seq(Nat))
  BY <1>1, RecCodesType
<1>3. From(c, 1) = b /\ b \in Seq(Nat)
  <2> HIDE DEF c
  <2>1. SubSeq(c, 1, Len(c)) = c
    BY <1>2, SubSeqFull
  <2> QED BY <1>2, <2>1, FlattenType DEF From
<1>4. FrameCode(f) = (a \o b) \o e
  BY DEF FrameCode, Opening
<1>5. a \in Seq(Nat) /\ Len(a) >= 4 /\ e \in Seq(Nat) /\ Len(e) = 4
  BY <1>1, OpeningType
<1> HIDE DEF a, b, c, e
<1>6. (a \o b) \o e = a \o (b \o e)
  BY <1>3, <1>5, ConcatAssociative, SMTT(30)
<1>7. b \o e \in Seq(Nat) /\ Len(b \o e) = Len(b) + 4 /\ Len(b) \in Nat
  <2>1. b \o e \in Seq(Nat) /\ Len(b \o e) = Len(b) + Len(e)
    <3>1. b \in Seq(Nat) /\ e \in Seq(Nat)
      BY <1>3, <1>5
    <3>2. b \o e \in Seq(Nat)
      BY <3>1
    <3>3. Len(b \o e) = Len(b) + Len(e)
      BY <3>1
    <3> QED BY <3>2, <3>3
  <2> QED BY <1>3, <1>5, <2>1
<1>8. FrameCode(f) \in Seq(Nat) /\ Len(FrameCode(f)) >= 8
  <2> DEFINE d == b \o e
  <2>1. FrameCode(f) = a \o d /\ d \in Seq(Nat) /\ Len(d) >= 4 /\ Len(d) \in Nat /\ Len(a) \in Nat
    BY <1>4, <1>5, <1>6, <1>7
  <2> HIDE DEF d
  <2>2. a \o d \in Seq(Nat) /\ Len(a \o d) = Len(a) + Len(d)
    BY <1>5, <2>1, ConcatProperties
  <2> QED BY <1>5, <2>1, <2>2
<1> QED BY <1>1, <1>3, <1>4, <1>6, <1>7, <1>8 DEF a, b, c, e

-----------------------------------------------------------------------------
(* Where the walk through a packet is and what it has read.                 *)

\* What follows record i - 1 of the packet, and item j - 1 of record i.
RecsFrom(i) == From(RecCodes(frame.recs), i) \o frame.sum
ItemsFrom(i, j) == From(ItemCodes(frame.recs[i].items), j) \o RecsFrom(i + 1)

Current == Len(got)

\* The packet's bytes from the place of the walk on are those of what is not yet read.
FramePosition ==
    /\ at \in 1 .. Len(FrameCode(frame)) + 1
    /\ Ending(FrameCode(frame), at)
         = IF got = <<>> THEN RecsFrom(1) ELSE ItemsFrom(Current, Len(got[Current].items) + 1)

\* The loops' counters say how much that is.
FrameCounted ==
    /\ records + Current = Len(frame.recs)
    /\ got = <<>> => items = 0
    /\ got # <<>> => items + Len(got[Current].items) = Len(frame.recs[Current].items)

\* An item read as it was sent, or one whose value goes on behind the bytes that
\* arrived: of these there is none but the last one read.
ItemAsSent(k, j) ==
    LET sent == frame.recs[k].items[j] IN
    /\ SameItem(got[k].items[j], sent)
    /\ \/ got[k].items[j] = sent
       \/ k = Current /\ j = Len(got[k].items) /\ at - 1 > reqlen /\ Len(sent.val) > 4

GotAsSent ==
    \A k \in 1 .. Current :
        /\ got[k].fixed = frame.recs[k].fixed
        /\ k < Current => Len(got[k].items) = Len(frame.recs[k].items)
        /\ \A j \in 1 .. Len(got[k].items) : ItemAsSent(k, j)

InFrame == IsOdp = frame.odp /\ FramePosition /\ FrameCounted /\ GotAsSent

\* Of the bytes that arrived, those of the packet.
Arrived ==
    \A i \in 1 .. reqlen : i <= Len(FrameCode(frame)) => input[i] = FrameCode(frame)[i]

FrameTypeInv == FrameTypeOK /\ (items > 0 => got # <<>>)

FrameInv ==
    /\ FrameTypeInv /\ SavedAsSent
    /\ step = "parse" => at = 1 /\ records = 0 /\ items = 0 /\ got = <<>>
    /\ frame # NoFrame => Arrived
    /\ frame # NoFrame /\ step = "walk" => InFrame

GotItem == [head : Seq(Octet), val : Seq(Octet)]
GotRecord == [fixed : Seq(Octet), items : Seq(GotItem)]

\* What is read of the buffer.
LEMMA PartOfInput ==
  ASSUME FrameTypeOK, NEW a \in 1 .. MaxReadBytes + 1, NEW n \in Nat, a + n - 1 <= MaxReadBytes
  PROVE  /\ SubSeq(input, a, a + n - 1) \in Seq(Octet)
         /\ Len(SubSeq(input, a, a + n - 1)) = n
         /\ \A i \in 1 .. n : /\ SubSeq(input, a, a + n - 1)[i] = input[a + i - 1]
                              /\ a + i - 1 \in 1 .. MaxReadBytes
<1>1. input \in [1 .. MaxReadBytes -> Octet] /\ MaxReadBytes \in Nat
  BY FrameAssumption DEF FrameTypeOK, FrameAssumption
<1>2. \A i \in 1 .. n : a + i - 1 \in 1 .. MaxReadBytes
  BY <1>1
<1>3. \A i \in 1 .. n : input[a + i - 1] \in Octet
  BY <1>1, <1>2
<1> QED BY <1>1, <1>2, <1>3

\* Every step keeps the types of the buffer, the walk and what it reads.
LEMMA FrameTypeNext ==
  ASSUME FrameTypeInv, [FrameNext]_frameVars PROVE FrameTypeInv'
<1>0. /\ input \in [1 .. MaxReadBytes -> Octet] /\ reqlen \in 0 .. MaxReadBytes
      /\ MaxReadBytes \in Nat /\ MaxReads \in Nat
      /\ frame \in Frames \cup {NoFrame} /\ at \in 1 .. MaxReadBytes + 1
      /\ records \in 0 .. 255 /\ items \in 0 .. 255
      /\ got \in Seq(GotRecord) /\ reads \in 0 .. MaxReads
      /\ step \in {"reading", "parse", "walk", "save", "panic", "reply", "closed"}
      /\ items > 0 => got # <<>>
  BY FrameAssumption DEF FrameTypeInv, FrameTypeOK, FrameAssumption, GotRecord, GotItem
<1>a. \A i \in 1 .. MaxReadBytes : input[i] \in 0 .. 255
  BY <1>0 DEF Octet
<1>1. ASSUME NEW a \in Arrivals, Arrive(a) PROVE FrameTypeInv'
  <2>1. /\ a.frame \in Frames \cup {NoFrame}
        /\ a.bytes \in Seq(Octet) /\ Len(a.bytes) \in 1 .. MaxReadBytes
    BY ArrivalAssumption, Zenon DEF ArrivalAssumption
  <2>2. input' \in [1 .. MaxReadBytes -> Octet]
    <3>1. ASSUME NEW i \in 1 .. MaxReadBytes
          PROVE  (IF i <= Len(a.bytes) THEN a.bytes[i] ELSE input[i]) \in Octet
      BY <1>0, <2>1
    <3> QED BY <1>1, <3>1 DEF Arrive
  <2>3. reqlen' \in 0 .. MaxReadBytes /\ reads' \in 0 .. MaxReads
    BY <1>0, <1>1, <2>1 DEF Arrive
  <2>4. /\ at' = 1 /\ records' = 0 /\ items' = 0 /\ got' = <<>> /\ frame' = a.frame
        /\ step' = "parse"
    BY <1>1 DEF Arrive
  <2>5. at' \in 1 .. MaxReadBytes + 1 /\ got' \in Seq(GotRecord)
    BY <1>0, <2>4
  <2> QED BY <2>1, <2>2, <2>3, <2>4, <2>5 DEF FrameTypeInv, FrameTypeOK, GotRecord, GotItem
<1>2. CASE Open
  <2>1. records' \in 0 .. 255 /\ at' \in 1 .. MaxReadBytes + 1
    <3>1. CASE Panic
      BY <1>0, <3>1 DEF Panic
    <3>2. CASE reqlen >= 9 /\ records' = input[5] /\ at' = 6
      BY <1>0, <1>a, <3>2
    <3>3. CASE reqlen >= 4 /\ records' = 1 /\ at' = 5
      BY <1>0, <3>3
    <3>4. CASE UNCHANGED <<records, at>>
      BY <1>0, <3>4
    <3> QED BY <1>2, <3>1, <3>2, <3>3, <3>4 DEF Open
  <2>2. /\ UNCHANGED <<input, reqlen, frame, items, got, reads>>
        /\ step' \in {"panic", "walk", "reply"}
    BY <1>2 DEF Open, Panic
  <2> QED BY <1>0, <2>1, <2>2 DEF FrameTypeInv, FrameTypeOK, GotRecord, GotItem
<1>3. CASE ReadRecord
  <2>1. CASE Panic
    BY <1>0, <2>1 DEF Panic, FrameTypeInv, FrameTypeOK, GotRecord, GotItem
  <2>2. CASE ~Panic
    <3> DEFINE m == FixedPart(IsOdp)
               r == [fixed |-> SubSeq(input, at, at + m - 1), items |-> <<>>]
    <3>1. m \in Nat
      BY DEF FixedPart
    <3>2. /\ records > 0 /\ Indexed(m + 1) /\ got' = Append(got, r)
          /\ items' = input[at + (m + 1) - 1] /\ at' = at + (m + 1) /\ records' = records - 1
          /\ UNCHANGED <<input, reqlen, frame, step, reads>>
      <4>1. at + (m + 1) - 2 = at + m - 1
        BY <1>0, <3>1
      <4> QED BY <1>3, <2>2, <4>1 DEF ReadRecord, MoreRecords
    <3> HIDE DEF m
    <3>3. at + m <= reqlen - 4 /\ at + (m + 1) - 1 = at + m /\ at + m - 1 <= MaxReadBytes
      BY <1>0, <3>1, <3>2 DEF Indexed
    <3>4. SubSeq(input, at, at + m - 1) \in Seq(Octet)
      BY <1>0, <3>1, <3>3, PartOfInput DEF FrameTypeInv
    <3>5. r \in GotRecord /\ Append(got, r) \in Seq(GotRecord) /\ Append(got, r) # <<>>
      <4>1. r \in GotRecord
        BY <3>4 DEF GotRecord
      <4> HIDE DEF r
      <4> QED BY <1>0, <4>1
    <3>6. items' \in 0 .. 255 /\ at' \in 1 .. MaxReadBytes + 1 /\ records' \in 0 .. 255
      <4>1. at + m \in 1 .. MaxReadBytes
        BY <1>0, <3>1, <3>3
      <4> QED BY <1>0, <1>a, <3>1, <3>2, <3>3, <4>1
    <3> HIDE DEF r
    <3> QED BY <1>0, <3>2, <3>5, <3>6 DEF FrameTypeInv, FrameTypeOK, GotRecord, GotItem
  <2> QED BY <2>1, <2>2
<1>4. CASE ReadItem
  <2>1. CASE Panic
    BY <1>0, <2>1 DEF Panic, FrameTypeInv, FrameTypeOK, GotRecord, GotItem
  <2>2. CASE ~Panic
    <3> DEFINE m == HeadPart(IsOdp)
               w == input[at + m]
               x == [head |-> SubSeq(input, at, at + m - 1),
                     val |-> SubSeq(input, (at + m + 1), (at + m + 1) + w - 1)]
    <3>1. m \in Nat
      BY DEF HeadPart
    <3> HIDE DEF m, w
    <3>2. /\ items > 0 /\ Indexed(m + 1) /\ Sliced((m + 1) + w)
          /\ got' = [got EXCEPT ![Len(got)].items = Append(@, x)]
          /\ items' = items - 1 /\ at' = at + ((m + 1) + w)
          /\ UNCHANGED <<input, reqlen, frame, records, step, reads>>
      <4>1. at + (m + 1) - 1 = at + m /\ at + (m + 1) - 2 = at + m - 1 /\ at + (m + 1) = at + m + 1
        BY <1>0, <3>1
      <4>2. Indexed(m + 1)
        BY <1>4, <2>2 DEF ReadItem, m
      <4>3. at + m \in 1 .. MaxReadBytes
        BY <1>0, <3>1, <4>2 DEF Indexed
      <4>4. w \in Nat
        <5>1. w \in 0 .. 255
          BY <1>a, <4>3 DEF w
        <5> QED BY <5>1
      <4>5. at + ((m + 1) + w) - 1 = (at + m + 1) + w - 1
        BY <1>0, <3>1, <4>4
      <4>6. /\ items > 0 /\ Sliced((m + 1) + input[at + (m + 1) - 1])
            /\ got' = [got EXCEPT ![Len(got)].items =
                         Append(@, [head |-> SubSeq(input, at, at + (m + 1) - 2),
                                    val |-> SubSeq(input, at + (m + 1),
                                              at + ((m + 1) + input[at + (m + 1) - 1]) - 1)])]
            /\ items' = items - 1 /\ at' = at + ((m + 1) + input[at + (m + 1) - 1])
            /\ UNCHANGED <<input, reqlen, frame, records, step, reads>>
        BY <1>4, <2>2 DEF ReadItem, m
      <4>7. input[at + (m + 1) - 1] = w
        BY <4>1 DEF w
      <4> QED BY <4>1, <4>2, <4>5, <4>6, <4>7
    <3>3. at + m \in 1 .. MaxReadBytes /\ at + m - 1 <= MaxReadBytes
      <4>1. at + (m + 1) - 1 <= reqlen - 4
        BY <3>2 DEF Indexed
      <4>2. at \in Nat /\ at > 0 /\ reqlen \in Nat /\ reqlen <= MaxReadBytes /\ MaxReadBytes \in Nat
        BY <1>0
      <4> QED BY <3>1, <4>1, <4>2
    <3>4. w \in 0 .. 255
      BY <1>a, <3>3 DEF w
    <3>5. /\ at + m + 1 \in 1 .. MaxReadBytes + 1 /\ (at + m + 1) + w - 1 <= MaxReadBytes
          /\ at + ((m + 1) + w) \in 1 .. MaxReadBytes + 1
      <4>1. at + ((m + 1) + w) - 1 <= MaxReadBytes
        BY <3>2 DEF Sliced
      <4> QED BY <1>0, <3>1, <3>3, <3>4, <4>1
    <3>6. x \in GotItem
      <4>1. SubSeq(input, at, at + m - 1) \in Seq(Octet)
        BY <1>0, <3>1, <3>3, PartOfInput DEF FrameTypeInv
      <4>2. SubSeq(input, at + m + 1, (at + m + 1) + w - 1) \in Seq(Octet)
        BY <3>4, <3>5, PartOfInput DEF FrameTypeInv
      <4> QED BY <4>1, <4>2 DEF GotItem
    <3> HIDE DEF x
    <3>7. got' \in Seq(GotRecord) /\ got' # <<>>
      <4> DEFINE k == Len(got)
                 r == [got[k] EXCEPT !.items = Append(@, x)]
      <4>1. k \in 1 .. Len(got) /\ got[k] \in GotRecord
        BY <1>0, <3>2
      <4>2. r \in GotRecord
        <5>1. got[k].items \in Seq(GotItem) /\ got[k].fixed \in Seq(Octet)
          BY <4>1 DEF GotRecord
        <5>2. Append(got[k].items, x) \in Seq(GotItem)
          BY <3>6, <5>1
        <5>3. r = [fixed |-> got[k].fixed, items |-> Append(got[k].items, x)]
          <6> DEFINE g == got[k]
                     A == Seq(Octet)
                     B == Seq(GotItem)
          <6>1. g \in [fixed : A, items : B]
            BY <4>1 DEF GotRecord
          <6> HIDE DEF g, A, B
          <6>2. [g EXCEPT !.items = Append(g.items, x)]
                  = [fixed |-> g.fixed, items |-> Append(g.items, x)]
            BY <6>1
          <6> QED BY <6>2 DEF g
        <5> QED BY <5>1, <5>2, <5>3 DEF GotRecord
      <4>3. got' = [got EXCEPT ![k] = r]
        BY <3>2
      <4> HIDE DEF r
      <4> QED BY <1>0, <4>1, <4>2, <4>3
    <3>8. items' \in 0 .. 255
      BY <1>0, <3>2
    <3> QED BY <1>0, <3>2, <3>5, <3>7, <3>8 DEF FrameTypeInv, FrameTypeOK, GotRecord, GotItem
  <2> QED BY <2>1, <2>2
<1>5. ASSUME UNCHANGED <<input, reqlen, frame, at, records, items, got, reads>>,
             step' \in {step, "save", "reading", "closed"}
      PROVE  FrameTypeInv'
  BY <1>0, <1>5 DEF FrameTypeInv, FrameTypeOK, GotRecord, GotItem
<1>6. CASE EndOfFrame \/ Answer \/ Close
  BY <1>5, <1>6 DEF EndOfFrame, Answer, Close
<1>7. CASE Closed \/ UNCHANGED frameVars
  BY <1>5, <1>7 DEF Closed, frameVars
<1> QED BY <1>1, <1>2, <1>3, <1>4, <1>6, <1>7 DEF FrameNext

\* The buffer begins with the bytes of the packet that arrived.
LEMMA ArriveStep ==
  ASSUME NEW a \in Arrivals, Arrive(a), frame' # NoFrame PROVE Arrived'
<1>1. /\ a.frame # NoFrame /\ a.bytes \in Seq(Octet) /\ Len(a.bytes) \in 1 .. MaxReadBytes
      /\ \A i \in 1 .. Len(a.bytes) :
            i <= Len(FrameCode(a.frame)) => a.bytes[i] = FrameCode(a.frame)[i]
  BY ArrivalAssumption DEF ArrivalAssumption, Arrive
<1>2. /\ reqlen' = Len(a.bytes) /\ frame' = a.frame
      /\ \A i \in 1 .. MaxReadBytes :
            input'[i] = IF i <= Len(a.bytes) THEN a.bytes[i] ELSE input[i]
  BY DEF Arrive
<1>3. \A i \in 1 .. Len(a.bytes) : i \in 1 .. MaxReadBytes /\ i <= Len(a.bytes)
  BY <1>1, FrameAssumption DEF FrameAssumption
<1> QED BY <1>1, <1>2, <1>3 DEF Arrived

\* The first four bytes tell the kind of the packet, the fifth the number of its
\* records if it has one.
LEMMA OpenStep ==
  ASSUME FrameInv, frame # NoFrame, Open, step' = "walk" PROVE InFrame'
<1> DEFINE c == FrameCode(frame)
           o == Opening(frame)
           t == RecsFrom(1)
           n == Len(frame.recs)
<1>0. /\ step = "parse" /\ got = <<>> /\ at = 1 /\ items = 0 /\ Arrived
      /\ frame \in Frames /\ input \in [1 .. MaxReadBytes -> Octet]
      /\ reqlen \in 0 .. MaxReadBytes /\ MaxReadBytes \in Nat
  BY FrameAssumption
     DEF FrameInv, FrameTypeInv, FrameTypeOK, Open, FrameAssumption
<1>1. /\ frame.odp \in BOOLEAN /\ n \in Nat /\ frame.odp => n = 1
      /\ c \in Seq(Nat) /\ Len(c) >= 8 /\ o \in Seq(Nat) /\ t \in Seq(Nat)
      /\ Len(o) = (IF frame.odp THEN 4 ELSE 5)
      /\ \A i \in 1 .. 4 : o[i] = Start(frame.odp)[i]
      /\ ~frame.odp => o[5] = n
      /\ c = o \o t
  <2>1. /\ frame.odp \in BOOLEAN /\ n \in Nat /\ (frame.odp => n = 1)
        /\ c \in Seq(Nat) /\ Len(c) >= 8 /\ t \in Seq(Nat) /\ c = o \o t
    BY <1>0, FrameCodeType, Zenon DEF RecsFrom
  <2>2. /\ o \in Seq(Nat) /\ Len(o) = (IF frame.odp THEN 4 ELSE 5)
        /\ \A i \in 1 .. 4 : o[i] = Start(frame.odp)[i]
        /\ ~frame.odp => o[5] = n
    BY <2>1, OpeningType
  <2> QED BY <2>1, <2>2, Zenon
<1>2. Ending(c, 1) = c
  BY <1>1, SubSeqFull DEF Ending
<1>3. /\ 1 + Len(o) \in 1 .. Len(c) + 1 /\ Ending(c, 1 + Len(o)) = t
      /\ \A i \in 1 .. Len(o) : c[i] = o[i]
  <2> DEFINE p == 1
  <2> HIDE DEF c, o, t
  <2>1. p \in 1 .. Len(c) + 1 /\ EndsWith(c, p, o, t)
    BY <1>1, <1>2 DEF EndsWith
  <2> HIDE DEF p
  <2>2. /\ p + Len(o) \in 1 .. Len(c) + 1 /\ Ending(c, p + Len(o)) = t
        /\ \A i \in 1 .. Len(o) : c[p + i - 1] = o[i]
    <3>1. c \in Seq(Nat) /\ o \in Seq(Nat) /\ t \in Seq(Nat)
      BY <1>1
    <3> QED BY <2>1, <3>1, EndingReads
  <2>3. \A i \in 1 .. Len(o) : p + i - 1 = i
    BY <1>1 DEF p
  <2> QED BY <2>2, <2>3 DEF p
<1>4. /\ reqlen >= 4 /\ MaxReadBytes >= 32 /\ UNCHANGED <<input, reqlen, frame, items, got, reads>>
      /\ \/ /\ SubSeq(input, 1, 4) = Start(FALSE) /\ reqlen >= 9
            /\ records' = input[5] /\ at' = 6
         \/ /\ SubSeq(input, 1, 4) = Start(TRUE) /\ records' = 1 /\ at' = 5
  BY DEF Open, Panic
<1>5. \A i \in 1 .. reqlen : i <= Len(c) => input[i] = c[i]
  BY <1>0 DEF Arrived
<1> HIDE DEF c, o, t
<1>6. /\ \A i \in 1 .. 4 : input[i] = Start(frame.odp)[i]
      /\ ~frame.odp /\ reqlen >= 9 => input[5] = n
  <2>1. ASSUME NEW i \in 1 .. 4 PROVE input[i] = Start(frame.odp)[i]
    <3>1. i \in 1 .. reqlen /\ i <= Len(c) /\ i \in 1 .. Len(o)
      BY <1>0, <1>1, <1>4
    <3> QED BY <1>1, <1>3, <1>5, <3>1
  <2>2. ~frame.odp /\ reqlen >= 9 => input[5] = n
    <3> HAVE ~frame.odp /\ reqlen >= 9
    <3>1. 5 \in 1 .. reqlen /\ 5 <= Len(c) /\ 5 \in 1 .. Len(o)
      BY <1>0, <1>1, <1>4
    <3> QED BY <1>1, <1>3, <1>5, <3>1
  <2> QED BY <2>1, <2>2
<1>7. Start(frame.odp)[4] = IF frame.odp THEN 204 ELSE 187
  BY DEF Start
<1>8. input[4] = IF frame.odp THEN 204 ELSE 187
  BY <1>6, <1>7
<1>9. /\ SubSeq(input, 1, 4) = Start(FALSE) => input[4] = 187
      /\ SubSeq(input, 1, 4) = Start(TRUE) => input[4] = 204
  <2>1. 1 + 4 - 1 = 4 /\ 1 \in 1 .. MaxReadBytes + 1 /\ FrameTypeOK
    BY <1>0 DEF FrameInv, FrameTypeInv
  <2>2. SubSeq(input, 1, 4)[4] = input[4]
    <3>1. \A i \in 1 .. 4 : SubSeq(input, 1, 1 + 4 - 1)[i] = input[1 + i - 1]
      BY <1>4, <2>1, PartOfInput
    <3>2. 4 \in 1 .. 4 /\ 1 + 4 - 1 = 4
      OBVIOUS
    <3> QED BY <3>1, <3>2
  <2>3. Start(FALSE)[4] = 187 /\ Start(TRUE)[4] = 204
    BY DEF Start
  <2> DEFINE u == SubSeq(input, 1, 4)
             v == Start(FALSE)
             w == Start(TRUE)
  <2>4. u[4] = input[4] /\ v[4] = 187 /\ w[4] = 204
    BY <2>2, <2>3
  <2> HIDE DEF u, v, w
  <2>5. (u = v => input[4] = 187) /\ (u = w => input[4] = 204)
    BY <2>4
  <2> QED BY <2>5 DEF u, v, w
<1>10. /\ at' = 1 + Len(o) /\ records' = n
       /\ IsOdp = frame.odp
  <2> DEFINE u == SubSeq(input, 1, 4)
             v == Start(FALSE)
             w == Start(TRUE)
  <2>0. /\ (u = v => input[4] = 187) /\ (u = w => input[4] = 204)
        /\ \/ u = v /\ reqlen >= 9 /\ records' = input[5] /\ at' = 6
           \/ u = w /\ records' = 1 /\ at' = 5
    BY <1>4, <1>9
  <2> HIDE DEF u, v, w
  <2>1. CASE frame.odp
    <3>1. Len(o) = 4 /\ input[4] = 204 /\ n = 1
      BY <1>1, <1>8, <2>1
    <3>2. records' = 1 /\ at' = 5
      BY <2>0, <3>1
    <3>3. IsOdp = frame.odp
      BY <1>1, <2>1, <3>1, Zenon DEF IsOdp
    <3> QED BY <3>1, <3>2, <3>3
  <2>2. CASE ~frame.odp
    <3>1. Len(o) = 5 /\ input[4] = 187
      BY <1>1, <1>8, <2>2
    <3>2. reqlen >= 9 /\ records' = input[5] /\ at' = 6
      BY <2>0, <3>1
    <3>3. records' = n
      BY <1>6, <2>2, <3>2
    <3>4. IsOdp = FALSE
      BY <3>1 DEF IsOdp
    <3>5. frame.odp = FALSE
      BY <1>1, <2>2
    <3>6. IsOdp = frame.odp
      BY <3>4, <3>5, Zenon
    <3> QED BY <3>1, <3>2, <3>3, <3>6
  <2> QED BY <2>1, <2>2
<1>11. got' = <<>> /\ items' = 0 /\ frame' = frame /\ IsOdp' = IsOdp /\ input' = input
  BY <1>0, <1>4 DEF IsOdp
<1>12. FramePosition'
  BY <1>3, <1>10, <1>11 DEF FramePosition, RecsFrom, c, t
<1>13. FrameCounted' /\ GotAsSent'
  <2>1. Len(got') = 0 /\ n \in Nat
    BY <1>1, <1>11
  <2> QED BY <1>10, <1>11, <2>1 DEF FrameCounted, GotAsSent, Current
<1> QED BY <1>10, <1>11, <1>12, <1>13 DEF InFrame

\* What follows a record or an item is of numbers too.
LEMMA AheadType ==
  ASSUME frame \in Frames
  PROVE  /\ \A i \in 1 .. Len(frame.recs) + 1 : RecsFrom(i) \in Seq(Nat)
         /\ \A i \in 1 .. Len(frame.recs) :
              /\ frame.recs[i] \in FrameRecord(frame.odp)
              /\ ItemCodes(frame.recs[i].items) \in Seq(Seq(Nat))
              /\ Len(ItemCodes(frame.recs[i].items)) = Len(frame.recs[i].items)
              /\ Len(frame.recs[i].items) \in Nat
              /\ \A j \in 1 .. Len(frame.recs[i].items) + 1 : ItemsFrom(i, j) \in Seq(Nat)
<1> DEFINE recs == frame.recs
           c == RecCodes(recs)
           e == frame.sum
<1>1. /\ frame.odp \in BOOLEAN /\ recs \in Seq(FrameRecord(frame.odp)) /\ e \in Seq(Nat)
      /\ Len(recs) \in Nat
  BY FrameCodeType
<1>2. c \in Seq(Seq(Nat)) /\ Len(c) = Len(recs)
  BY <1>1, RecCodesType
<1>3. ASSUME NEW i \in 1 .. Len(recs) + 1 PROVE RecsFrom(i) \in Seq(Nat)
  <2>1. i \in Nat /\ i # 0
    BY <1>1
  <2> HIDE DEF c, e
  <2>2. From(c, i) \in Seq(Nat)
    BY <1>2, <2>1, PartType
  <2>3. From(c, i) \o e \in Seq(Nat)
    BY <1>1, <2>2, ConcatProperties
  <2> QED BY <2>3 DEF RecsFrom, c, e
<1>4. ASSUME NEW i \in 1 .. Len(recs)
      PROVE  /\ recs[i] \in FrameRecord(frame.odp)
             /\ ItemCodes(recs[i].items) \in Seq(Seq(Nat))
             /\ Len(ItemCodes(recs[i].items)) = Len(recs[i].items)
             /\ Len(recs[i].items) \in Nat
             /\ \A j \in 1 .. Len(recs[i].items) + 1 : ItemsFrom(i, j) \in Seq(Nat)
  <2> DEFINE d == ItemCodes(recs[i].items)
             n == Len(recs[i].items)
             b == RecsFrom(i + 1)
  <2>1. recs[i] \in FrameRecord(frame.odp)
    BY <1>1
  <2>2. recs[i].items \in Seq(FrameItem(frame.odp)) /\ n \in Nat
    BY <1>1, <2>1, RecCodeType
  <2>3. d \in Seq(Seq(Nat)) /\ Len(d) = n
    BY <1>1, <2>2, ItemCodesType
  <2>4. b \in Seq(Nat)
    <3>1. i + 1 \in 1 .. Len(recs) + 1
      BY <1>1
    <3> QED BY <1>3, <3>1
  <2>5. ASSUME NEW j \in 1 .. n + 1 PROVE ItemsFrom(i, j) \in Seq(Nat)
    <3>1. j \in Nat /\ j # 0
      BY <2>2
    <3> HIDE DEF d, b
    <3>2. From(d, j) \in Seq(Nat)
      BY <2>3, <3>1, PartType
    <3>3. From(d, j) \o b \in Seq(Nat)
      BY <2>4, <3>2, ConcatProperties
    <3> QED BY <3>3 DEF ItemsFrom, d, b
  <2> QED BY <2>1, <2>2, <2>3, <2>5
<1> QED BY <1>3, <1>4

\* A record ahead begins with its fixed part and its count, its items come next.
LEMMA RecordAhead ==
  ASSUME frame \in Frames, NEW i \in 1 .. Len(frame.recs), NEW r, r = frame.recs[i]
  PROVE  RecsFrom(i) = Append(r.fixed, Len(r.items)) \o ItemsFrom(i, 1)
<1> DEFINE c == RecCodes(frame.recs)
           x == Append(r.fixed, Len(r.items))
           a == From(ItemCodes(r.items), 1)
           b == From(c, i + 1)
           e == frame.sum
<1>1. /\ frame.odp \in BOOLEAN /\ frame.recs \in Seq(FrameRecord(frame.odp)) /\ e \in Seq(Nat)
      /\ r \in FrameRecord(frame.odp)
  BY FrameCodeType, AheadType
<1>2. c \in Seq(Seq(Nat)) /\ i \in 1 .. Len(c) /\ c[i] = RecCode(r)
  BY <1>1, RecCodesType
<1>3. x \in Seq(Nat) /\ a \in Seq(Nat) /\ RecCode(r) = x \o a
  BY <1>1, RecCodeType
<1>4. From(c, i) = c[i] \o b
  <2> HIDE DEF c
  <2> QED BY <1>2, FromNext
<1>5. b \in Seq(Nat)
  <2>1. i + 1 \in Nat /\ i + 1 # 0
    BY <1>2
  <2> HIDE DEF c
  <2> QED BY <1>2, <2>1, PartType
<1>6. RecsFrom(i) = ((x \o a) \o b) \o e /\ ItemsFrom(i, 1) = a \o (b \o e)
  BY <1>2, <1>3, <1>4 DEF RecsFrom, ItemsFrom
<1> HIDE DEF x, a, b, e
<1>7. ((x \o a) \o b) \o e = x \o (a \o (b \o e))
  <2>1. x \in Seq(Nat) /\ a \in Seq(Nat) /\ b \in Seq(Nat) /\ e \in Seq(Nat)
    BY <1>1, <1>3, <1>5
  <2> DEFINE y == a \o b
  <2>2. (x \o a) \o b = x \o y /\ y \in Seq(Nat)
    BY <2>1, ThreeJoined, ConcatProperties
  <2>3. y \o e = a \o (b \o e)
    BY <2>1, ThreeJoined, Zenon
  <2> HIDE DEF y
  <2>4. (x \o y) \o e = x \o (y \o e)
    BY <2>1, <2>2, ThreeJoined, Zenon
  <2> QED BY <2>2, <2>3, <2>4
<1> QED BY <1>6, <1>7 DEF x

\* An item ahead begins with its head and its length, its value comes next.
LEMMA ItemAhead ==
  ASSUME frame \in Frames, NEW i \in 1 .. Len(frame.recs),
         NEW j \in 1 .. Len(frame.recs[i].items), NEW x, x = frame.recs[i].items[j]
  PROVE  ItemsFrom(i, j) = Append(x.head, Len(x.val)) \o (x.val \o ItemsFrom(i, j + 1))
<1> DEFINE list == frame.recs[i].items
           c == ItemCodes(list)
           h == Append(x.head, Len(x.val))
           v == x.val
           a == From(c, j + 1)
           b == RecsFrom(i + 1)
<1>1. /\ frame.odp \in BOOLEAN /\ list \in Seq(FrameItem(frame.odp))
      /\ x \in FrameItem(frame.odp) /\ b \in Seq(Nat)
  <2>1. frame.odp \in BOOLEAN /\ frame.recs[i] \in FrameRecord(frame.odp)
    BY FrameCodeType, AheadType
  <2>2. list \in Seq(FrameItem(frame.odp))
    BY <2>1, RecCodeType
  <2>3. i + 1 \in 1 .. Len(frame.recs) + 1
    BY FrameCodeType
  <2>4. b \in Seq(Nat)
    BY <2>3, AheadType
  <2> QED BY <2>1, <2>2, <2>4
<1>2. c \in Seq(Seq(Nat)) /\ j \in 1 .. Len(c) /\ c[j] = ItemCode(x)
  BY <1>1, ItemCodesType
<1>3. h \in Seq(Nat) /\ v \in Seq(Nat) /\ ItemCode(x) = h \o v
  BY <1>1, ItemCodeType
<1>4. From(c, j) = c[j] \o a
  <2> HIDE DEF c
  <2> QED BY <1>2, FromNext
<1>5. a \in Seq(Nat)
  <2>1. j + 1 \in Nat /\ j + 1 # 0
    BY <1>2
  <2> HIDE DEF c
  <2> QED BY <1>2, <2>1, PartType
<1>6. ItemsFrom(i, j) = ((h \o v) \o a) \o b /\ ItemsFrom(i, j + 1) = a \o b
  BY <1>2, <1>3, <1>4 DEF ItemsFrom
<1> HIDE DEF h, v, a, b, c
<1>7. ((h \o v) \o a) \o b = h \o (v \o (a \o b))
  <2>1. h \in Seq(Nat) /\ v \in Seq(Nat) /\ a \in Seq(Nat) /\ b \in Seq(Nat)
    BY <1>1, <1>3, <1>5
  <2> DEFINE y == v \o a
  <2>2. (h \o v) \o a = h \o y /\ y \in Seq(Nat)
    BY <2>1, ThreeJoined, ConcatProperties
  <2>3. y \o b = v \o (a \o b)
    BY <2>1, ThreeJoined, Zenon
  <2> HIDE DEF y
  <2>4. (h \o y) \o b = h \o (y \o b)
    BY <2>1, <2>2, ThreeJoined, Zenon
  <2> QED BY <2>2, <2>3, <2>4
<1> QED BY <1>6, <1>7 DEF h, v

\* Behind a record's items is the next record.
LEMMA ItemsEnd ==
  ASSUME frame \in Frames, NEW i \in 1 .. Len(frame.recs)
  PROVE  ItemsFrom(i, Len(frame.recs[i].items) + 1) = RecsFrom(i + 1)
<1> DEFINE d == ItemCodes(frame.recs[i].items)
           b == RecsFrom(i + 1)
<1>1. d \in Seq(Seq(Nat)) /\ Len(d) = Len(frame.recs[i].items)
  BY AheadType
<1>2. b \in Seq(Nat)
  <2>1. i + 1 \in 1 .. Len(frame.recs) + 1
    BY FrameCodeType
  <2> QED BY <2>1, AheadType
<1>3. From(d, Len(d) + 1) = <<>>
  <2> HIDE DEF d
  <2> QED BY <1>1, FromEnd
<1>4. <<>> \o b = b
  <2> HIDE DEF b
  <2> QED BY <1>2
<1> QED BY <1>1, <1>3, <1>4 DEF ItemsFrom

\* Behind the last record there are four bytes.
LEMMA RecsEnd ==
  ASSUME frame \in Frames
  PROVE  RecsFrom(Len(frame.recs) + 1) = frame.sum
<1> DEFINE c == RecCodes(frame.recs)
           e == frame.sum
<1>1. c \in Seq(Seq(Nat)) /\ Len(c) = Len(frame.recs) /\ e \in Seq(Nat)
  BY FrameCodeType, RecCodesType
<1>2. From(c, Len(c) + 1) = <<>>
  <2> HIDE DEF c
  <2> QED BY <1>1, FromEnd
<1>3. <<>> \o e = e
  <2> HIDE DEF e
  <2> QED BY <1>1
<1> QED BY <1>1, <1>2, <1>3 DEF RecsFrom

\* What is known of a walk through a packet.
LEMMA InFrameType ==
  ASSUME FrameInv, frame # NoFrame, step = "walk"
  PROVE  /\ InFrame /\ Arrived /\ frame \in Frames /\ FrameTypeOK
         /\ input \in [1 .. MaxReadBytes -> Octet] /\ MaxReadBytes \in Nat
         /\ reqlen \in 0 .. MaxReadBytes /\ records \in 0 .. 255 /\ items \in 0 .. 255
         /\ got \in Seq(GotRecord) /\ Current \in Nat
         /\ at \in 1 .. Len(FrameCode(frame)) + 1 /\ at \in Nat /\ at > 0
         /\ FrameCode(frame) \in Seq(Nat) /\ Len(FrameCode(frame)) \in Nat
         /\ frame.recs \in Seq(FrameRecord(frame.odp)) /\ Len(frame.recs) \in Nat
         /\ frame.odp \in BOOLEAN /\ IsOdp = frame.odp
<1>1. /\ frame \in Frames /\ InFrame /\ Arrived /\ FrameTypeOK /\ MaxReadBytes \in Nat
  BY FrameAssumption DEF FrameInv, FrameTypeInv, FrameTypeOK, FrameAssumption
<1>2. got \in Seq(GotRecord) /\ Current \in Nat
  BY <1>1 DEF FrameTypeOK, GotRecord, GotItem, Current
<1>3. /\ FrameCode(frame) \in Seq(Nat) /\ frame.odp \in BOOLEAN
      /\ frame.recs \in Seq(FrameRecord(frame.odp))
  BY <1>1, FrameCodeType
<1>4. at \in 1 .. Len(FrameCode(frame)) + 1 /\ IsOdp = frame.odp
  BY <1>1 DEF InFrame, FramePosition
<1>5. /\ input \in [1 .. MaxReadBytes -> Octet] /\ reqlen \in 0 .. MaxReadBytes
      /\ records \in 0 .. 255 /\ items \in 0 .. 255 /\ at \in 1 .. MaxReadBytes + 1
  BY <1>1 DEF FrameTypeOK
<1>6. Len(FrameCode(frame)) \in Nat /\ Len(frame.recs) \in Nat
  BY <1>3
<1> QED BY <1>1, <1>2, <1>3, <1>4, <1>5, <1>6

\* What lies ahead is in the buffer as far as it has arrived.
LEMMA BytesAhead ==
  ASSUME FrameInv, frame # NoFrame, step = "walk", NEW X \in Seq(Nat), NEW R \in Seq(Nat),
         NEW p \in 1 .. Len(FrameCode(frame)) + 1, EndsWith(FrameCode(frame), p, X, R)
  PROVE  /\ p + Len(X) \in 1 .. Len(FrameCode(frame)) + 1
         /\ Ending(FrameCode(frame), p + Len(X)) = R
         /\ \A k \in 1 .. Len(X) : p + k - 1 <= reqlen => input[p + k - 1] = X[k]
<1> DEFINE c == FrameCode(frame)
<1>1. c \in Seq(Nat) /\ reqlen \in Nat /\ \A i \in 1 .. reqlen : i <= Len(c) => input[i] = c[i]
  BY InFrameType DEF Arrived
<1>2. /\ p + Len(X) \in 1 .. Len(c) + 1 /\ Ending(c, p + Len(X)) = R
      /\ \A k \in 1 .. Len(X) : c[p + k - 1] = X[k]
  <2>1. FrameCode(frame) \in Seq(Nat)
    BY <1>1
  <2> QED BY <2>1, EndingReads, ZenonT(30)
<1> HIDE DEF c
<1>3. p \in 1 .. Len(c) + 1
  BY DEF c
<1>4. ASSUME NEW k \in 1 .. Len(X), p + k - 1 <= reqlen PROVE input[p + k - 1] = X[k]
  <2>1. p + k - 1 \in 1 .. reqlen /\ p + k - 1 <= Len(c)
    <3>1. Len(c) \in Nat /\ Len(X) \in Nat /\ p \in Nat /\ p > 0 /\ p + Len(X) <= Len(c) + 1
      BY <1>1, <1>2, <1>3
    <3> QED BY <1>1, <1>4, <3>1
  <2>2. input[p + k - 1] = c[p + k - 1]
    BY <1>1, <2>1
  <2> QED BY <1>2, <2>2
<1> QED BY <1>2, <1>4 DEF c

\* Where an index can be read every item read before was as sent.
LEMMA NoneTorn ==
  ASSUME FrameInv, frame # NoFrame, step = "walk", NEW n \in Nat, n > 0, Indexed(n),
         NEW k \in 1 .. Current, NEW j \in 1 .. Len(got[k].items)
  PROVE  /\ SameItem(got[k].items[j], frame.recs[k].items[j])
         /\ got[k].items[j] = frame.recs[k].items[j]
<1>1. ~(at - 1 > reqlen)
  <2>1. at \in Nat /\ reqlen \in Nat /\ at + n - 1 <= reqlen - 4
    BY InFrameType DEF Indexed
  <2> QED BY <2>1
<1>2. ItemAsSent(k, j)
  BY InFrameType DEF InFrame, GotAsSent
<1> QED BY <1>1, <1>2 DEF ItemAsSent

\* A record is read where one was sent, with its fixed part and its count.
LEMMA RecordStep ==
  ASSUME FrameInv, frame # NoFrame, step = "walk", ReadRecord, step' = "walk"
  PROVE  InFrame'
<1> DEFINE i == Current + 1
           r == frame.recs[i]
           m == FixedPart(IsOdp)
           X == Append(r.fixed, Len(r.items))
           R == ItemsFrom(i, 1)
           new == [fixed |-> SubSeq(input, at, at + m - 1), items |-> <<>>]
<1>0. /\ InFrame /\ FramePosition /\ FrameCounted /\ GotAsSent
      /\ frame \in Frames /\ FrameTypeOK /\ got \in Seq(GotRecord) /\ Current \in Nat
      /\ reqlen \in 0 .. MaxReadBytes /\ MaxReadBytes \in Nat /\ at \in Nat /\ at > 0
      /\ at \in 1 .. Len(FrameCode(frame)) + 1 /\ Len(FrameCode(frame)) \in Nat
      /\ records \in 0 .. 255 /\ Len(frame.recs) \in Nat
      /\ IsOdp = frame.odp /\ frame.odp \in BOOLEAN
  BY InFrameType DEF InFrame
<1>1. m \in Nat
  BY DEF FixedPart
<1>2. /\ records > 0 /\ items = 0 /\ Indexed(m + 1) /\ got' = Append(got, new)
      /\ items' = input[at + m] /\ at' = at + (m + 1) /\ records' = records - 1
      /\ UNCHANGED <<input, reqlen, frame, step, reads>>
  <2>1. at + (m + 1) - 2 = at + m - 1 /\ at + (m + 1) - 1 = at + m
    BY <1>0, <1>1
  <2>2. ~Panic
    BY DEF Panic
  <2> QED BY <2>1, <2>2 DEF ReadRecord, MoreRecords
<1>3. at + m <= reqlen - 4 /\ records + Current = Len(frame.recs)
  <2>1. at + (m + 1) - 1 <= reqlen - 4
    BY <1>2 DEF Indexed
  <2>2. records + Current = Len(frame.recs)
    BY <1>0 DEF FrameCounted
  <2> HIDE DEF m
  <2> QED BY <1>0, <1>1, <2>1, <2>2
<1>4. i \in 1 .. Len(frame.recs)
  BY <1>0, <1>2, <1>3
<1>5. /\ r.fixed \in Seq(Nat) /\ Len(r.fixed) = m /\ Len(r.items) \in Nat
      /\ X \in Seq(Nat) /\ R \in Seq(Nat)
  <2>1. r \in FrameRecord(frame.odp)
    BY <1>0, <1>4, AheadType
  <2>2. /\ r.fixed \in Seq(Nat) /\ Len(r.fixed) = m /\ Len(r.items) \in Nat /\ X \in Seq(Nat)
    BY <1>0, <2>1, RecCodeType
  <2>3. 1 \in 1 .. Len(frame.recs[i].items) + 1
    BY <2>2
  <2> QED BY <1>0, <1>4, <2>2, <2>3, AheadType
<1>6. /\ Len(X) = m + 1 /\ X[m + 1] = Len(r.items)
      /\ \A k \in 1 .. m : X[k] = r.fixed[k]
  <2> HIDE DEF r, m
  <2> QED BY <1>5
<1>7. Ending(FrameCode(frame), at) = RecsFrom(i)
  <2>1. CASE got = <<>>
    BY <1>0, <2>1 DEF FramePosition, Current
  <2>2. CASE got # <<>>
    <3>1. Current \in 1 .. Len(frame.recs)
      BY <1>0, <1>4, <2>2 DEF Current
    <3>2. Len(got[Current].items) = Len(frame.recs[Current].items)
      <4>1. /\ items + Len(got[Current].items) = Len(frame.recs[Current].items)
            /\ items = 0
        BY <1>0, <1>2, <2>2 DEF FrameCounted
      <4>2. Len(got[Current].items) \in Nat
        <5>1. got[Current] \in GotRecord
          BY <1>0, <2>2 DEF Current
        <5>2. got[Current].items \in Seq(GotItem)
          BY <5>1 DEF GotRecord
        <5> QED BY <5>2
      <4> QED BY <4>1, <4>2
    <3>3. Ending(FrameCode(frame), at) = ItemsFrom(Current, Len(frame.recs[Current].items) + 1)
      BY <1>0, <2>2, <3>2 DEF FramePosition
    <3> QED BY <1>0, <3>1, <3>3, ItemsEnd
  <2> QED BY <2>1, <2>2
<1>8. RecsFrom(i) = X \o R
  BY <1>0, <1>4, RecordAhead
<1>9. EndsWith(FrameCode(frame), at, X, R)
  BY <1>7, <1>8 DEF EndsWith
<1> HIDE DEF i, r, m, X, R
<1>10. /\ at + Len(X) \in 1 .. Len(FrameCode(frame)) + 1
       /\ Ending(FrameCode(frame), at + Len(X)) = R
       /\ \A k \in 1 .. Len(X) : at + k - 1 <= reqlen => input[at + k - 1] = X[k]
  BY <1>0, <1>5, <1>9, BytesAhead
<1>11. \A k \in 1 .. m + 1 : input[at + k - 1] = X[k]
  <2> TAKE k \in 1 .. m + 1
  <2>1. at + k - 1 <= reqlen /\ k \in 1 .. Len(X)
    BY <1>0, <1>1, <1>3, <1>6
  <2> QED BY <1>10, <2>1
<1>12. SubSeq(input, at, at + m - 1) = r.fixed
  <2> DEFINE u == SubSeq(input, at, at + m - 1)
  <2>1. at \in 1 .. MaxReadBytes + 1 /\ at + m - 1 <= MaxReadBytes
    BY <1>0, <1>1, <1>3
  <2>2. u \in Seq(Octet) /\ Len(u) = m /\ \A k \in 1 .. m : u[k] = input[at + k - 1]
    BY <1>0, <1>1, <2>1, PartOfInput
  <2> HIDE DEF u
  <2>3. u \in Seq(Nat)
    BY <2>2, OctetsAreNumbers
  <2>4. \A k \in 1 .. Len(u) : u[k] = r.fixed[k]
    <3> TAKE k \in 1 .. Len(u)
    <3>1. k \in 1 .. m /\ k \in 1 .. m + 1
      BY <1>1, <2>2
    <3> QED BY <1>6, <1>11, <2>2, <3>1
  <2>5. u = r.fixed
    <3>1. Len(u) = Len(r.fixed)
      BY <1>5, <2>2
    <3> QED BY <1>5, <2>3, <2>4, <3>1, SeqEqual
  <2> QED BY <2>5 DEF u
<1>13. items' = Len(r.items)
  <2>1. m + 1 \in 1 .. m + 1 /\ at + (m + 1) - 1 = at + m
    BY <1>0, <1>1
  <2> QED BY <1>2, <1>6, <1>11, <2>1
<1>14. /\ Len(got') = i /\ got' # <<>> /\ Current' = i
       /\ got'[i].items = <<>> /\ got'[i].fixed = r.fixed /\ Len(got'[i].items) = 0
       /\ \A k \in 1 .. Current : got'[k] = got[k]
  <2>1. new.items = <<>> /\ new.fixed = r.fixed
    BY <1>12
  <2> HIDE DEF new
  <2>2. /\ Len(got') = Len(got) + 1 /\ got'[Len(got) + 1] = new
        /\ \A k \in 1 .. Len(got) : got'[k] = got[k]
    BY <1>0, <1>2
  <2>3. i = Len(got) + 1 /\ Len(got) \in Nat
    BY <1>0 DEF i, Current
  <2> QED BY <2>1, <2>2, <2>3 DEF Current
<1>15. frame' = frame /\ IsOdp' = IsOdp /\ input' = input
  BY <1>2 DEF IsOdp
<1>16. FramePosition'
  <2>1. at' \in 1 .. Len(FrameCode(frame)) + 1 /\ Ending(FrameCode(frame), at') = R
    BY <1>2, <1>6, <1>10
  <2>2. R = From(ItemCodes(frame.recs[i].items), Len(got'[i].items) + 1)
              \o (From(RecCodes(frame.recs), i + 1) \o frame.sum)
    <3> DEFINE l == Len(got'[i].items) + 1
    <3>1. l = 1
      BY <1>14
    <3> HIDE DEF l
    <3>2. R = From(ItemCodes(frame.recs[i].items), l)
                \o (From(RecCodes(frame.recs), i + 1) \o frame.sum)
      BY <3>1 DEF R, ItemsFrom, RecsFrom
    <3> QED BY <3>2 DEF l
  <2> QED BY <1>14, <1>15, <2>1, <2>2 DEF FramePosition, ItemsFrom, RecsFrom
<1>17. FrameCounted'
  <2>1. records' + Current' = Len(frame.recs)
    BY <1>0, <1>2, <1>3, <1>14 DEF i
  <2>2. items' + Len(got'[Current'].items) = Len(frame.recs[Current'].items)
    BY <1>5, <1>13, <1>14 DEF r
  <2> QED BY <1>14, <1>15, <2>1, <2>2 DEF FrameCounted
<1>18. GotAsSent'
  <2>1. ASSUME NEW k \in 1 .. i
        PROVE  /\ got'[k].fixed = frame.recs[k].fixed
               /\ k < i => Len(got'[k].items) = Len(frame.recs[k].items)
               /\ \A j \in 1 .. Len(got'[k].items) : ItemAsSent(k, j)'
    <3>1. CASE k = i
      BY <1>14, <3>1 DEF r
    <3>2. CASE k # i
      <4>1. k \in 1 .. Current
        BY <1>0, <3>2 DEF i
      <4>2. got[k].fixed = frame.recs[k].fixed /\ got'[k] = got[k]
        BY <1>0, <1>14, <4>1 DEF GotAsSent
      <4>3. Len(got[k].items) = Len(frame.recs[k].items)
        <5>1. CASE k < Current
          BY <1>0, <4>1, <5>1 DEF GotAsSent
        <5>2. CASE k = Current
          <6>1. got # <<>>
            BY <4>1, <5>2 DEF Current
          <6>2. items + Len(got[Current].items) = Len(frame.recs[Current].items) /\ items = 0
            BY <1>0, <1>2, <6>1 DEF FrameCounted
          <6>3. got[Current].items \in Seq(GotItem)
            <7>1. got[Current] \in GotRecord
              BY <1>0, <4>1, <5>2 DEF Current
            <7> QED BY <7>1 DEF GotRecord
          <6>4. Len(got[Current].items) \in Nat
            BY <6>3
          <6> QED BY <5>2, <6>2, <6>4
        <5> QED BY <1>0, <4>1, <5>1, <5>2
      <4>4. ASSUME NEW j \in 1 .. Len(got[k].items) PROVE ItemAsSent(k, j)'
        <5>1. /\ SameItem(got[k].items[j], frame.recs[k].items[j])
              /\ got[k].items[j] = frame.recs[k].items[j]
          <6>1. m + 1 \in Nat /\ m + 1 > 0
            BY <1>1
          <6> QED BY <1>2, <4>1, <6>1, NoneTorn
        <5> QED BY <1>15, <4>2, <5>1 DEF ItemAsSent, SameItem
      <4> QED BY <4>2, <4>3, <4>4
    <3> QED BY <3>1, <3>2
  <2> QED BY <1>14, <1>15, <2>1 DEF GotAsSent
<1> QED BY <1>0, <1>15, <1>16, <1>17, <1>18 DEF InFrame

\* An item is read where one was sent: its head and its length, for they are indexed,
\* and as much of its value as has arrived.
LEMMA ItemStep ==
  ASSUME FrameInv, frame # NoFrame, step = "walk", ReadItem, step' = "walk"
  PROVE  InFrame'
<1> DEFINE i == Current
           j == Len(got[i].items) + 1
           list == frame.recs[i].items
           x == list[j]
           m == HeadPart(IsOdp)
           X == Append(x.head, Len(x.val))
           w == Len(x.val)
           S == ItemsFrom(i, j + 1)
           R == x.val \o S
           new == [head |-> SubSeq(input, at, at + m - 1),
                   val |-> SubSeq(input, at + m + 1, (at + m + 1) + w - 1)]
<1>0. /\ InFrame /\ FramePosition /\ FrameCounted /\ GotAsSent
      /\ frame \in Frames /\ FrameTypeOK /\ got \in Seq(GotRecord) /\ Current \in Nat
      /\ reqlen \in 0 .. MaxReadBytes /\ MaxReadBytes \in Nat /\ at \in Nat /\ at > 0
      /\ at \in 1 .. Len(FrameCode(frame)) + 1 /\ Len(FrameCode(frame)) \in Nat
      /\ records \in 0 .. 255 /\ Len(frame.recs) \in Nat /\ items \in 0 .. 255
      /\ IsOdp = frame.odp /\ frame.odp \in BOOLEAN
      /\ input \in [1 .. MaxReadBytes -> Octet]
  BY InFrameType DEF InFrame
<1>1. m \in Nat
  BY DEF HeadPart
<1>2. items > 0 /\ Indexed(m + 1)
  <2>1. ~Panic
    BY DEF Panic
  <2> QED BY <2>1 DEF ReadItem
<1>3. at + m <= reqlen - 4 /\ got # <<>> /\ records + i = Len(frame.recs)
  <2>1. at + (m + 1) - 1 <= reqlen - 4
    BY <1>2 DEF Indexed
  <2>2. got # <<>> /\ records + i = Len(frame.recs)
    BY <1>0, <1>2 DEF FrameCounted
  <2> HIDE DEF m
  <2> QED BY <1>0, <1>1, <2>1, <2>2
<1>4. /\ i \in 1 .. Len(frame.recs) /\ i = Len(got) /\ got[i] \in GotRecord
      /\ got[i].items \in Seq(GotItem) /\ j \in Nat /\ items + (j - 1) = Len(list)
  <2>1. i = Len(got) /\ i > 0 /\ i <= Len(frame.recs)
    BY <1>0, <1>3 DEF Current
  <2>2. got[i] \in GotRecord
    BY <1>0, <2>1
  <2>3. got[i].items \in Seq(GotItem)
    BY <2>2 DEF GotRecord
  <2>4. Len(got[i].items) \in Nat
    BY <2>3
  <2>5. items + Len(got[i].items) = Len(list)
    BY <1>0, <1>3 DEF FrameCounted
  <2> QED BY <1>0, <2>1, <2>2, <2>3, <2>4, <2>5
<1>5. j \in 1 .. Len(list)
  <2>1. Len(list) \in Nat /\ Len(got[i].items) \in Nat
    <3>1. Len(list) \in Nat
      BY <1>0, <1>4, AheadType
    <3>2. Len(got[i].items) \in Nat
      BY <1>4
    <3> QED BY <3>1, <3>2
  <2> DEFINE l == Len(list)
             h == Len(got[i].items)
  <2>2. items + (j - 1) = l /\ j = h + 1
    BY <1>4
  <2> HIDE DEF l, h, j
  <2>3. l \in Nat /\ h \in Nat
    BY <2>1 DEF l, h
  <2>4. j \in 1 .. l
    BY <1>0, <1>2, <2>2, <2>3
  <2> QED BY <2>4 DEF l
<1>6. /\ x.head \in Seq(Nat) /\ x.val \in Seq(Nat) /\ Len(x.head) = m /\ w \in Nat
      /\ X \in Seq(Nat) /\ S \in Seq(Nat)
  <2>1. list \in Seq(FrameItem(frame.odp)) /\ frame.recs[i] \in FrameRecord(frame.odp)
    BY <1>0, <1>4, AheadType, RecCodeType
  <2>2. x \in FrameItem(frame.odp)
    <3> HIDE DEF list, j
    <3> QED BY <1>5, <2>1
  <2>3. /\ x.head \in Seq(Nat) /\ x.val \in Seq(Nat) /\ Len(x.head) = m /\ w \in Nat
        /\ X \in Seq(Nat)
    BY <1>0, <2>2, ItemCodeType
  <2>4. S \in Seq(Nat)
    <3>1. Len(list) \in Nat
      BY <1>0, <1>4, AheadType
    <3>2. j + 1 \in 1 .. Len(list) + 1
      <4> HIDE DEF j, list
      <4> QED BY <1>5, <3>1
    <3> HIDE DEF j
    <3> QED BY <1>0, <1>4, <3>2, AheadType
  <2> QED BY <2>3, <2>4
<1>7. x = [head |-> x.head, val |-> x.val]
  <2>1. list \in Seq(FrameItem(frame.odp))
    BY <1>0, <1>4, AheadType, RecCodeType
  <2>2. x \in FrameItem(frame.odp)
    <3> HIDE DEF list, j
    <3> QED BY <1>5, <2>1
  <2> HIDE DEF x
  <2>3. x \in [head : Seq(Octet), val : Seq(Octet)]
    BY <2>2 DEF FrameItem
  <2> QED BY <2>3
<1>8. /\ Len(X) = m + 1 /\ X[m + 1] = w /\ R \in Seq(Nat)
      /\ \A k \in 1 .. m : X[k] = x.head[k]
  <2> HIDE DEF x, m, S
  <2> QED BY <1>6
<1>9. EndsWith(FrameCode(frame), at, X, R)
  <2>1. Ending(FrameCode(frame), at) = ItemsFrom(i, j)
    BY <1>0, <1>3 DEF FramePosition
  <2>2. ItemsFrom(i, j) = X \o R
    <3> HIDE DEF i, j
    <3> QED BY <1>0, <1>4, <1>5, ItemAhead
  <2> QED BY <2>1, <2>2 DEF EndsWith
<1>10. at \in 1 .. Len(FrameCode(frame)) + 1
  BY <1>0
<1> HIDE DEF i, j, list, x, m, X, w, S, R
<1>11. /\ at + Len(X) \in 1 .. Len(FrameCode(frame)) + 1
       /\ Ending(FrameCode(frame), at + Len(X)) = R
       /\ \A k \in 1 .. Len(X) : at + k - 1 <= reqlen => input[at + k - 1] = X[k]
  <2>1. X \in Seq(Nat) /\ R \in Seq(Nat)
    BY <1>6, <1>8
  <2> QED BY <1>9, <1>10, <2>1, BytesAhead
<1>12. \A k \in 1 .. m + 1 : input[at + k - 1] = X[k]
  <2> TAKE k \in 1 .. m + 1
  <2>1. at + k - 1 <= reqlen /\ k \in 1 .. Len(X)
    BY <1>0, <1>1, <1>3, <1>8
  <2> QED BY <1>11, <2>1
<1>13. input[at + m] = w
  <2>1. m + 1 \in 1 .. m + 1 /\ at + (m + 1) - 1 = at + m
    BY <1>0, <1>1
  <2> QED BY <1>8, <1>12, <2>1
<1>14. EndsWith(FrameCode(frame), at + m + 1, x.val, S)
  <2>1. at + Len(X) = at + m + 1
    BY <1>0, <1>1, <1>8
  <2> QED BY <1>11, <2>1 DEF EndsWith, R
<1>15. /\ (at + m + 1) + w \in 1 .. Len(FrameCode(frame)) + 1
       /\ Ending(FrameCode(frame), (at + m + 1) + w) = S
       /\ \A k \in 1 .. w : (at + m + 1) + k - 1 <= reqlen
                               => input[(at + m + 1) + k - 1] = x.val[k]
  <2> DEFINE p == at + m + 1
             v == x.val
  <2>1. p \in 1 .. Len(FrameCode(frame)) + 1
    BY <1>0, <1>1, <1>8, <1>11
  <2>2. v \in Seq(Nat) /\ S \in Seq(Nat) /\ EndsWith(FrameCode(frame), p, v, S) /\ w = Len(v)
    BY <1>6, <1>14 DEF w
  <2> HIDE DEF p, v
  <2>3. /\ p + Len(v) \in 1 .. Len(FrameCode(frame)) + 1
        /\ Ending(FrameCode(frame), p + Len(v)) = S
        /\ \A k \in 1 .. Len(v) : p + k - 1 <= reqlen => input[p + k - 1] = v[k]
    BY <2>1, <2>2, BytesAhead
  <2> QED BY <2>2, <2>3 DEF p, v
<1>16. /\ Sliced((m + 1) + w)
       /\ got' = [got EXCEPT ![i].items = Append(@, new)]
       /\ items' = items - 1 /\ at' = (at + m + 1) + w
       /\ UNCHANGED <<input, reqlen, frame, records, step, reads>>
  <2>1. /\ at + (m + 1) - 2 = at + m - 1 /\ at + (m + 1) - 1 = at + m
        /\ at + (m + 1) = at + m + 1 /\ at + ((m + 1) + w) - 1 = (at + m + 1) + w - 1
        /\ at + ((m + 1) + w) = (at + m + 1) + w
    BY <1>0, <1>1, <1>6
  <2>2. ~Panic
    BY DEF Panic
  <2>3. m = HeadPart(IsOdp) /\ i = Len(got)
    BY <1>4 DEF m
  <2> QED BY <1>13, <2>1, <2>2, <2>3 DEF ReadItem
<1>17. at' \in Nat /\ (at' - 1 > reqlen => w > 4)
  <2>1. at' = (at + m + 1) + w
    BY <1>16
  <2> QED BY <1>0, <1>1, <1>3, <1>6, <2>1
<1>18. new.head = x.head
  <2> DEFINE u == SubSeq(input, at, at + m - 1)
             v == x.head
  <2>0. v \in Seq(Nat) /\ Len(v) = m
    BY <1>6
  <2>1. at \in 1 .. MaxReadBytes + 1 /\ at + m - 1 <= MaxReadBytes
    BY <1>0, <1>1, <1>3
  <2>2. u \in Seq(Octet) /\ Len(u) = m /\ \A k \in 1 .. m : u[k] = input[at + k - 1]
    BY <1>0, <1>1, <2>1, PartOfInput
  <2>3. new.head = u
    OBVIOUS
  <2>4. \A k \in 1 .. m : X[k] = v[k]
    BY <1>8
  <2> HIDE DEF u, v, new
  <2>5. u \in Seq(Nat)
    BY <2>2, OctetsAreNumbers
  <2>6. \A k \in 1 .. Len(u) : u[k] = v[k]
    <3> TAKE k \in 1 .. Len(u)
    <3>1. k \in 1 .. m /\ k \in 1 .. m + 1
      BY <1>1, <2>2
    <3> QED BY <1>12, <2>2, <2>4, <3>1
  <2>7. Len(u) = Len(v)
    BY <2>0, <2>2
  <2>8. u = v
    BY <2>0, <2>5, <2>6, <2>7, SeqEqual
  <2> QED BY <2>3, <2>8 DEF v
<1>19. /\ Len(new.val) = w
       /\ at' - 1 <= reqlen => new.val = x.val
  <2> DEFINE p == at + m + 1
             u == SubSeq(input, p, p + w - 1)
             v == x.val
  <2>0. v \in Seq(Nat) /\ Len(v) = w
    BY <1>6 DEF w
  <2>1. p \in 1 .. MaxReadBytes + 1 /\ p + w - 1 <= MaxReadBytes
    <3>1. at + ((m + 1) + w) - 1 <= MaxReadBytes
      BY <1>16 DEF Sliced
    <3> QED BY <1>0, <1>1, <1>3, <1>6, <3>1
  <2>2. new.val = u /\ at' = p + w
    BY <1>16
  <2>3. \A k \in 1 .. w : p + k - 1 <= reqlen => input[p + k - 1] = v[k]
    BY <1>15
  <2> HIDE DEF p, v, new
  <2>4. u \in Seq(Octet) /\ Len(u) = w /\ \A k \in 1 .. w : u[k] = input[p + k - 1]
    BY <1>0, <1>6, <2>1, PartOfInput
  <2> HIDE DEF u
  <2>5. u \in Seq(Nat)
    BY <2>4, OctetsAreNumbers
  <2>6. ASSUME at' - 1 <= reqlen PROVE u = v
    <3>1. ASSUME NEW k \in 1 .. w PROVE u[k] = v[k]
      <4>1. p + k - 1 <= reqlen
        BY <1>0, <1>6, <2>1, <2>2, <2>6
      <4> QED BY <2>3, <2>4, <4>1
    <3>2. Len(u) = Len(v) /\ \A k \in 1 .. Len(u) : u[k] = v[k]
      BY <2>0, <2>4, <3>1
    <3> QED BY <2>0, <2>5, <3>2, SeqEqual
  <2> QED BY <2>2, <2>4, <2>6 DEF v
<1>20. at' - 1 <= reqlen => new = x
  <2> HAVE at' - 1 <= reqlen
  <2>1. new.head = x.head /\ new.val = x.val
    BY <1>18, <1>19
  <2>2. new = [head |-> new.head, val |-> new.val]
    OBVIOUS
  <2> HIDE DEF new
  <2> QED BY <1>7, <2>1, <2>2
<1>21. /\ Len(got') = i /\ got' # <<>> /\ Current' = i
       /\ got'[i].fixed = got[i].fixed /\ got'[i].items = Append(got[i].items, new)
       /\ \A k \in 1 .. i : k # i => got'[k] = got[k]
  <2> DEFINE g == got[i]
             A == Seq(Octet)
             B == Seq(GotItem)
             e == [g EXCEPT !.items = Append(g.items, new)]
  <2>1. g \in [fixed : A, items : B]
    BY <1>4 DEF GotRecord
  <2>2. got' = [got EXCEPT ![i] = e]
    BY <1>16
  <2> HIDE DEF A, B, new, g
  <2>3. e.fixed = g.fixed /\ e.items = Append(g.items, new)
    BY <2>1
  <2> HIDE DEF e
  <2>4. /\ Len(got') = Len(got) /\ got'[i] = e
        /\ \A k \in 1 .. i : k # i => got'[k] = got[k]
    BY <1>0, <1>4, <2>2
  <2>5. i = Len(got) /\ i \in Nat /\ i > 0
    BY <1>0, <1>3, <1>4
  <2>6. Current' = i /\ got' # <<>>
    BY <2>4, <2>5 DEF Current
  <2> QED BY <2>3, <2>4, <2>5, <2>6 DEF g
<1> HIDE DEF new
<1>22. /\ Len(got'[i].items) = j /\ got'[i].items[j] = new
       /\ \A k \in 1 .. j :
             k # j => got'[i].items[k] = got[i].items[k] /\ k \in 1 .. Len(got[i].items)
  <2> DEFINE s == got[i].items
             t == Append(s, new)
  <2>1. s \in Seq(GotItem) /\ j = Len(s) + 1 /\ Len(s) \in Nat /\ got'[i].items = t
    BY <1>4, <1>21 DEF j
  <2> HIDE DEF s
  <2>2. /\ Len(t) = Len(s) + 1 /\ t[Len(s) + 1] = new
        /\ \A k \in 1 .. Len(s) : t[k] = s[k]
    BY <2>1
  <2> HIDE DEF t
  <2>3. \A k \in 1 .. j : k # j => k \in 1 .. Len(s)
    BY <2>1
  <2> QED BY <2>1, <2>2, <2>3 DEF s
<1>23. frame' = frame /\ IsOdp' = IsOdp /\ input' = input /\ reqlen' = reqlen
  BY <1>16 DEF IsOdp
<1>24. FramePosition'
  <2>1. at' \in 1 .. Len(FrameCode(frame)) + 1 /\ Ending(FrameCode(frame), at') = S
    BY <1>15, <1>16
  <2> DEFINE l == Len(got'[i].items) + 1
  <2>2. l = j + 1
    BY <1>22
  <2> HIDE DEF l
  <2>3. S = From(ItemCodes(frame.recs[i].items), l)
              \o (From(RecCodes(frame.recs), i + 1) \o frame.sum)
    BY <2>2 DEF S, ItemsFrom, RecsFrom
  <2>4. S = From(ItemCodes(frame.recs[i].items), Len(got'[i].items) + 1)
              \o (From(RecCodes(frame.recs), i + 1) \o frame.sum)
    BY <2>3 DEF l
  <2> QED BY <1>21, <1>23, <2>1, <2>4 DEF FramePosition, ItemsFrom, RecsFrom
<1>25. FrameCounted'
  <2>1. records' + Current' = Len(frame.recs)
    BY <1>3, <1>16, <1>21
  <2>2. items' + Len(got'[Current'].items) = Len(list)
    <3>1. items' = items - 1 /\ Len(got'[Current'].items) = j
      BY <1>16, <1>21, <1>22
    <3> QED BY <1>0, <1>4, <3>1
  <2> QED BY <1>21, <1>23, <2>1, <2>2 DEF FrameCounted, list
<1>26. GotAsSent'
  <2>1. ASSUME NEW k \in 1 .. i
        PROVE  /\ got'[k].fixed = frame.recs[k].fixed
               /\ k < i => Len(got'[k].items) = Len(frame.recs[k].items)
    <3>1. /\ got[k].fixed = frame.recs[k].fixed
          /\ k < i => Len(got[k].items) = Len(frame.recs[k].items)
      BY <1>0 DEF GotAsSent, i
    <3>2. CASE k = i
      BY <1>4, <1>21, <3>1, <3>2
    <3>3. CASE k # i
      BY <1>21, <3>1, <3>3
    <3> QED BY <3>2, <3>3
  <2>2. ASSUME NEW k \in 1 .. i, NEW l \in 1 .. Len(got'[k].items) PROVE ItemAsSent(k, l)'
    <3>1. CASE k = i /\ l = j
      <4>1. got'[k].items[l] = new /\ frame.recs[k].items[l] = x
        BY <1>22, <3>1 DEF x, list
      <4>2. SameItem(new, x)
        BY <1>18, <1>19 DEF SameItem, w
      <4>3. new = x \/ (at' - 1 > reqlen' /\ w > 4)
        <5>1. reqlen \in Nat /\ at' \in Nat
          BY <1>0, <1>17
        <5>2. reqlen' = reqlen /\ (at' - 1 > reqlen => w > 4)
          BY <1>17, <1>23
        <5>3. at' - 1 <= reqlen \/ at' - 1 > reqlen
          <6>1. \A a, b \in Nat : a - 1 <= b \/ a - 1 > b
            OBVIOUS
          <6> QED BY <5>1, <6>1, Zenon
        <5> QED BY <1>20, <5>2, <5>3, Zenon
      <4>4. k = Current' /\ l = Len(got'[k].items)
        BY <1>21, <1>22, <3>1
      <4> QED BY <1>23, <4>1, <4>2, <4>3, <4>4 DEF ItemAsSent, SameItem, w
    <3>2. CASE ~(k = i /\ l = j)
      <4>1. l \in 1 .. Len(got[k].items) /\ got'[k].items[l] = got[k].items[l]
        BY <1>21, <1>22, <3>2
      <4>2. /\ SameItem(got[k].items[l], frame.recs[k].items[l])
            /\ got[k].items[l] = frame.recs[k].items[l]
        <5>1. m + 1 \in Nat /\ m + 1 > 0 /\ k \in 1 .. Current
          BY <1>1 DEF i
        <5> QED BY <1>2, <4>1, <5>1, NoneTorn
      <4> QED BY <1>23, <4>1, <4>2 DEF ItemAsSent, SameItem
    <3> QED BY <3>1, <3>2
  <2> QED BY <1>21, <1>23, <2>1, <2>2 DEF GotAsSent
<1> QED BY <1>0, <1>23, <1>24, <1>25, <1>26 DEF InFrame

\* At the end of its last record a packet has been read, all of it but for the four
\* bytes behind, and is saved as it was sent.
LEMMA SaveStep ==
  ASSUME FrameInv, frame # NoFrame, EndOfFrame PROVE SavedAsSent'
<1> DEFINE sent == frame.recs
           n == Len(sent)
           c == FrameCode(frame)
<1>0. /\ step = "walk" /\ items = 0 /\ ~(records > 0)
      /\ UNCHANGED <<input, reqlen, frame, at, records, items, got, reads>>
  BY DEF EndOfFrame, MoreRecords
<1>1. /\ InFrame /\ FramePosition /\ FrameCounted /\ GotAsSent
      /\ frame \in Frames /\ got \in Seq(GotRecord) /\ Current \in Nat
      /\ reqlen \in Nat /\ at \in Nat /\ at > 0 /\ records \in 0 .. 255 /\ n \in Nat
      /\ c \in Seq(Nat) /\ Len(c) \in Nat /\ at \in 1 .. Len(c) + 1
  BY <1>0, InFrameType DEF InFrame
<1>2. Current = n /\ Len(got) = n
  <2>1. records = 0
    BY <1>0, <1>1
  <2>2. records + Current = n
    BY <1>1 DEF FrameCounted
  <2> QED BY <1>1, <2>1, <2>2 DEF Current
<1>3. ASSUME NEW i \in 1 .. n
      PROVE  got[i].fixed = sent[i].fixed /\ Len(got[i].items) = Len(sent[i].items)
  <2>1. /\ got[i].fixed = sent[i].fixed
        /\ i < n => Len(got[i].items) = Len(sent[i].items)
    BY <1>1, <1>2 DEF GotAsSent
  <2>2. CASE i = n
    <3>1. got # <<>> /\ i \in 1 .. Len(got)
      BY <1>1, <1>2
    <3>2. items + Len(got[i].items) = Len(sent[i].items)
      BY <1>1, <1>2, <2>2, <3>1 DEF FrameCounted
    <3>3. got[i].items \in Seq(GotItem)
      <4>1. got[i] \in GotRecord
        BY <1>1, <3>1
      <4> QED BY <4>1 DEF GotRecord
    <3>4. Len(got[i].items) \in Nat
      BY <3>3
    <3> QED BY <1>0, <2>1, <3>2, <3>4
  <2>3. CASE i # n
    BY <1>1, <2>1, <2>3
  <2> QED BY <2>2, <2>3
<1>4. at - 1 > reqlen => ~IsWhole
  <2>1. Ending(c, at) = frame.sum
    <3>1. CASE got = <<>>
      <4>1. n = 0
        BY <1>2, <3>1
      <4>2. RecsFrom(n + 1) = frame.sum
        BY <1>1, RecsEnd
      <4> QED BY <1>1, <3>1, <4>1, <4>2 DEF FramePosition
    <3>2. CASE got # <<>>
      <4>1. n \in 1 .. n
        BY <1>1, <1>2, <3>2
      <4>2. Ending(c, at) = ItemsFrom(n, Len(sent[n].items) + 1)
        BY <1>1, <1>2, <1>3, <3>2, <4>1 DEF FramePosition
      <4>3. ItemsFrom(n, Len(sent[n].items) + 1) = RecsFrom(n + 1)
        BY <1>1, <4>1, ItemsEnd
      <4>4. RecsFrom(n + 1) = frame.sum
        BY <1>1, RecsEnd
      <4> QED BY <4>2, <4>3, <4>4
    <3> QED BY <3>1, <3>2
  <2>2. Len(frame.sum) = 4
    BY <1>1, FrameCodeType
  <2>3. Len(Ending(c, at)) = Len(c) - at + 1
    <3> HIDE DEF c
    <3> QED BY <1>1 DEF Ending
  <2>4. Len(c) - at + 1 = 4
    BY <2>1, <2>2, <2>3
  <2>5. at - 1 = Len(c) - 4
    <3> HIDE DEF c
    <3> QED BY <1>1, <2>4
  <2>6. at - 1 > reqlen => ~(reqlen >= Len(c) - 4)
    <3> HIDE DEF c
    <3> QED BY <1>1, <2>5
  <2> QED BY <2>6, Zenon DEF IsWhole
<1>5. ASSUME NEW i \in 1 .. n, NEW j \in 1 .. Len(sent[i].items)
      PROVE  /\ SameItem(got[i].items[j], sent[i].items[j])
             /\ got[i].items[j] = sent[i].items[j]
                \/ /\ ~IsWhole /\ i = n /\ j = Len(sent[i].items)
                   /\ Len(sent[i].items[j].val) > 4
  <2>1. ItemAsSent(i, j) /\ Len(got[i].items) = Len(sent[i].items)
    BY <1>1, <1>2, <1>3 DEF GotAsSent
  <2> QED BY <1>2, <1>4, <2>1 DEF ItemAsSent
<1>6. /\ frame' = frame /\ got' = got /\ (IsWhole' <=> IsWhole)
  BY <1>0 DEF IsWhole
<1>7. /\ DOMAIN sent = 1 .. n
      /\ \A i \in 1 .. n : DOMAIN sent[i].items = 1 .. Len(sent[i].items)
  <2>1. frame.odp \in BOOLEAN /\ sent \in Seq(FrameRecord(frame.odp))
    BY <1>1, FrameCodeType
  <2>2. ASSUME NEW i \in 1 .. n PROVE DOMAIN sent[i].items = 1 .. Len(sent[i].items)
    <3>1. sent[i] \in FrameRecord(frame.odp)
      BY <2>1
    <3>2. sent[i].items \in Seq(FrameItem(frame.odp))
      BY <2>1, <3>1, RecCodeType
    <3> QED BY <3>2
  <2> QED BY <2>1, <2>2
<1> HIDE DEF sent, n
<1>8. /\ Len(got) = Len(sent)
      /\ \A i \in DOMAIN sent :
           /\ got[i].fixed = sent[i].fixed
           /\ Len(got[i].items) = Len(sent[i].items)
           /\ \A j \in DOMAIN sent[i].items :
                 /\ SameItem(got[i].items[j], sent[i].items[j])
                 /\ got[i].items[j] = sent[i].items[j]
                    \/ /\ ~IsWhole /\ i = Len(sent) /\ j = Len(sent[i].items)
                       /\ Len(sent[i].items[j].val) > 4
  <2>1. n = Len(sent)
    BY DEF n
  <2> QED BY <1>2, <1>3, <1>5, <1>7, <2>1
<1> QED BY <1>6, <1>8 DEF SavedAsSent, SameItem, sent

\* The walk begins before the first Read.
LEMMA FrameStart == FrameInit => FrameInv
<1> SUFFICES ASSUME FrameInit PROVE FrameInv
  OBVIOUS
<1>1. MaxReadBytes \in Nat /\ MaxReads \in Nat
  BY FrameAssumption DEF FrameAssumption
<1>2. input \in [1 .. MaxReadBytes -> Octet]
  BY DEF FrameInit, Octet
<1>3. /\ reqlen = 0 /\ frame = NoFrame /\ at = 1 /\ records = 0 /\ items = 0 /\ got = <<>>
      /\ step = "reading" /\ reads = 0
  BY DEF FrameInit
<1>4. FrameTypeInv
  BY <1>1, <1>2, <1>3 DEF FrameTypeInv, FrameTypeOK
<1> QED BY <1>3, <1>4 DEF FrameInv, SavedAsSent

\* Every step keeps the invariant.
LEMMA FrameStep == ASSUME FrameInv, [FrameNext]_frameVars PROVE FrameInv'
<1>0. FrameTypeInv'
  BY FrameTypeNext DEF FrameInv
<1>1. ASSUME NEW a \in Arrivals, Arrive(a) PROVE FrameInv'
  <2>1. step' = "parse" /\ at' = 1 /\ records' = 0 /\ items' = 0 /\ got' = <<>>
    BY <1>1 DEF Arrive
  <2>2. (frame # NoFrame)' => Arrived'
    BY <1>1, ArriveStep
  <2> QED BY <1>0, <2>1, <2>2 DEF FrameInv, SavedAsSent
<1>2. ASSUME UNCHANGED <<input, reqlen, frame>>
      PROVE  (frame # NoFrame => Arrived)'
  BY <1>2 DEF FrameInv, Arrived
<1>3. CASE Open
  <2>1. UNCHANGED <<input, reqlen, frame>> /\ step' \in {"panic", "walk", "reply"}
    BY <1>3 DEF Open, Panic
  <2>2. frame' # NoFrame /\ step' = "walk" => InFrame'
    BY <1>3, <2>1, OpenStep
  <2> QED BY <1>0, <1>2, <2>1, <2>2 DEF FrameInv, SavedAsSent
<1>4. CASE ReadRecord \/ ReadItem
  <2>1. UNCHANGED <<input, reqlen, frame>> /\ step' \in {"panic", "walk"} /\ step = "walk"
    BY <1>4 DEF ReadRecord, ReadItem, Panic
  <2>2. frame' # NoFrame /\ step' = "walk" => InFrame'
    BY <1>4, <2>1, RecordStep, ItemStep
  <2> QED BY <1>0, <1>2, <2>1, <2>2 DEF FrameInv, SavedAsSent
<1>5. CASE EndOfFrame
  <2>1. UNCHANGED <<input, reqlen, frame>> /\ step' = "save"
    BY <1>5 DEF EndOfFrame
  <2>2. SavedAsSent'
    <3>1. CASE frame = NoFrame
      BY <2>1, <3>1 DEF SavedAsSent
    <3>2. CASE frame # NoFrame
      BY <1>5, <3>2, SaveStep
    <3> QED BY <3>1, <3>2
  <2> QED BY <1>0, <1>2, <2>1, <2>2 DEF FrameInv
<1>6. CASE Answer \/ Close
  <2>1. UNCHANGED <<input, reqlen, frame>> /\ step' \in {"reading", "closed"}
    BY <1>6 DEF Answer, Close
  <2> QED BY <1>0, <1>2, <2>1 DEF FrameInv, SavedAsSent
<1>7. CASE Closed \/ UNCHANGED frameVars
  <2>1. UNCHANGED <<input, reqlen, frame, at, records, items, got, step, reads>>
    BY <1>7 DEF Closed, frameVars
  <2>2. SavedAsSent' <=> SavedAsSent
    BY <2>1 DEF SavedAsSent, IsWhole, SameItem
  <2>3. InFrame' <=> InFrame
    <3>1. (IsOdp = frame.odp)' <=> (IsOdp = frame.odp)
      BY <2>1 DEF IsOdp
    <3>2. FramePosition' <=> FramePosition
      BY <2>1 DEF FramePosition, RecsFrom, ItemsFrom, Current
    <3>3. FrameCounted' <=> FrameCounted
      BY <2>1 DEF FrameCounted, Current
    <3>4. GotAsSent' <=> GotAsSent
      BY <2>1 DEF GotAsSent, ItemAsSent, SameItem, Current
    <3> QED BY <3>1, <3>2, <3>3, <3>4, Zenon DEF InFrame
  <2>4. (step = "parse" => at = 1 /\ records = 0 /\ items = 0 /\ got = <<>>)'
    BY <2>1 DEF FrameInv
  <2>5. (frame # NoFrame => Arrived)' /\ SavedAsSent'
    BY <1>2, <2>1, <2>2 DEF FrameInv
  <2>6. (frame # NoFrame /\ step = "walk" => InFrame)'
    BY <2>1, <2>3 DEF FrameInv
  <2> QED BY <1>0, <2>4, <2>5, <2>6 DEF FrameInv
<1> QED BY <1>1, <1>3, <1>4, <1>5, <1>6, <1>7 DEF FrameNext

\* The walk through what begins with a packet is in step with the packet.
THEOREM FrameInvariance == FrameSpec => []FrameInv
  BY FrameStart, FrameStep, PTL DEF FrameSpec

\* The buffer, the walk's place in it and what it has read keep their types.
THEOREM FrameTypeCorrect == FrameSpec => []FrameTypeOK
<1>1. FrameInv => FrameTypeOK
  BY DEF FrameInv, FrameTypeInv
<1> QED BY <1>1, FrameInvariance, PTL

\* What is saved of a packet is what was sent, but for the last value of one that
\* was cut short, if it has more than four bytes.
THEOREM FramesAreSaved == FrameSpec => []SavedAsSent
<1>1. FrameInv => SavedAsSent
  BY DEF FrameInv
<1> QED BY <1>1, FrameInvariance, PTL
=============================================================================
