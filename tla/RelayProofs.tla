----------------------------- MODULE RelayProofs ------------------------------
(***************************************************************************)
(* What RelaySession promises of names and files, for any connections,     *)
(* trackers and packets.  A track is its tracker's because a handler's      *)
(* name is the one its connection carried last, as soon as the name of the  *)
(* packet is read; a packet that is answered is stored because each of its  *)
(* records is still to be parsed, collected for a file, or in one.          *)
(***************************************************************************)
EXTENDS RelaySession, DataLemmas

USE NameAssumption, ParserAssumption, PacketAssumption, FlagAssumption, NumberAssumption

-----------------------------------------------------------------------------
(* What M01 collects.                                                      *)

\* What follows the name of a packet.
Datum == [kind : {"rec"}, val : Nat] \cup [kind : {"bad", "skip"}, val : {0}]

\* The entries of the tracker that spoke last on a connection.
Own(c) == {e \in Entry : e.dev = speaker[c]}

\* The entry of a record is its tracker's.
LEMMA OwnEntry ==
    ASSUME NEW c \in Conn, speaker[c] \in Name, NEW l \in Nat, NEW t \in Nat
    PROVE  EntryOf(c, l, t) \in Own(c) /\ EntryOf(c, l, t).rec = t
  BY DEF EntryOf, Own, Entry, Early

\* One record is added to what was collected.
LEMMA KeepOne ==
    ASSUME NEW c \in Conn, speaker[c] \in Name, NEW a \in Sums(Own(c)), NEW t \in Nat
    PROVE  /\ Keep(c, a, t) \in Sums(Own(c))
           /\ Collected(a) \cup {t} \subseteq Collected(Keep(c, a, t))
<1> DEFINE E == Own(c)
           e == EntryOf(c, a.last, t)
<1>1. a.last \in Nat /\ a.errs \in Seq(E) /\ a.save \in Days(E)
      /\ a = [last |-> a.last, errs |-> a.errs, save |-> a.save]
  BY DEF Sums
<1>2. e \in E /\ e.rec = t
  BY <1>1, OwnEntry
<1>3. Day(t) \in Nat
  BY DEF Day
<1> HIDE DEF E, e
<1>4. CASE Fits(a.last, t)
  <2> DEFINE m == AppendTo(a.save, Day(t), <<e>>)
  <2>1. m \in Days(E) /\ Filed(a.save) \cup {e.rec} \subseteq Filed(m)
    BY <1>1, <1>2, <1>3, DayKept
  <2>2. Keep(c, a, t) = [last |-> t, errs |-> a.errs, save |-> m]
    BY <1>1, <1>4 DEF Keep, e
  <2> HIDE DEF m
  <2>3. Keep(c, a, t) \in Sums(E)
    BY <1>1, <2>1, <2>2 DEF Sums
  <2>4. Collected(Keep(c, a, t)) = RecordsOf(a.errs) \cup Filed(m)
    BY <2>2 DEF Collected
  <2> QED BY <1>2, <2>1, <2>3, <2>4 DEF Collected, E
<1>5. CASE ~Fits(a.last, t)
  <2> DEFINE s == Append(a.errs, e)
  <2>1. s \in Seq(E)
    BY <1>1, <1>2
  <2>2. Keep(c, a, t) = [last |-> a.last, errs |-> s, save |-> a.save]
    BY <1>1, <1>5 DEF Keep, e
  <2>3. RecordsOf(s) = RecordsOf(a.errs) \cup {t}
    BY <1>1, <1>2, RecordsOfAppend
  <2> HIDE DEF s
  <2>4. Keep(c, a, t) \in Sums(E)
    BY <1>1, <2>1, <2>2 DEF Sums
  <2>5. Collected(Keep(c, a, t)) = RecordsOf(s) \cup Filed(a.save)
    BY <2>2 DEF Collected
  <2> QED BY <2>3, <2>4, <2>5 DEF Collected, E
<1> QED BY <1>4, <1>5

\* What the record loop starts with, and its steps.
Start(c) == [last |-> last[c], errs |-> <<>>, save |-> Empty]
Turns(c, recs) ==
    [k \in 1 .. Len(recs) |-> [a \in Sums(Own(c)) |-> Keep(c, a, recs[k].val)]]

\* The record loop is a recursion over the records.
LEMMA KeptIterates ==
    ASSUME NEW c \in Conn, speaker[c] \in Name, last[c] \in Nat, NEW recs \in Seq(Datum)
    PROVE  \E g : /\ Iterates(g, Len(recs), Sums(Own(c)), Start(c), Turns(c, recs))
                  /\ Kept(c, recs) = g[Len(recs)]
<1> DEFINE A == Sums(Own(c))
           n == Len(recs)
           b == Start(c)
           turn == Turns(c, recs)
<1>1. n \in Nat /\ \A k \in 1 .. n : recs[k].val \in Nat
  BY DEF Datum
<1>2. b \in A
  <2>1. Empty \in [{} -> Seq(Own(c)) \ {<<>>}] /\ {} \in SUBSET Nat
    BY DEF Empty
  <2>2. Empty \in Days(Own(c))
    BY <2>1 DEF Days
  <2>3. <<>> \in Seq(Own(c))
    OBVIOUS
  <2> QED BY <2>2, <2>3 DEF Start, Sums
<1>3. turn \in StepsTo(n, A)
  <2>1. ASSUME NEW k \in 1 .. n, NEW a \in A PROVE Keep(c, a, recs[k].val) \in A
    BY <1>1, KeepOne
  <2> HIDE DEF A, n
  <2>2. ASSUME NEW k \in 1 .. n PROVE [a \in A |-> Keep(c, a, recs[k].val)] \in [A -> A]
    BY <2>1
  <2> QED BY <2>2 DEF StepsTo, Turns, n, A
<1>4. PICK g : Iterates(g, n, A, b, turn)
  <2> HIDE DEF A, n, b, turn
  <2> QED BY <1>1, <1>2, <1>3, Iteration
<1> DEFINE R(f, k) == IF k = 0 THEN b ELSE Keep(c, f[k - 1], recs[k].val)
           Rec(f) == f = [k \in 0 .. n |-> R(f, k)]
<1>5. g \in [0 .. n -> A] /\ \A k \in 0 .. n : g[k] = R(g, k)
  <2>1. g \in [0 .. n -> A] /\ g[0] = b /\ \A k \in 1 .. n : g[k] = turn[k][g[k - 1]]
    BY <1>4 DEF Iterates
  <2>2. ASSUME NEW k \in 1 .. n PROVE g[k] = Keep(c, g[k - 1], recs[k].val)
    <3>1. g[k - 1] \in A
      <4> HIDE DEF A, n
      <4> QED BY <1>1, <2>1
    <3>2. turn[k][g[k - 1]] = Keep(c, g[k - 1], recs[k].val)
      <4> HIDE DEF A
      <4> QED BY <3>1 DEF Turns, A
    <3> QED BY <2>1, <3>2
  <2> HIDE DEF A, n, b, turn
  <2> QED BY <1>1, <2>1, <2>2
<1>6. Rec(g)
  <2> HIDE DEF A, n, R
  <2> QED BY <1>5
<1>7. Kept(c, recs) = (CHOOSE f : Rec(f))[n]
  BY DEF Kept, Start
<1>8. PICK h : Rec(h) /\ Kept(c, recs) = h[n]
  <2> HIDE DEF Rec
  <2> QED BY <1>6, <1>7, Zenon
<1>9. \A k \in 0 .. n : h[k] = R(h, k)
  <2> HIDE DEF R, n
  <2> QED BY <1>8
<1> DEFINE S == {k \in Nat : k <= n => h[k] = g[k]}
<1>10. 0 \in S
  <2> HIDE DEF b, n
  <2> QED BY <1>1, <1>5, <1>9
<1>11. ASSUME NEW k \in Nat, k \in S PROVE k + 1 \in S
  <2>1. SUFFICES ASSUME k + 1 <= n PROVE h[k + 1] = g[k + 1]
    OBVIOUS
  <2>2. k + 1 \in 0 .. n /\ k + 1 # 0 /\ k + 1 - 1 = k /\ h[k] = g[k]
    BY <1>1, <1>11, <2>1
  <2>3. R(h, k + 1) = Keep(c, h[k], recs[k + 1].val)
    BY <2>2
  <2>4. R(g, k + 1) = Keep(c, g[k], recs[k + 1].val)
    BY <2>2
  <2> HIDE DEF R, n
  <2> QED BY <1>5, <1>9, <2>2, <2>3, <2>4
<1>12. h[n] = g[n]
  <2>1. Nat \subseteq S
    <3> HIDE DEF S
    <3> QED BY <1>10, <1>11, Induction
  <2> QED BY <1>1, <2>1
<1> QED BY <1>4, <1>8, <1>12

\* Nothing is lost of the records, and they are filed as their tracker's.
LEMMA KeptAll ==
    ASSUME NEW c \in Conn, speaker[c] \in Name, last[c] \in Nat, NEW recs \in Seq(Datum)
    PROVE  /\ Kept(c, recs) \in Sums(Own(c))
           /\ Times(recs) \subseteq Collected(Kept(c, recs))
<1> DEFINE n == Len(recs)
           A == Sums(Own(c))
<1>1. n \in Nat /\ DOMAIN recs = 1 .. n /\ \A k \in 1 .. n : recs[k].val \in Nat
  BY DEF Datum
<1>2. PICK g : Iterates(g, n, A, Start(c), Turns(c, recs)) /\ Kept(c, recs) = g[n]
  BY KeptIterates
<1>3. g \in [0 .. n -> A] /\ \A k \in 1 .. n : g[k] = Turns(c, recs)[k][g[k - 1]]
  BY <1>2 DEF Iterates
<1>4. ASSUME NEW k \in 1 .. n
      PROVE  Collected(g[k - 1]) \cup {recs[k].val} \subseteq Collected(g[k])
  <2>1. g[k - 1] \in A
    <3> HIDE DEF A, n
    <3> QED BY <1>1, <1>3
  <2>2. g[k] = Keep(c, g[k - 1], recs[k].val)
    <3>1. Turns(c, recs)[k][g[k - 1]] = Keep(c, g[k - 1], recs[k].val)
      <4> HIDE DEF A
      <4> QED BY <2>1 DEF Turns, A
    <3> QED BY <1>3, <3>1
  <2> QED BY <1>1, <2>1, <2>2, KeepOne
<1>7. {recs[j].val : j \in 1 .. n} \subseteq Collected(g[n])
  <2> DEFINE x == [j \in 1 .. n |-> recs[j].val]
  <2>1. \A j \in 1 .. n : Collected(g[j - 1]) \cup {x[j]} \subseteq Collected(g[j])
    BY <1>4
  <2>2. \A j \in 1 .. n : x[j] \in Collected(g[n])
    <3> HIDE DEF x, n
    <3> QED BY <1>1, <2>1, CollectedAll
  <2> QED BY <2>2
<1>8. Times(recs) \subseteq {recs[j].val : j \in 1 .. n}
  BY <1>1 DEF Times
<1>9. g[n] \in A
  <2> HIDE DEF A, n
  <2> QED BY <1>1, <1>3
<1> QED BY <1>2, <1>7, <1>8, <1>9

-----------------------------------------------------------------------------
(* The inductive invariant.                                                *)

\* toSave is a map for every connection, and the name comes first.
Shape ==
    /\ toSave = [c \in Conn |-> toSave[c]]
    /\ \A c \in Conn : \A k \in DOMAIN rest[c] : rest[c][k].kind = "name" => k = 1

\* Once the name of a packet is read, the handler's name is that of the tracker
\* that spoke last, or the registry did not give it back.
NameIsOwn(c) ==
    /\ HasName(rest[c]) => rest[c][1].val = speaker[c] /\ pc[c] \in {"parse", "gone"}
    /\ ~HasName(rest[c]) => name[c] \in {speaker[c], NoName}
    /\ pc[c] = "save" => name[c] \in Device

\* What is collected is the tracker's that spoke last.
SumsAreOwn(c) ==
    pc[c] = "save" => \A d \in DOMAIN toSave[c] : \A i \in DOMAIN toSave[c][d] :
                         toSave[c][d][i].dev = speaker[c]

\* Where the records of a packet are that was not cut short.
AccountedAt(c) ==
    /\ pc[c] = "parse" /\ parser = "Wialon" /\ IsWhole(input[c]) =>
          IsWhole(rest[c]) /\ Times(input[c]) \subseteq wrote[c] \cup Times(rest[c])
    /\ pc[c] = "parse" /\ parser = "M01" => rest[c] = input[c]
    /\ pc[c] = "save" =>
          Times(input[c]) \subseteq RecordsOf(errList[c]) \cup Filed(toSave[c])
    /\ pc[c] = "set" /\ result[c] = "ok" /\ IsWhole(input[c])
       /\ (\A d, e \in DOMAIN toSave[c] : d = e) => Times(input[c]) \subseteq wrote[c]

Handlers == \A c \in Conn : NameIsOwn(c) /\ SumsAreOwn(c) /\ AccountedAt(c)

Inv == TypeOK /\ Shape /\ Handlers /\ TracksAreOwn

-----------------------------------------------------------------------------
(* Items of a packet.                                                      *)

\* What an item may hold.
LEMMA ItemType ==
    ASSUME NEW i \in Item
    PROVE  /\ i.kind \in {"name", "rec", "bad", "skip"}
           /\ i.kind = "name" => i.val \in Device
           /\ i.kind # "name" => i \in Datum /\ i.val \in Nat
  BY DEF Item, Datum

\* The first item and the others.
LEMMA TailItems ==
    ASSUME NEW p \in Seq(Item), p # <<>>
    PROVE  /\ p[1] \in Item /\ Head(p) = p[1] /\ Tail(p) \in Seq(Item)
           /\ IsWhole(p) => IsWhole(Tail(p))
           /\ Times(p) \subseteq Times(Tail(p))
                \cup (IF p[1].kind = "rec" THEN {p[1].val} ELSE {})
<1>1. /\ Len(p) \in Nat \ {0} /\ DOMAIN p = 1 .. Len(p) /\ p[1] \in Item /\ Head(p) = p[1]
      /\ Tail(p) \in Seq(Item) /\ DOMAIN Tail(p) = 1 .. Len(p) - 1
      /\ \A k \in 1 .. Len(p) - 1 : Tail(p)[k] = p[k + 1]
  OBVIOUS
<1>2. IsWhole(p) => IsWhole(Tail(p))
  BY <1>1 DEF IsWhole
<1>3. ASSUME NEW k \in DOMAIN p, p[k].kind = "rec", k # 1
      PROVE  p[k].val \in Times(Tail(p))
  <2>1. k - 1 \in DOMAIN Tail(p) /\ Tail(p)[k - 1] = p[k]
    BY <1>1, <1>3
  <2> QED BY <1>3, <2>1 DEF Times
<1>4. ASSUME NEW k \in DOMAIN p, p[k].kind = "rec"
      PROVE  p[k].val \in Times(Tail(p)) \cup (IF p[1].kind = "rec" THEN {p[1].val} ELSE {})
  BY <1>3, <1>4
<1>5. \A t \in Times(p) : \E k \in DOMAIN p : p[k].kind = "rec" /\ t = p[k].val
  BY DEF Times
<1> QED BY <1>1, <1>2, <1>4, <1>5

\* After the first item there is no name.
LEMMA TailData ==
    ASSUME NEW p \in Seq(Item), p # <<>>, \A k \in DOMAIN p : p[k].kind = "name" => k = 1
    PROVE  Tail(p) \in Seq(Datum) /\ ~HasName(Tail(p))
           /\ \A k \in DOMAIN Tail(p) : Tail(p)[k].kind # "name"
<1>1. /\ Len(p) \in Nat \ {0} /\ DOMAIN p = 1 .. Len(p)
      /\ Tail(p) \in Seq(Item) /\ DOMAIN Tail(p) = 1 .. Len(p) - 1
      /\ \A k \in 1 .. Len(p) - 1 : Tail(p)[k] = p[k + 1]
  OBVIOUS
<1>2. ASSUME NEW k \in DOMAIN Tail(p) PROVE Tail(p)[k].kind # "name" /\ Tail(p)[k] \in Datum
  <2>1. k + 1 \in DOMAIN p /\ Tail(p)[k] = p[k + 1] /\ k + 1 # 1 /\ p[k + 1] \in Item
    BY <1>1
  <2> QED BY <2>1, ItemType
<1>3. Tail(p) \in Seq(Datum)
  <2>1. \A q \in Seq(Item) : (\A k \in DOMAIN q : q[k] \in Datum) => q \in Seq(Datum)
    OBVIOUS
  <2> QED BY <1>1, <1>2, <2>1
<1>4. ~HasName(Tail(p))
  BY <1>1, <1>2 DEF HasName
<1> QED BY <1>2, <1>3, <1>4

\* The record loop comes to the end, or to what is malformed.
LEMMA BeforeBadType ==
    ASSUME NEW p \in Seq(Datum)
    PROVE  BeforeBad(p) \in Seq(Datum) /\ (IsWhole(p) => BeforeBad(p) = p)
<1> DEFINE bad == {k \in DOMAIN p : p[k].kind = "bad"}
           first == CHOOSE k \in bad : \A j \in bad : k <= j
<1>1. CASE bad = {}
  BY <1>1 DEF BeforeBad
<1>2. CASE bad # {}
  <2>1. Len(p) \in Nat /\ DOMAIN p = 1 .. Len(p)
    OBVIOUS
  <2>2. \E k \in bad : \A j \in bad : k <= j
    <3>1. bad \in SUBSET Nat
      BY <2>1
    <3> HIDE DEF bad
    <3> QED BY <1>2, <3>1, Least
  <2>3. first \in bad
    <3> HIDE DEF bad
    <3> QED BY <2>2
  <2>4. first - 1 \in 0 .. Len(p)
    BY <2>1, <2>3
  <2>5. BeforeBad(p) = SubSeq(p, 1, first - 1)
    BY <1>2 DEF BeforeBad
  <2>6. SubSeq(p, 1, first - 1) \in Seq(Datum)
    <3> HIDE DEF first, bad
    <3> QED BY <2>1, <2>4
  <2>7. ~IsWhole(p)
    BY <1>2 DEF IsWhole
  <2> QED BY <2>5, <2>6, <2>7
<1> QED BY <1>1, <1>2

\* What M01 makes of a form.
LEMMA FormKept ==
    ASSUME TypeOK, Shape, NEW c \in Conn, NameIsOwn(c), HasName(rest[c])
    PROVE  LET kept == Kept(c, BeforeBad(Tail(rest[c]))) IN
           /\ rest[c][1].val = speaker[c] /\ speaker[c] \in Device
           /\ kept.last \in Nat /\ kept.errs \in Seq(Own(c)) /\ kept.save \in Days(Own(c))
           /\ IsWhole(rest[c]) =>
                 Times(rest[c]) \subseteq RecordsOf(kept.errs) \cup Filed(kept.save)
<1> DEFINE p == Tail(rest[c])
           recs == BeforeBad(p)
           kept == Kept(c, recs)
<1>1. /\ rest[c] \in Seq(Item) /\ rest[c] # <<>> /\ rest[c][1].kind = "name"
      /\ \A k \in DOMAIN rest[c] : rest[c][k].kind = "name" => k = 1
      /\ speaker[c] \in Name /\ last[c] \in Nat
  BY DEF TypeOK, Shape, HasName
<1>2. p \in Seq(Datum)
  BY <1>1, TailData
<1>3. recs \in Seq(Datum) /\ (IsWhole(p) => recs = p)
  BY <1>2, BeforeBadType
<1>4. rest[c][1] \in Item /\ (IsWhole(rest[c]) => IsWhole(p)) /\ Times(rest[c]) \subseteq Times(p)
  BY <1>1, TailItems
<1>5. rest[c][1].val = speaker[c] /\ speaker[c] \in Device
  BY <1>1, <1>4, ItemType DEF NameIsOwn
<1> HIDE DEF p, recs
<1>6. kept \in Sums(Own(c)) /\ Times(recs) \subseteq Collected(kept)
  BY <1>1, <1>3, KeptAll
<1> HIDE DEF kept
<1>7. kept.last \in Nat /\ kept.errs \in Seq(Own(c)) /\ kept.save \in Days(Own(c))
  BY <1>6 DEF Sums
<1>8. IsWhole(rest[c]) => Times(rest[c]) \subseteq RecordsOf(kept.errs) \cup Filed(kept.save)
  BY <1>3, <1>4, <1>6 DEF Collected
<1> QED BY <1>5, <1>7, <1>8 DEF kept, recs, p

-----------------------------------------------------------------------------
(* Every variable keeps its type, and the name stays first.                *)

\* An entry of the tracker that spoke last is an entry.
LEMMA OwnIsEntry ==
    ASSUME NEW c \in Conn
    PROVE  /\ \A s \in Seq(Own(c)) : s \in Seq(Entry)
           /\ \A m \in Days(Own(c)) : \A d \in DOMAIN m :
                 d \in Nat /\ m[d] \in Seq(Entry) \ {<<>>}
<1>1. \A S \in SUBSET Entry : \A s \in Seq(S) : s \in Seq(Entry)
  OBVIOUS
<1>2. Own(c) \in SUBSET Entry
  BY DEF Own
<1>3. \A s \in Seq(Own(c)) : s \in Seq(Entry)
  BY <1>1, <1>2
<1>4. ASSUME NEW m \in Days(Own(c)), NEW d \in DOMAIN m
      PROVE  d \in Nat /\ m[d] \in Seq(Own(c)) \ {<<>>}
  <2>1. PICK D \in SUBSET Nat : m \in [D -> Seq(Own(c)) \ {<<>>}]
    BY DEF Days
  <2> QED BY <2>1
<1> QED BY <1>3, <1>4

\* The records of entries are times.
LEMMA RecordsAreTimes == ASSUME NEW s \in Seq(Entry) PROVE RecordsOf(s) \subseteq Nat
<1> SUFFICES ASSUME NEW i \in DOMAIN s PROVE s[i].rec \in Nat
  BY DEF RecordsOf
<1>1. s[i] \in Entry
  OBVIOUS
<1> QED BY <1>1 DEF Entry

\* A file stays a list of entries.
LEMMA FileType ==
    ASSUME NEW K, NEW m, NEW k \in K, NEW s \in Seq(Entry),
           \A x \in DOMAIN m : x \in K /\ m[x] \in Seq(Entry)
    PROVE  \A x \in DOMAIN AppendTo(m, k, s) :
              x \in K /\ AppendTo(m, k, s)[x] \in Seq(Entry)
  BY AppendToType

\* Every variable keeps its type.
LEMMA TypeNext == Inv /\ [Next]_vars => TypeOK' /\ Shape'
<1> SUFFICES ASSUME Inv, [Next]_vars PROVE TypeOK' /\ Shape'
  OBVIOUS
<1>0. /\ TypeOK /\ Shape
      /\ \A c \in Conn : NameIsOwn(c)
  BY DEF Inv, Handlers
<1> USE DEF Goes, work, peers, files
<1>1. ASSUME NEW c \in Conn, Connect(c) PROVE TypeOK' /\ Shape'
  BY <1>0, <1>1 DEF Connect, TypeOK, Shape, Pcs
<1>2. ASSUME NEW c \in Conn, Disconnect(c) PROVE TypeOK' /\ Shape'
  BY <1>0, <1>2 DEF Disconnect, TypeOK, Shape, Pcs
<1>3. ASSUME NEW c \in Conn, NEW p \in Packet, Receive(c, p) PROVE TypeOK' /\ Shape'
  <2>1. p \in Seq(Item) /\ \A k \in DOMAIN p : p[k].kind = "name" => k = 1
    OBVIOUS
  <2>2. HasName(p) => p[1].val \in Device
    <3>1. HasName(p) => p[1] \in Item
      BY <2>1 DEF HasName
    <3> QED BY <3>1, ItemType DEF HasName
  <2>3. /\ packets' \in 0 .. MaxPackets /\ pc' \in [Conn -> Pcs]
        /\ input' \in [Conn -> Seq(Item)] /\ rest' \in [Conn -> Seq(Item)]
        /\ UNCHANGED <<parser, errList, toSave, wrote, result, ahead, registry, track, errors>>
    BY <1>0, <1>3, <2>1 DEF Receive, TypeOK, Pcs
  <2>4. name' \in [Conn -> Name] /\ last' \in [Conn -> Nat]
    <3> DEFINE known == name[c] \in DOMAIN registry
               n == IF known THEN name[c] ELSE NoName
               l == IF known THEN registry[name[c]]
                    ELSE IF name[c] = NoName THEN last[c] ELSE 0
    <3>1. n \in Name /\ l \in Nat
      BY <1>0 DEF TypeOK, Name
    <3>2. name' = [name EXCEPT ![c] = n] /\ last' = [last EXCEPT ![c] = l]
      BY <1>0, <1>3 DEF Receive, TypeOK
    <3> HIDE DEF n, l
    <3> QED BY <1>0, <3>1, <3>2 DEF TypeOK
  <2>5. speaker' \in [Conn -> Name]
    BY <1>0, <1>3, <2>2 DEF Receive, TypeOK, Name
  <2>6. heard' \in [Conn -> SUBSET Name]
    BY <1>0, <1>3, <2>5 DEF Receive, TypeOK
  <2>7. Shape'
    BY <1>0, <1>3, <2>1 DEF Receive, Shape, TypeOK
  <2> QED BY <1>0, <2>3, <2>4, <2>5, <2>6, <2>7 DEF TypeOK
<1>4. ASSUME NEW c \in Conn, NEW kind \in {"name", "rec", "skip", "bad"}, NextItem(c, kind)
      PROVE  /\ rest' \in [Conn -> Seq(Item)]
             /\ \A x \in Conn : \A k \in DOMAIN rest'[x] : rest'[x][k].kind = "name" => k = 1
             /\ Head(rest[c]) \in Item
  <2>1. rest[c] \in Seq(Item) /\ rest[c] # <<>>
    BY <1>0, <1>4 DEF NextItem, TypeOK
  <2>2. Tail(rest[c]) \in Seq(Item) /\ \A k \in DOMAIN Tail(rest[c]) : Tail(rest[c])[k].kind # "name"
    BY <1>0, <2>1, TailData, TailItems DEF Shape
  <2>3. rest' = [rest EXCEPT ![c] = <<>>] \/ rest' = [rest EXCEPT ![c] = Tail(rest[c])]
    BY <1>0, <1>4 DEF NextItem, TypeOK
  <2>4. Head(rest[c]) \in Item /\ rest \in [Conn -> Seq(Item)] /\ <<>> \in Seq(Item)
    BY <1>0, <2>1, TailItems DEF TypeOK
  <2>5. \A k \in DOMAIN <<>> : FALSE
    OBVIOUS
  <2>6. \E q \in Seq(Item) : /\ rest' = [rest EXCEPT ![c] = q]
                            /\ \A k \in DOMAIN q : q[k].kind # "name"
    BY <2>2, <2>3, <2>4, <2>5
  <2> QED BY <1>0, <2>4, <2>6 DEF Shape
<1>5. ASSUME NEW c \in Conn, NameItem(c) PROVE TypeOK' /\ Shape'
  <2>1. Head(rest[c]).val \in Device
    BY <1>4, <1>5, ItemType DEF NameItem, NextItem
  <2> QED BY <1>0, <1>4, <1>5, <2>1 DEF NameItem, TypeOK, Shape, Name
<1>6. ASSUME NEW c \in Conn, OtherItem(c) PROVE TypeOK' /\ Shape'
  BY <1>0, <1>4, <1>6 DEF OtherItem, TypeOK, Shape
<1>7. ASSUME NEW c \in Conn, RecordItem(c) PROVE TypeOK' /\ Shape'
  <2> DEFINE t == Head(rest[c]).val
             e == EntryOf(c, last[c], t)
  <2>1. t \in Nat /\ name[c] \in Name /\ last[c] \in Nat /\ speaker[c] \in Name
    BY <1>0, <1>4, <1>7, ItemType DEF RecordItem, NextItem, TypeOK
  <2>2. e \in Entry
    BY <2>1, OwnEntry DEF Own
  <2>3. Day(t) \in Nat /\ <<Day(t), name[c]>> \in Nat \X Name
    BY <2>1 DEF Day
  <2>4. /\ rest' \in [Conn -> Seq(Item)]
        /\ \A x \in Conn : \A k \in DOMAIN rest'[x] : rest'[x][k].kind = "name" => k = 1
        /\ UNCHANGED <<parser, pc, name, input, errList, toSave, result, packets, speaker,
                       heard, ahead, registry>>
        /\ wrote' = [wrote EXCEPT ![c] = @ \cup {t}]
        /\ \/ /\ last' = [last EXCEPT ![c] = t] /\ errors' = errors
              /\ track' = AppendTo(track, <<Day(t), name[c]>>, <<e>>)
           \/ /\ errors' = AppendTo(errors, name[c], <<e>>) /\ UNCHANGED <<last, track>>
    BY <1>4, <1>7 DEF RecordItem
  <2> HIDE DEF t, e
  <2>5. <<e>> \in Seq(Entry)
    BY <2>2
  <2>6. \A k \in DOMAIN track' : k \in Nat \X Name /\ track'[k] \in Seq(Entry)
    <3>1. \A k \in DOMAIN track : k \in Nat \X Name /\ track[k] \in Seq(Entry)
      BY <1>0 DEF TypeOK
    <3> DEFINE key == <<Day(t), name[c]>>
               K == Nat \X Name
    <3>2. key \in K
      BY <2>3
    <3>3. track' = AppendTo(track, key, <<e>>) \/ track' = track
      BY <2>4
    <3> HIDE DEF key
    <3>4. \A k \in DOMAIN track' : k \in K /\ track'[k] \in Seq(Entry)
      <4> DEFINE s == <<e>>
      <4>1. s \in Seq(Entry)
        BY <2>5
      <4>2. \A k \in DOMAIN track : k \in K /\ track[k] \in Seq(Entry)
        BY <3>1
      <4> HIDE DEF K, s
      <4>3. \A x \in DOMAIN AppendTo(track, key, s) :
               x \in K /\ AppendTo(track, key, s)[x] \in Seq(Entry)
        BY <3>2, <4>1, <4>2, FileType
      <4> QED BY <3>3, <4>2, <4>3 DEF s
    <3> QED BY <3>4
  <2>7. \A n \in DOMAIN errors' : n \in Name /\ errors'[n] \in Seq(Entry)
    <3>1. \A n \in DOMAIN errors : n \in Name /\ errors[n] \in Seq(Entry)
      BY <1>0 DEF TypeOK
    <3> QED BY <2>1, <2>4, <2>5, <3>1, FileType
  <2>8. last' \in [Conn -> Nat] /\ wrote' \in [Conn -> SUBSET Nat]
    <3>1. last \in [Conn -> Nat] /\ wrote \in [Conn -> SUBSET Nat] /\ wrote[c] \cup {t} \subseteq Nat
      BY <1>0, <2>1 DEF TypeOK
    <3>2. wrote' = [wrote EXCEPT ![c] = wrote[c] \cup {t}]
      BY <2>4, <3>1
    <3>3. last' = last \/ last' = [last EXCEPT ![c] = t]
      BY <2>4
    <3>4. last' \in [Conn -> Nat]
      BY <2>1, <3>1, <3>3
    <3> QED BY <3>1, <3>2, <3>4
  <2> QED BY <1>0, <2>4, <2>6, <2>7, <2>8 DEF TypeOK, Shape
<1>8. ASSUME NEW c \in Conn, SaveIsFatal(c) PROVE TypeOK' /\ Shape'
  <2>1. pc' \in [Conn -> Pcs] /\ registry' = Empty
    BY <1>0, <1>8 DEF SaveIsFatal, ProcessEnds, TypeOK, Pcs
  <2>2. DOMAIN Empty = {}
    BY DEF Empty
  <2> QED BY <1>0, <1>4, <1>8, <2>1, <2>2 DEF SaveIsFatal, TypeOK, Shape
<1>9. ASSUME NEW c \in Conn, EndOfItems(c) PROVE TypeOK' /\ Shape'
  BY <1>0, <1>9 DEF EndOfItems, TypeOK, Shape, Pcs
<1>10. ASSUME NEW c \in Conn, NoForm(c) PROVE TypeOK' /\ Shape'
  BY <1>0, <1>10 DEF NoForm, TypeOK, Shape, Pcs
<1>11. ASSUME NEW c \in Conn, ParseForm(c) PROVE TypeOK' /\ Shape'
  <2> DEFINE kept == Kept(c, BeforeBad(Tail(rest[c])))
             d == rest[c][1].val
  <2>1. /\ d \in Device /\ kept.last \in Nat
        /\ kept.errs \in Seq(Entry)
        /\ \A x \in DOMAIN kept.save : x \in Nat /\ kept.save[x] \in Seq(Entry) \ {<<>>}
    BY <1>0, <1>11, FormKept, OwnIsEntry DEF ParseForm
  <2>2. /\ pc' \in [Conn -> Pcs]
        /\ name' = [name EXCEPT ![c] = d] /\ last' = [last EXCEPT ![c] = kept.last]
        /\ rest' = [rest EXCEPT ![c] = <<>>]
        /\ UNCHANGED <<parser, input, wrote, packets, speaker, heard, registry, track, errors>>
        /\ \/ /\ errList' = [errList EXCEPT ![c] = kept.errs]
              /\ toSave' = [toSave EXCEPT ![c] = kept.save]
              /\ UNCHANGED <<result, ahead>>
           \/ /\ result' = [result EXCEPT ![c] = "bad"]
              /\ ahead' = ahead \cup {<<d, kept.last>>}
              /\ UNCHANGED <<errList, toSave>>
    BY <1>0, <1>11 DEF ParseForm, TypeOK, Pcs
  <2> HIDE DEF kept, d
  <2>3. name' \in [Conn -> Name] /\ last' \in [Conn -> Nat] /\ rest' \in [Conn -> Seq(Item)]
        /\ errList' \in [Conn -> Seq(Entry)] /\ result' \in [Conn -> {"ok", "bad"}]
        /\ ahead' \subseteq Device \X Nat
    <3>1. name' \in [Conn -> Name] /\ last' \in [Conn -> Nat] /\ rest' \in [Conn -> Seq(Item)]
      BY <1>0, <2>1, <2>2 DEF TypeOK, Name
    <3>2. errList' = errList \/ errList' = [errList EXCEPT ![c] = kept.errs]
      BY <2>2
    <3>3. errList' \in [Conn -> Seq(Entry)]
      BY <1>0, <2>1, <3>2 DEF TypeOK
    <3>4. result' \in [Conn -> {"ok", "bad"}]
      BY <1>0, <2>2 DEF TypeOK
    <3>5. ahead' \subseteq Device \X Nat
      BY <1>0, <2>1, <2>2 DEF TypeOK
    <3> QED BY <3>1, <3>3, <3>4, <3>5
  <2>4. /\ toSave' = [x \in Conn |-> toSave'[x]]
        /\ \A x \in Conn : \A k \in DOMAIN toSave'[x] :
              k \in Nat /\ toSave'[x][k] \in Seq(Entry) \ {<<>>}
    <3>1. toSave' = toSave \/ toSave' = [toSave EXCEPT ![c] = kept.save]
      BY <2>2
    <3>2. /\ toSave = [x \in Conn |-> toSave[x]]
          /\ \A x \in Conn : \A k \in DOMAIN toSave[x] :
                k \in Nat /\ toSave[x][k] \in Seq(Entry) \ {<<>>}
      BY <1>0 DEF TypeOK, Shape
    <3> QED BY <2>1, <3>1, <3>2
  <2>5. \A x \in Conn : \A k \in DOMAIN rest'[x] : rest'[x][k].kind = "name" => k = 1
    BY <1>0, <2>2 DEF Shape, TypeOK
  <2> QED BY <1>0, <2>2, <2>3, <2>4, <2>5 DEF TypeOK, Shape
<1>12. ASSUME NEW c \in Conn PROVE errors' = errors \/ ErrorsSaved(c) =>
         \A n \in DOMAIN errors' : n \in Name /\ errors'[n] \in Seq(Entry)
  <2>1. /\ \A n \in DOMAIN errors : n \in Name /\ errors[n] \in Seq(Entry)
        /\ name[c] \in Name /\ errList[c] \in Seq(Entry)
    BY <1>0 DEF TypeOK
  <2>2. errors' = errors \/ ErrorsSaved(c) =>
          errors' = errors \/ errors' = AppendTo(errors, name[c], errList[c])
    BY DEF ErrorsSaved
  <2> QED BY <2>1, <2>2, FileType
<1>13. ASSUME NEW c \in Conn, SaveLists(c) PROVE TypeOK' /\ Shape'
  <2>1. name[c] \in Device /\ last[c] \in Nat /\ name[c] \in Name /\ errList[c] \in Seq(Entry)
    BY <1>0, <1>13 DEF SaveLists, NameIsOwn, TypeOK
  <2>2. /\ \A k \in DOMAIN track' : k \in Nat \X Name /\ track'[k] \in Seq(Entry)
        /\ wrote' \in [Conn -> SUBSET Nat]
    <3>1. CASE DOMAIN toSave[c] = {}
      <4>1. track' = track /\ wrote' = [wrote EXCEPT ![c] = RecordsOf(errList[c])]
        BY <1>13, <3>1 DEF SaveLists
      <4>2. RecordsOf(errList[c]) \subseteq Nat
        BY <2>1, RecordsAreTimes
      <4> QED BY <1>0, <4>1, <4>2 DEF TypeOK
    <3>2. CASE DOMAIN toSave[c] # {}
      <4>1. PICK d \in DOMAIN toSave[c] :
              /\ track' = AppendTo(track, <<d, name[c]>>, toSave[c][d])
              /\ wrote' = [wrote EXCEPT
                             ![c] = RecordsOf(errList[c]) \cup RecordsOf(toSave[c][d])]
        BY <1>13, <3>2 DEF SaveLists
      <4>2. /\ toSave[c][d] \in Seq(Entry) /\ <<d, name[c]>> \in Nat \X Name
            /\ \A k \in DOMAIN track : k \in Nat \X Name /\ track[k] \in Seq(Entry)
        BY <1>0, <2>1, <4>1 DEF TypeOK
      <4>3. RecordsOf(errList[c]) \cup RecordsOf(toSave[c][d]) \subseteq Nat
        BY <2>1, <4>2, RecordsAreTimes
      <4>4. wrote' \in [Conn -> SUBSET Nat]
        BY <1>0, <4>1, <4>3 DEF TypeOK
      <4> QED BY <4>1, <4>2, <4>4, FileType
    <3> QED BY <3>1, <3>2
  <2>3. /\ pc' \in [Conn -> Pcs] /\ ahead' \subseteq Device \X Nat
        /\ UNCHANGED <<parser, name, last, input, rest, errList, toSave, result, packets,
                       speaker, heard, registry>>
    BY <1>0, <1>13, <2>1 DEF SaveLists, TypeOK, Pcs
  <2>4. \A n \in DOMAIN errors' : n \in Name /\ errors'[n] \in Seq(Entry)
    BY <1>12, <1>13 DEF SaveLists
  <2> QED BY <1>0, <2>2, <2>3, <2>4 DEF TypeOK, Shape
<1>14. ASSUME NEW c \in Conn, SaveFails(c) PROVE TypeOK' /\ Shape'
  <2>1. name[c] \in Device /\ last[c] \in Nat
    BY <1>0, <1>14 DEF SaveFails, NameIsOwn, TypeOK
  <2>2. \A n \in DOMAIN errors' : n \in Name /\ errors'[n] \in Seq(Entry)
    BY <1>12, <1>14 DEF SaveFails
  <2>3. /\ pc' \in [Conn -> Pcs] /\ ahead' \subseteq Device \X Nat /\ result' \in [Conn -> {"ok", "bad"}]
        /\ UNCHANGED <<parser, name, last, input, rest, errList, toSave, wrote, packets,
                       speaker, heard, registry, track>>
    BY <1>0, <1>14, <2>1 DEF SaveFails, TypeOK, Pcs
  <2> QED BY <1>0, <2>2, <2>3 DEF TypeOK, Shape
<1>15. ASSUME NEW c \in Conn, SetAndReply(c) PROVE TypeOK' /\ Shape'
  <2>1. \A n \in DOMAIN registry' : n \in Device /\ registry'[n] \in Nat
    <3>1. /\ name[c] # NoName => name[c] \in Device
          /\ last[c] \in Nat /\ \A n \in DOMAIN registry : n \in Device /\ registry[n] \in Nat
      BY <1>0 DEF TypeOK, Name
    <3>2. registry' = IF name[c] = NoName THEN registry ELSE Put(registry, name[c], last[c])
      BY <1>15 DEF SetAndReply
    <3>3. CASE name[c] = NoName
      BY <3>1, <3>2, <3>3
    <3>4. CASE name[c] # NoName
      BY <3>1, <3>2, <3>4 DEF Put
    <3> QED BY <3>3, <3>4
  <2>2. DOMAIN Empty = {}
    BY DEF Empty
  <2>3. /\ toSave' = [x \in Conn |-> toSave'[x]]
        /\ \A x \in Conn : \A k \in DOMAIN toSave'[x] :
              k \in Nat /\ toSave'[x][k] \in Seq(Entry) \ {<<>>}
    BY <1>0, <1>15, <2>2 DEF SetAndReply, TypeOK, Shape
  <2>4. /\ pc' \in [Conn -> Pcs]
        /\ input' \in [Conn -> Seq(Item)] /\ rest' \in [Conn -> Seq(Item)]
        /\ errList' \in [Conn -> Seq(Entry)] /\ wrote' \in [Conn -> SUBSET Nat]
        /\ result' \in [Conn -> {"ok", "bad"}]
        /\ \A x \in Conn : \A k \in DOMAIN rest'[x] : rest'[x][k].kind = "name" => k = 1
        /\ UNCHANGED <<parser, name, last, packets, speaker, heard, ahead, track, errors>>
    BY <1>0, <1>15 DEF SetAndReply, TypeOK, Shape, Pcs
  <2> QED BY <1>0, <2>1, <2>3, <2>4 DEF TypeOK, Shape
<1>16. CASE ResetRegistry
  <2>1. DOMAIN Empty = {}
    BY DEF Empty
  <2> QED BY <1>0, <1>16, <2>1 DEF ResetRegistry, TypeOK, Shape
<1>17. CASE UNCHANGED vars
  BY <1>0, <1>17 DEF vars, TypeOK, Shape
<1> QED BY <1>1, <1>2, <1>3, <1>5, <1>6, <1>7, <1>8, <1>9, <1>10, <1>11, <1>13, <1>14,
           <1>15, <1>16, <1>17 DEF Next, HandlerStep, Exhausted

-----------------------------------------------------------------------------
(* Names, what is collected, and where the records of a packet are.        *)

\* A step of another connection, or of none, leaves a handler alone.
LEMMA Frame ==
    ASSUME NEW k \in Conn, NameIsOwn(k), SumsAreOwn(k), AccountedAt(k), parser' = parser,
           pc'[k] = pc[k], name'[k] = name[k], input'[k] = input[k], rest'[k] = rest[k],
           errList'[k] = errList[k], toSave'[k] = toSave[k], wrote'[k] = wrote[k],
           result'[k] = result[k], speaker'[k] = speaker[k]
    PROVE  NameIsOwn(k)' /\ SumsAreOwn(k)' /\ AccountedAt(k)'
<1>1. NameIsOwn(k)'
  BY DEF NameIsOwn
<1>2. SumsAreOwn(k)'
  BY DEF SumsAreOwn
<1>3. AccountedAt(k)'
  BY DEF AccountedAt
<1> QED BY <1>1, <1>2, <1>3

\* Every handler keeps its name, its sums and its records.
LEMMA HandlersNext == Inv /\ [Next]_vars => Handlers'
<1> SUFFICES ASSUME Inv, [Next]_vars, NEW k \in Conn
             PROVE  NameIsOwn(k)' /\ SumsAreOwn(k)' /\ AccountedAt(k)'
  BY DEF Handlers
<1> DEFINE Good == NameIsOwn(k)' /\ SumsAreOwn(k)' /\ AccountedAt(k)'
           Same == /\ parser' = parser
                   /\ pc'[k] = pc[k] /\ name'[k] = name[k] /\ input'[k] = input[k]
                   /\ rest'[k] = rest[k] /\ errList'[k] = errList[k]
                   /\ toSave'[k] = toSave[k] /\ wrote'[k] = wrote[k]
                   /\ result'[k] = result[k] /\ speaker'[k] = speaker[k]
<1>0. /\ NameIsOwn(k) /\ SumsAreOwn(k) /\ AccountedAt(k)
      /\ TypeOK /\ Shape /\ parser \in {"Wialon", "M01"}
      /\ pc \in [Conn -> Pcs] /\ name \in [Conn -> Name]
      /\ input \in [Conn -> Seq(Item)] /\ rest \in [Conn -> Seq(Item)]
      /\ errList \in [Conn -> Seq(Entry)] /\ toSave = [c \in Conn |-> toSave[c]]
      /\ wrote \in [Conn -> SUBSET Nat] /\ result \in [Conn -> {"ok", "bad"}]
      /\ speaker \in [Conn -> Name]
      /\ \A j \in DOMAIN rest[k] : rest[k][j].kind = "name" => j = 1
  BY DEF Inv, Handlers, TypeOK, Shape
<1>N. ~HasName(<<>>) /\ Times(<<>>) = {}
  BY DEF HasName, Times
<1> USE DEF Goes, work, peers, files
\* a step of another connection, or of none
<1>1. ASSUME Same PROVE Good
  BY <1>0, <1>1, Frame
<1>2. ASSUME NEW c \in Conn, c # k, Connect(c) \/ Disconnect(c) PROVE Same
  BY <1>0, <1>2 DEF Connect, Disconnect
<1>3. ASSUME NEW c \in Conn, c # k, NEW p \in Packet, Receive(c, p) PROVE Same
  BY <1>0, <1>3 DEF Receive
<1>4. ASSUME NEW c \in Conn, c # k, NameItem(c) \/ RecordItem(c) \/ OtherItem(c) \/ EndOfItems(c)
      PROVE  Same
  BY <1>0, <1>4 DEF NameItem, RecordItem, OtherItem, EndOfItems, NextItem
<1>5. ASSUME NEW c \in Conn, c # k, NoForm(c) \/ ParseForm(c) PROVE Same
  BY <1>0, <1>5 DEF NoForm, ParseForm
<1>6. ASSUME NEW c \in Conn, c # k, SaveLists(c) \/ SaveFails(c) \/ SetAndReply(c) PROVE Same
  BY <1>0, <1>6 DEF SaveLists, SaveFails, SetAndReply
<1>7. ASSUME ResetRegistry \/ UNCHANGED vars PROVE Same
  BY <1>7 DEF ResetRegistry, vars
\* the item a step of Wialon takes
<1>8. ASSUME NEW kind \in {"name", "rec", "skip", "bad"}, NextItem(k, kind)
       PROVE  /\ pc[k] = "parse" /\ parser = "Wialon" /\ rest[k] # <<>>
              /\ rest[k] \in Seq(Item) /\ Head(rest[k]) = rest[k][1] /\ rest[k][1].kind = kind
              /\ rest'[k] \in {<<>>, Tail(rest[k])} /\ (kind # "bad" => rest'[k] = Tail(rest[k]))
              /\ ~HasName(rest'[k])
              /\ HasName(rest[k]) <=> kind = "name"
              /\ IsWhole(rest[k]) => kind # "bad" /\ IsWhole(rest'[k])
              /\ Times(rest[k]) \subseteq Times(Tail(rest[k]))
                   \cup (IF kind = "rec" THEN {rest[k][1].val} ELSE {})
  <2>1. /\ pc[k] = "parse" /\ parser = "Wialon" /\ rest[k] # <<>> /\ Head(rest[k]).kind = kind
        /\ rest'[k] = IF kind = "bad" THEN <<>> ELSE Tail(rest[k])
    BY <1>0, <1>8 DEF NextItem
  <2>2. /\ rest[k] \in Seq(Item) /\ Head(rest[k]) = rest[k][1]
        /\ IsWhole(rest[k]) => IsWhole(Tail(rest[k]))
        /\ Times(rest[k]) \subseteq Times(Tail(rest[k]))
             \cup (IF rest[k][1].kind = "rec" THEN {rest[k][1].val} ELSE {})
    BY <1>0, <2>1, TailItems
  <2>3. ~HasName(Tail(rest[k]))
    BY <1>0, <2>1, TailData
  <2>4. IsWhole(rest[k]) => rest[k][1].kind # "bad"
    <3>1. 1 \in DOMAIN rest[k]
      BY <2>1, <2>2
    <3> QED BY <3>1 DEF IsWhole
  <2> QED BY <1>N, <2>1, <2>2, <2>3, <2>4 DEF HasName
\* the process ends
<1>9. ASSUME NEW c \in Conn, SaveIsFatal(c) PROVE Good
  <2>1. /\ name'[k] = name[k] /\ speaker'[k] = speaker[k]
        /\ pc'[k] = "gone" \/ (pc'[k] = pc[k] /\ pc[k] = "unused")
    <3>1. pc' = [x \in Conn |-> IF Live(x) THEN "gone" ELSE pc[x]]
      BY <1>9 DEF SaveIsFatal, ProcessEnds
    <3>2. UNCHANGED <<name, speaker>>
      BY <1>9 DEF SaveIsFatal
    <3>3. pc'[k] = IF Live(k) THEN "gone" ELSE pc[k]
      BY <3>1, Zenon
    <3> QED BY <3>2, <3>3 DEF Live
  <2>2. rest'[k] = rest[k] \/ (~HasName(rest'[k]) /\ ~HasName(rest[k]))
    <3>1. CASE c = k
      BY <1>8, <1>9, <3>1 DEF SaveIsFatal
    <3>2. CASE c # k
      <4>1. \E q : rest' = [rest EXCEPT ![c] = q]
        BY <1>9 DEF SaveIsFatal, NextItem
      <4> QED BY <1>0, <3>2, <4>1
    <3> QED BY <3>1, <3>2
  <2>3. SumsAreOwn(k)' /\ AccountedAt(k)'
    BY <2>1 DEF SumsAreOwn, AccountedAt
  <2> QED BY <1>0, <2>1, <2>2, <2>3 DEF NameIsOwn
\* a step of this one
<1>10. ASSUME Connect(k) \/ Disconnect(k) PROVE Good
  <2>1. /\ pc[k] \in {"unused", "reading"} /\ pc'[k] \in {"reading", "gone"}
        /\ rest'[k] = rest[k] /\ name'[k] = name[k] /\ speaker'[k] = speaker[k]
    BY <1>0, <1>10 DEF Connect, Disconnect
  <2>2. SumsAreOwn(k)' /\ AccountedAt(k)'
    BY <2>1 DEF SumsAreOwn, AccountedAt
  <2> QED BY <1>0, <2>1, <2>2 DEF NameIsOwn
<1>11. ASSUME NEW p \in Packet, Receive(k, p) PROVE Good
  <2>1. /\ pc[k] = "reading" /\ pc'[k] = "parse" /\ rest'[k] = p /\ input'[k] = p
        /\ name'[k] \in {name[k], NoName}
        /\ speaker'[k] = IF HasName(p) THEN p[1].val ELSE speaker[k]
    BY <1>0, <1>11 DEF Receive
  <2>2. NameIsOwn(k)'
    BY <1>0, <2>1 DEF NameIsOwn
  <2> QED BY <2>1, <2>2 DEF SumsAreOwn, AccountedAt
<1>12. ASSUME NameItem(k) PROVE Good
  <2>1. NextItem(k, "name")
    BY <1>12 DEF NameItem
  <2>2. /\ pc'[k] = pc[k] /\ input'[k] = input[k] /\ wrote'[k] = wrote[k]
        /\ speaker'[k] = speaker[k] /\ parser' = parser /\ name'[k] = Head(rest[k]).val
    BY <1>0, <1>12 DEF NameItem
  <2>3. NameIsOwn(k)'
    BY <1>0, <1>8, <2>1, <2>2 DEF NameIsOwn
  <2>4. SumsAreOwn(k)'
    BY <1>8, <2>1, <2>2 DEF SumsAreOwn
  <2>5. AccountedAt(k)'
    BY <1>0, <1>8, <2>1, <2>2 DEF AccountedAt
  <2> QED BY <2>3, <2>4, <2>5
<1>13. ASSUME OtherItem(k) PROVE Good
  <2>1. PICK kind \in {"skip", "bad"} : NextItem(k, kind)
    BY <1>13 DEF OtherItem
  <2>2. /\ pc'[k] = pc[k] /\ input'[k] = input[k] /\ wrote'[k] = wrote[k]
        /\ speaker'[k] = speaker[k] /\ parser' = parser /\ name'[k] = name[k]
    BY <1>0, <1>13 DEF OtherItem
  <2>3. NameIsOwn(k)'
    BY <1>0, <1>8, <2>1, <2>2 DEF NameIsOwn
  <2>4. SumsAreOwn(k)'
    BY <1>8, <2>1, <2>2 DEF SumsAreOwn
  <2>5. AccountedAt(k)'
    BY <1>0, <1>8, <2>1, <2>2 DEF AccountedAt
  <2> QED BY <2>3, <2>4, <2>5
<1>14. ASSUME RecordItem(k) PROVE Good
  <2>1. NextItem(k, "rec")
    BY <1>14 DEF RecordItem
  <2>2. /\ pc'[k] = pc[k] /\ input'[k] = input[k]
        /\ wrote'[k] = wrote[k] \cup {Head(rest[k]).val}
        /\ speaker'[k] = speaker[k] /\ parser' = parser /\ name'[k] = name[k]
    BY <1>0, <1>14 DEF RecordItem
  <2>3. NameIsOwn(k)'
    BY <1>0, <1>8, <2>1, <2>2 DEF NameIsOwn
  <2>4. SumsAreOwn(k)'
    BY <1>8, <2>1, <2>2 DEF SumsAreOwn
  <2>5. AccountedAt(k)'
    BY <1>0, <1>8, <2>1, <2>2 DEF AccountedAt
  <2> QED BY <2>3, <2>4, <2>5
<1>15. ASSUME EndOfItems(k) PROVE Good
  <2>1. /\ parser = "Wialon" /\ rest[k] = <<>> /\ pc[k] = "parse" /\ pc'[k] = "set"
        /\ input'[k] = input[k] /\ wrote'[k] = wrote[k] /\ rest'[k] = rest[k]
        /\ speaker'[k] = speaker[k] /\ name'[k] = name[k]
    BY <1>0, <1>15 DEF EndOfItems
  <2>2. NameIsOwn(k)'
    BY <1>0, <1>N, <2>1 DEF NameIsOwn
  <2> QED BY <1>0, <1>N, <2>1, <2>2 DEF SumsAreOwn, AccountedAt
<1>16. ASSUME NoForm(k) PROVE Good
  <2>1. /\ ~HasName(rest[k]) /\ pc'[k] = "set" /\ result'[k] = "bad"
        /\ rest'[k] = rest[k] /\ speaker'[k] = speaker[k] /\ name'[k] = name[k]
    BY <1>0, <1>16 DEF NoForm
  <2> QED BY <1>0, <2>1 DEF NameIsOwn, SumsAreOwn, AccountedAt
<1>17. ASSUME ParseForm(k) PROVE Good
  <2> DEFINE kept == Kept(k, BeforeBad(Tail(rest[k])))
  <2>1. /\ parser = "M01" /\ pc[k] = "parse" /\ HasName(rest[k]) /\ rest'[k] = <<>>
        /\ name'[k] = rest[k][1].val /\ speaker'[k] = speaker[k] /\ input'[k] = input[k]
        /\ \/ /\ IsWhole(rest[k]) /\ pc'[k] = "save"
              /\ errList'[k] = kept.errs /\ toSave'[k] = kept.save
           \/ pc'[k] = "set" /\ result'[k] = "bad"
    BY <1>0, <1>17 DEF ParseForm
  <2>2. /\ rest[k][1].val = speaker[k] /\ speaker[k] \in Device
        /\ kept.save \in Days(Own(k))
        /\ IsWhole(rest[k]) =>
              Times(rest[k]) \subseteq RecordsOf(kept.errs) \cup Filed(kept.save)
    BY <1>0, <2>1, FormKept
  <2>3. \A d \in DOMAIN kept.save : \A i \in DOMAIN kept.save[d] :
           kept.save[d][i].dev = speaker[k]
    <3> HIDE DEF kept
    <3>1. ASSUME NEW d \in DOMAIN kept.save, NEW i \in DOMAIN kept.save[d]
          PROVE  kept.save[d][i].dev = speaker[k]
      <4>1. PICK D \in SUBSET Nat : kept.save \in [D -> Seq(Own(k)) \ {<<>>}]
        BY <2>2 DEF Days
      <4>2. kept.save[d] \in Seq(Own(k))
        BY <4>1
      <4>3. kept.save[d][i] \in Own(k)
        BY <4>2
      <4> QED BY <4>3 DEF Own
    <3> QED BY <3>1
  <2> HIDE DEF kept
  <2>4. NameIsOwn(k)'
    BY <1>N, <2>1, <2>2 DEF NameIsOwn
  <2>5. SumsAreOwn(k)'
    BY <2>1, <2>3 DEF SumsAreOwn
  <2>6. rest[k] = input[k]
    BY <1>0, <2>1 DEF AccountedAt
  <2>7. AccountedAt(k)'
    BY <2>1, <2>2, <2>6 DEF AccountedAt
  <2> QED BY <2>4, <2>5, <2>7
<1>18. ASSUME SaveLists(k) PROVE Good
  <2>1. /\ pc[k] = "save" /\ pc'[k] = "set" /\ input'[k] = input[k] /\ rest'[k] = rest[k]
        /\ toSave'[k] = toSave[k] /\ speaker'[k] = speaker[k] /\ name'[k] = name[k]
        /\ \/ DOMAIN toSave[k] = {} /\ wrote'[k] = RecordsOf(errList[k])
           \/ \E d \in DOMAIN toSave[k] :
                 wrote'[k] = RecordsOf(errList[k]) \cup RecordsOf(toSave[k][d])
    BY <1>0, <1>18 DEF SaveLists
  <2>2. (\A d, e \in DOMAIN toSave[k] : d = e) =>
           RecordsOf(errList[k]) \cup Filed(toSave[k]) \subseteq wrote'[k]
    BY <2>1 DEF Filed
  <2>3. NameIsOwn(k)'
    BY <1>0, <2>1 DEF NameIsOwn
  <2> QED BY <1>0, <2>1, <2>2, <2>3 DEF SumsAreOwn, AccountedAt
<1>19. ASSUME SaveFails(k) PROVE Good
  <2>1. /\ pc[k] = "save" /\ pc'[k] = "set" /\ result'[k] = "bad" /\ rest'[k] = rest[k]
        /\ speaker'[k] = speaker[k] /\ name'[k] = name[k]
    BY <1>0, <1>19 DEF SaveFails
  <2> QED BY <1>0, <2>1 DEF NameIsOwn, SumsAreOwn, AccountedAt
<1>20. ASSUME SetAndReply(k) PROVE Good
  <2>1. /\ pc[k] = "set" /\ pc'[k] = "reading" /\ rest'[k] = <<>>
        /\ speaker'[k] = speaker[k] /\ name'[k] = name[k]
    BY <1>0, <1>20 DEF SetAndReply
  <2> QED BY <1>0, <1>N, <2>1 DEF NameIsOwn, SumsAreOwn, AccountedAt
<1>21. ASSUME NEW c \in Conn, Connect(c) \/ Disconnect(c) \/ HandlerStep(c) PROVE Good
  <2>1. CASE c = k
    BY <1>9, <1>10, <1>11, <1>12, <1>13, <1>14, <1>15, <1>16, <1>17, <1>18, <1>19, <1>20,
       <1>21, <2>1 DEF HandlerStep
  <2>2. CASE c # k
    BY <1>1, <1>2, <1>3, <1>4, <1>5, <1>6, <1>9, <1>21, <2>2 DEF HandlerStep
  <2> QED BY <2>1, <2>2
<1> QED BY <1>1, <1>7, <1>21 DEF Next, Exhausted

\* What is appended to a track is its tracker's.
LEMMA TracksNext == Inv /\ [Next]_vars => TracksAreOwn'
<1> SUFFICES ASSUME Inv, [Next]_vars PROVE TracksAreOwn'
  OBVIOUS
<1>0. /\ TypeOK /\ TracksAreOwn
      /\ \A c \in Conn : NameIsOwn(c) /\ SumsAreOwn(c)
      /\ \A k \in DOMAIN track : track[k] \in Seq(Entry)
  BY DEF Inv, Handlers, TypeOK
<1> USE DEF Goes, work, peers, files
<1>1. ASSUME NEW key, NEW s \in Seq(Entry), track' = AppendTo(track, key, s),
             \A i \in DOMAIN s : key[2] \in {s[i].dev, NoName}
      PROVE  TracksAreOwn'
  <2> DEFINE old == Old(track, key)
  <2>1. track' = [k \in DOMAIN track \cup {key} |-> IF k = key THEN old \o s ELSE track[k]]
    BY <1>1 DEF AppendTo, Put, Old
  <2>2. old \in Seq(Entry) /\ \A i \in DOMAIN old : key[2] \in {old[i].dev, NoName}
    BY <1>0 DEF Old, TracksAreOwn
  <2> HIDE DEF old
  <2>3. \A i \in DOMAIN (old \o s) : key[2] \in {(old \o s)[i].dev, NoName}
    BY <1>1, <2>2, ConcatElement
  <2>4. ASSUME NEW k \in DOMAIN track', NEW i \in DOMAIN track'[k]
        PROVE  k[2] \in {track'[k][i].dev, NoName}
    <3>1. CASE k = key
      <4>1. track'[k] = old \o s
        BY <2>1, <3>1
      <4> QED BY <2>3, <2>4, <3>1, <4>1
    <3>2. CASE k # key
      <4>1. k \in DOMAIN track /\ track'[k] = track[k]
        BY <2>1, <3>2
      <4> QED BY <1>0, <2>4, <4>1 DEF TracksAreOwn
    <3> QED BY <3>1, <3>2
  <2> QED BY <2>4 DEF TracksAreOwn
<1>2. ASSUME track' = track PROVE TracksAreOwn'
  BY <1>0, <1>2 DEF TracksAreOwn
<1>3. ASSUME NEW c \in Conn, RecordItem(c) PROVE TracksAreOwn'
  <2> DEFINE t == Head(rest[c]).val
             key == <<Day(t), name[c]>>
             e == EntryOf(c, last[c], t)
             s == <<e>>
  <2>1. track' = track \/ track' = AppendTo(track, key, s)
    BY <1>3 DEF RecordItem
  <2>2. /\ rest[c] \in Seq(Item) /\ rest[c] # <<>> /\ Head(rest[c]) = rest[c][1]
        /\ rest[c][1].kind = "rec" /\ rest[c][1] \in Item
        /\ last[c] \in Nat /\ speaker[c] \in Name
    BY <1>0, <1>3 DEF RecordItem, NextItem, TypeOK
  <2>3. key[2] \in {speaker[c], NoName}
    BY <1>0, <2>2 DEF NameIsOwn, HasName
  <2>4. e \in Entry /\ e.dev = speaker[c]
    <3>1. t \in Nat
      BY <2>2, ItemType
    <3> HIDE DEF t
    <3> QED BY <2>2, <3>1, OwnEntry DEF Own
  <2> HIDE DEF e, key
  <2>5. s \in Seq(Entry) /\ \A i \in DOMAIN s : s[i].dev = speaker[c]
    BY <2>4
  <2> HIDE DEF s
  <2> QED BY <1>1, <1>2, <2>1, <2>3, <2>5
<1>4. ASSUME NEW c \in Conn, SaveLists(c) PROVE TracksAreOwn'
  <2>1. CASE track' = track
    BY <1>2, <2>1
  <2>2. ASSUME NEW d \in DOMAIN toSave[c], track' = AppendTo(track, <<d, name[c]>>, toSave[c][d])
        PROVE  TracksAreOwn'
    <3> DEFINE key == <<d, name[c]>>
               s == toSave[c][d]
    <3>1. s \in Seq(Entry)
      BY <1>0 DEF TypeOK
    <3>2. pc[c] = "save"
      BY <1>4 DEF SaveLists
    <3>3. key[2] \in {speaker[c], NoName}
      BY <1>0, <3>2 DEF NameIsOwn
    <3>4. \A i \in DOMAIN s : s[i].dev = speaker[c]
      BY <1>0, <3>2 DEF SumsAreOwn
    <3>5. track' = AppendTo(track, key, s)
      BY <2>2
    <3> HIDE DEF key, s
    <3> QED BY <1>1, <3>1, <3>3, <3>4, <3>5
  <2> QED BY <1>4, <2>1, <2>2 DEF SaveLists
<1>5. ASSUME NEW c \in Conn,
             \/ Connect(c) \/ Disconnect(c) \/ (\E p \in Packet : Receive(c, p))
             \/ NameItem(c) \/ OtherItem(c) \/ EndOfItems(c) \/ SaveIsFatal(c)
             \/ NoForm(c) \/ ParseForm(c) \/ SaveFails(c) \/ SetAndReply(c)
      PROVE  track' = track
  BY <1>5 DEF Connect, Disconnect, Receive, NameItem, OtherItem, EndOfItems, SaveIsFatal,
     NoForm, ParseForm, SaveFails, SetAndReply
<1>6. ResetRegistry \/ UNCHANGED vars => track' = track
  BY DEF ResetRegistry, vars
<1> QED BY <1>2, <1>3, <1>4, <1>5, <1>6 DEF Next, HandlerStep, Exhausted

-----------------------------------------------------------------------------
(* The theorems.                                                           *)

\* No connection has been accepted, and nothing is stored.
LEMMA InitInv == Init => Inv
<1> SUFFICES ASSUME Init PROVE Inv
  OBVIOUS
<1>1. DOMAIN Empty = {} /\ ~HasName(<<>>)
  BY DEF Empty, HasName
<1>2. TypeOK
  <2>1. 0 \in 0 .. MaxPackets
    OBVIOUS
  <2> QED BY <1>1, <2>1 DEF Init, TypeOK, Pcs, Name
<1>3. Shape
  BY DEF Init, Shape
<1>4. Handlers
  BY <1>1 DEF Init, Handlers, NameIsOwn, SumsAreOwn, AccountedAt
<1>5. TracksAreOwn
  BY <1>1 DEF Init, TracksAreOwn
<1> QED BY <1>2, <1>3, <1>4, <1>5 DEF Inv

\* Inv holds in every reachable state.
THEOREM Invariance == Spec => []Inv
<1>1. Inv /\ [Next]_vars => Inv'
  BY TypeNext, HandlersNext, TracksNext DEF Inv
<1> QED BY <1>1, InitInv, PTL DEF Spec

\* Every variable keeps its type, whatever items a packet is made of.
THEOREM TypeCorrect == Spec => []TypeOK
  BY Invariance, PTL DEF Inv

\* A track under a name holds records only of the tracker of that name, however
\* many trackers share a connection and whatever the registry gives back.
THEOREM TracksDoNotMix == Spec => []TracksAreOwn
  BY Invariance, PTL DEF Inv

\* A packet that was not refused is in the files when it is answered: of its
\* records none is passed over, in whatever order they come.
THEOREM AnsweredIsStored == Spec => []PacketIsStored
<1>1. Inv => PacketIsStored
  BY DEF Inv, Handlers, AccountedAt, PacketIsStored
<1> QED BY <1>1, Invariance, PTL

-----------------------------------------------------------------------------
(* Early records.  The last time of a handler is backed by a track of the    *)
(* tracker that spoke last, or by what M01 did not save of it, if that one   *)
(* shares no connection.                                                    *)

Loners == {d \in Name : ~Shares(d)}

\* The tracks have a later record of the tracker, or M01 took one,
Later(tracks, moved, d, t) ==
    \/ \E k \in DOMAIN tracks : \E j \in DOMAIN tracks[k] :
          tracks[k][j].dev = d /\ tracks[k][j].rec > t
    \/ \E a \in moved : a[1] = d /\ a[2] > t

\* whatever the time before the given one.
Backed(tracks, moved, d, t) == \A s \in 0 .. t - 1 : Later(tracks, moved, d, s)

\* Who has not spoken has no name and no last time.
Spoken(c) ==
    IF heard[c] = {}
    THEN /\ speaker[c] = NoName /\ name[c] = NoName /\ last[c] = 0
         /\ pc[c] \in {"unused", "reading", "gone"}
    ELSE speaker[c] \in heard[c]

\* Between packets the last time is backed; while one is saved, a record that is
\* about to be may do.
LastIsBacked(c) ==
    speaker[c] \in Loners =>
        /\ pc[c] \in {"unused", "reading", "parse", "set"} =>
              Backed(track, ahead, speaker[c], last[c])
        /\ pc[c] = "save" =>
              \/ Backed(track, ahead, speaker[c], last[c])
              \/ \E d \in DOMAIN toSave[c] : \E i \in DOMAIN toSave[c][d] :
                    toSave[c][d][i].rec >= last[c]

\* A record in the list is early because it is before the last time.
EarlyIsBefore(c) ==
    pc[c] = "save" =>
        \A i \in DOMAIN errList[c] :
            LET e == errList[c][i] IN
            e.dev = speaker[c] /\ (e.early => e.rec < last[c])

Behind(c) == Spoken(c) /\ LastIsBacked(c) /\ EarlyIsBefore(c)

\* The registry's times are backed.
RegistryIsBacked ==
    \A n \in DOMAIN registry : n \in Loners => Backed(track, ahead, n, registry[n])

\* An early record in the error file has a later one that was taken.
ErrorsBehind ==
    \A n \in DOMAIN errors : \A i \in DOMAIN errors[n] :
        LET e == errors[n][i] IN
        e.early /\ e.dev \in Loners => Later(track, ahead, e.dev, e.rec)

\* Wialon is never ahead, for it collects nothing.
OnlyM01 ==
    /\ parser = "Wialon" => ahead = {}
    /\ \A c \in Conn : pc[c] = "save" => parser = "M01"

EarlyInv ==
    Inv /\ OnlyM01 /\ RegistryIsBacked /\ ErrorsBehind /\ \A c \in Conn : Behind(c)

\* Tracks only grow, and so does what M01 did not save.
Grow == Grown(track, track') /\ ahead \subseteq ahead'

LEMMA GrowBacks ==
    ASSUME Grow
    PROVE  \A d, t : /\ Later(track, ahead, d, t) => Later(track', ahead', d, t)
                     /\ Backed(track, ahead, d, t) => Backed(track', ahead', d, t)
<1> SUFFICES ASSUME NEW d, NEW t, Later(track, ahead, d, t) PROVE Later(track', ahead', d, t)
  BY DEF Backed
<1> QED BY DEF Grow, Grown, Later

\* Where M01 left GpsD without having saved all, it is backed by that.
LEMMA MovedBacks ==
    ASSUME NEW moved, NEW tracks, NEW d, NEW t \in Nat, <<d, t>> \in moved
    PROVE  Backed(tracks, moved, d, t)
<1> SUFFICES ASSUME NEW s \in 0 .. t - 1 PROVE \E a \in moved : a[1] = d /\ a[2] > s
  BY DEF Backed, Later
<1>1. t > s
  OBVIOUS
<1> WITNESS <<d, t>> \in moved
<1> QED BY <1>1

\* The entry of the record read next.
LEMMA RecordRead ==
    ASSUME TypeOK, NEW c \in Conn, RecordItem(c)
    PROVE  LET t == Head(rest[c]).val
               e == EntryOf(c, last[c], t)
           IN  /\ t \in Nat /\ e \in Entry /\ e.dev = speaker[c] /\ e.rec = t
               /\ e.early = (t < last[c])
<1>1. /\ rest[c] \in Seq(Item) /\ rest[c] # <<>> /\ Head(rest[c]).kind = "rec"
      /\ last[c] \in Nat /\ speaker[c] \in Name
  BY DEF RecordItem, NextItem, TypeOK
<1>2. Head(rest[c]) \in Item
  BY <1>1
<1>3. Head(rest[c]).val \in Nat
  BY <1>1, <1>2, ItemType
<1> QED BY <1>1, <1>3, OwnEntry DEF Own, EntryOf, Early

\* Every step lets the tracks grow,
LEMMA TracksGrow == ASSUME Inv, [Next]_vars PROVE Grow
<1> USE DEF work, peers, files
<1>0. TypeOK /\ \A k \in DOMAIN track : track[k] \in Seq(Entry)
  BY DEF Inv, TypeOK
<1>1. track' = track => Grown(track, track')
  BY DEF Grown
<1>2. ASSUME NEW c \in Conn, SaveLists(c), track' # track PROVE Grown(track, track')
  <2>1. PICK d \in DOMAIN toSave[c] : track' = AppendTo(track, <<d, name[c]>>, toSave[c][d])
    BY <1>2 DEF SaveLists
  <2>2. toSave[c][d] \in Seq(Entry)
    BY <1>0 DEF TypeOK
  <2> QED BY <1>0, <2>1, <2>2, AppendToHolds
<1>3. ASSUME NEW c \in Conn, RecordItem(c), track' # track PROVE Grown(track, track')
  <2> DEFINE e == EntryOf(c, last[c], Head(rest[c]).val)
             s == <<e>>
  <2>1. track' = AppendTo(track, <<Day(Head(rest[c]).val), name[c]>>, s)
    BY <1>3 DEF RecordItem
  <2>2. s \in Seq(Entry)
    <3>1. e \in Entry
      BY <1>0, <1>3, RecordRead
    <3> HIDE DEF e
    <3> QED BY <3>1
  <2> HIDE DEF s
  <2> QED BY <1>0, <2>1, <2>2, AppendToHolds
<1>4. ASSUME NEW c \in Conn, ParseForm(c) \/ SaveLists(c) \/ SaveFails(c)
      PROVE  ahead \subseteq ahead' /\ (track' = track \/ SaveLists(c))
  BY <1>4 DEF ParseForm, SaveLists, SaveFails
<1>5. ASSUME NEW c \in Conn,
             \/ Connect(c) \/ Disconnect(c) \/ (\E p \in Packet : Receive(c, p))
             \/ NameItem(c) \/ RecordItem(c) \/ OtherItem(c) \/ EndOfItems(c) \/ SaveIsFatal(c)
             \/ NoForm(c) \/ SetAndReply(c)
      PROVE  ahead' = ahead /\ (track' = track \/ RecordItem(c))
  BY <1>5 DEF Connect, Disconnect, Receive, NameItem, RecordItem, OtherItem, EndOfItems,
     SaveIsFatal, NoForm, SetAndReply
<1>6. ResetRegistry \/ UNCHANGED vars => track' = track /\ ahead' = ahead
  BY DEF ResetRegistry, vars
<1> QED BY <1>1, <1>2, <1>3, <1>4, <1>5, <1>6 DEF Grow, Next, HandlerStep, Exhausted

\* and who once shared a connection is never alone again.
LEMMA LonersShrink == ASSUME Inv, [Next]_vars PROVE Loners' \subseteq Loners
<1> USE DEF work, peers, files
<1>0. heard \in [Conn -> SUBSET Name]
  BY DEF Inv, TypeOK
<1>1. \A c \in Conn : heard[c] \subseteq heard'[c]
  <2>1. ASSUME NEW c \in Conn, NEW p \in Packet, Receive(c, p)
        PROVE  \A k \in Conn : heard[k] \subseteq heard'[k]
    BY <1>0, <2>1 DEF Receive
  <2>2. ASSUME NEW c \in Conn,
               \/ Connect(c) \/ Disconnect(c) \/ NameItem(c) \/ RecordItem(c) \/ OtherItem(c)
               \/ EndOfItems(c) \/ SaveIsFatal(c) \/ NoForm(c) \/ ParseForm(c) \/ SaveLists(c)
               \/ SaveFails(c) \/ SetAndReply(c)
        PROVE  heard' = heard
    BY <2>2 DEF Connect, Disconnect, NameItem, RecordItem, OtherItem, EndOfItems,
       SaveIsFatal, NoForm, ParseForm, SaveLists, SaveFails, SetAndReply
  <2>3. ResetRegistry \/ UNCHANGED vars => heard' = heard
    BY DEF ResetRegistry, vars
  <2> QED BY <2>1, <2>2, <2>3 DEF Next, HandlerStep, Exhausted
<1>2. ASSUME NEW d \in Name, NEW c \in Conn, d \in heard[c], heard[c] # {d}
      PROVE  d \in heard'[c] /\ heard'[c] # {d}
  BY <1>1, <1>2
<1> QED BY <1>1, <1>2 DEF Loners, Shares

\* Only M01 comes to the saving of lists, and only its forms are cut short.
LEMMA OnlyM01Next == ASSUME Inv, OnlyM01, [Next]_vars PROVE OnlyM01'
<1> USE DEF Goes, work, peers, files, OnlyM01
<1>0. pc \in [Conn -> Pcs]
  BY DEF Inv, TypeOK
<1>1. ASSUME NEW c \in Conn, ParseForm(c) PROVE OnlyM01'
  <2>1. parser = "M01" /\ parser' = parser
    BY <1>1 DEF ParseForm
  <2> QED BY <2>1
<1>2. ASSUME NEW c \in Conn, SaveLists(c) \/ SaveFails(c) PROVE OnlyM01'
  <2>1. parser = "M01" /\ parser' = parser
    BY <1>2 DEF SaveLists, SaveFails
  <2> QED BY <2>1
<1>3. ASSUME NEW c \in Conn,
             \/ Connect(c) \/ Disconnect(c) \/ (\E p \in Packet : Receive(c, p))
             \/ NameItem(c) \/ RecordItem(c) \/ OtherItem(c) \/ EndOfItems(c)
             \/ NoForm(c) \/ SetAndReply(c)
      PROVE  OnlyM01'
  <2>1. /\ UNCHANGED <<parser, ahead>>
        /\ \A k \in Conn : pc'[k] = pc[k] \/ pc'[k] # "save"
    BY <1>0, <1>3 DEF Connect, Disconnect, Receive, NextItem, NameItem, RecordItem, OtherItem,
       EndOfItems, NoForm, SetAndReply
  <2> QED BY <2>1
<1>4. ASSUME NEW c \in Conn, SaveIsFatal(c) PROVE OnlyM01'
  <2>1. /\ UNCHANGED <<parser, ahead>>
        /\ \A k \in Conn : pc'[k] = pc[k] \/ pc'[k] # "save"
    BY <1>4 DEF SaveIsFatal, ProcessEnds
  <2> QED BY <2>1
<1>5. CASE ResetRegistry \/ UNCHANGED vars
  BY <1>5 DEF ResetRegistry, vars
<1> QED BY <1>1, <1>2, <1>3, <1>4, <1>5 DEF Next, HandlerStep, Exhausted

-----------------------------------------------------------------------------
\* What M01's record loop has come to: an error is early because it is before the
\* last time, which moved with a record that is to be saved.
SumBehind(c, a) ==
    /\ \A i \in DOMAIN a.errs : a.errs[i].early => a.errs[i].rec < a.last
    /\ \/ a.last = last[c]
       \/ \E d \in DOMAIN a.save : \E i \in DOMAIN a.save[d] : a.save[d][i].rec >= a.last

LEMMA KeepBehind ==
    ASSUME NEW c \in Conn, speaker[c] \in Name, NEW a \in Sums(Own(c)), NEW t \in Nat,
           SumBehind(c, a)
    PROVE  SumBehind(c, Keep(c, a, t))
<1> DEFINE E == Own(c)
           e == EntryOf(c, a.last, t)
<1>1. a.last \in Nat /\ a.errs \in Seq(E) /\ a.save \in Days(E)
      /\ a = [last |-> a.last, errs |-> a.errs, save |-> a.save]
  BY DEF Sums
<1>2. e \in E /\ e.rec = t /\ e.early = (t < a.last)
  BY <1>1, OwnEntry DEF EntryOf, Early
<1>3. \A x \in E : x.rec \in Nat
  BY DEF Own, Entry
<1> HIDE DEF E, e
<1>4. CASE Fits(a.last, t)
  <2> DEFINE day == Day(t)
             m == a.save
             s == <<e>>
             f == AppendTo(m, day, s)
  <2>1. Keep(c, a, t) = [last |-> t, errs |-> a.errs, save |-> f]
    BY <1>1, <1>4 DEF Keep, e
  <2>2. a.last <= t
    BY <1>1, <1>4 DEF Fits, Early
  <2>3. s \in Seq(E) /\ 1 \in DOMAIN s /\ s[1] = e
    BY <1>2
  <2>4. \A d \in DOMAIN m : m[d] \in Seq(E)
    BY <1>1, DayEntries
  <2> HIDE DEF s, m, day
  <2>5. day \in DOMAIN f /\ \A i \in DOMAIN s : \E j \in DOMAIN f[day] : f[day][j] = s[i]
    BY <2>3, <2>4, AppendToHolds
  <2> HIDE DEF f
  <2>6. \E d \in DOMAIN f : \E i \in DOMAIN f[d] : f[d][i].rec >= t
    BY <1>2, <2>3, <2>5
  <2>7. \A i \in DOMAIN a.errs : a.errs[i].early => a.errs[i].rec < t
    <3> SUFFICES ASSUME NEW i \in DOMAIN a.errs, a.errs[i].early PROVE a.errs[i].rec < t
      OBVIOUS
    <3>1. a.errs[i].rec \in Nat
      BY <1>1, <1>3
    <3> QED BY <1>1, <2>2, <3>1 DEF SumBehind
  <2> QED BY <2>1, <2>6, <2>7 DEF SumBehind
<1>5. CASE ~Fits(a.last, t)
  <2> DEFINE s == Append(a.errs, e)
  <2>1. Keep(c, a, t) = [last |-> a.last, errs |-> s, save |-> a.save]
    BY <1>1, <1>5 DEF Keep, e
  <2>2. \A i \in DOMAIN s : (i \in DOMAIN a.errs /\ s[i] = a.errs[i]) \/ s[i] = e
    BY <1>1, <1>2
  <2> HIDE DEF s
  <2>3. \A i \in DOMAIN s : s[i].early => s[i].rec < a.last
    BY <1>2, <2>2 DEF SumBehind
  <2> QED BY <2>1, <2>3 DEF SumBehind
<1> QED BY <1>4, <1>5

LEMMA KeptBehind ==
    ASSUME NEW c \in Conn, speaker[c] \in Name, last[c] \in Nat, NEW recs \in Seq(Datum)
    PROVE  SumBehind(c, Kept(c, recs))
<1> DEFINE n == Len(recs)
           A == Sums(Own(c))
<1>1. n \in Nat /\ \A k \in 1 .. n : recs[k].val \in Nat
  BY DEF Datum
<1>2. PICK g : Iterates(g, n, A, Start(c), Turns(c, recs)) /\ Kept(c, recs) = g[n]
  BY KeptIterates
<1>3. /\ g \in [0 .. n -> A] /\ g[0] = Start(c)
      /\ \A k \in 1 .. n : g[k] = Turns(c, recs)[k][g[k - 1]]
  BY <1>2 DEF Iterates
<1> DEFINE S == {k \in Nat : k <= n => SumBehind(c, g[k])}
<1>4. 0 \in S
  <2>1. SumBehind(c, Start(c))
    BY DEF SumBehind, Start
  <2> QED BY <1>3, <2>1
<1>5. ASSUME NEW k \in Nat, k \in S PROVE k + 1 \in S
  <2>1. SUFFICES ASSUME k + 1 <= n PROVE SumBehind(c, g[k + 1])
    OBVIOUS
  <2> HIDE DEF A, n
  <2>2. k + 1 \in 1 .. n /\ k + 1 - 1 = k /\ SumBehind(c, g[k]) /\ g[k] \in A
    BY <1>1, <1>3, <1>5, <2>1
  <2>3. g[k + 1] = Turns(c, recs)[k + 1][g[k]]
    BY <1>3, <2>2
  <2>4. Turns(c, recs)[k + 1][g[k]] = Keep(c, g[k], recs[k + 1].val)
    BY <2>2 DEF Turns, A, n
  <2> QED BY <1>1, <2>2, <2>3, <2>4, KeepBehind DEF A
<1>6. Nat \subseteq S
  <2> HIDE DEF S
  <2> QED BY <1>4, <1>5, Induction
<1> QED BY <1>1, <1>2, <1>6

-----------------------------------------------------------------------------
\* A handler that does not move stays backed.
LEMMA BehindStays ==
    ASSUME Grow, Loners' \subseteq Loners, NEW c \in Conn, Behind(c), pc'[c] = pc[c],
           name'[c] = name[c], last'[c] = last[c], toSave'[c] = toSave[c],
           errList'[c] = errList[c], speaker'[c] = speaker[c], heard'[c] = heard[c]
    PROVE  Behind(c)'
<1>1. Backed(track, ahead, speaker[c], last[c]) => Backed(track', ahead', speaker[c], last[c])
  BY GrowBacks
<1>2. LastIsBacked(c)'
  BY <1>1 DEF Behind, LastIsBacked
<1>3. Spoken(c)' /\ EarlyIsBefore(c)'
  BY DEF Behind, Spoken, EarlyIsBefore
<1> QED BY <1>2, <1>3 DEF Behind

\* The tracker that spoke last on a connection of its own is the one the last
\* time was read back for.
LEMMA ReceiveBehind ==
    ASSUME EarlyInv, Loners' \subseteq Loners, NEW c \in Conn, NEW p \in Packet, Receive(c, p)
    PROVE  Behind(c)'
<1>0. /\ pc \in [Conn -> Pcs] /\ name \in [Conn -> Name] /\ last \in [Conn -> Nat]
      /\ speaker \in [Conn -> Name] /\ heard \in [Conn -> SUBSET Name]
      /\ \A n \in DOMAIN registry : n \in Device
      /\ Behind(c) /\ NameIsOwn(c)
  BY DEF EarlyInv, Inv, TypeOK, Handlers
<1>1. /\ pc[c] = "reading" /\ pc'[c] = "parse" /\ UNCHANGED <<track, ahead>>
      /\ heard'[c] = heard[c] \cup {speaker'[c]}
  BY <1>0 DEF Receive, Goes, files
<1>2. last'[c] = IF name[c] \in DOMAIN registry THEN registry[name[c]]
                 ELSE IF name[c] = NoName THEN last[c] ELSE 0
  BY <1>0 DEF Receive
<1>3. ASSUME speaker'[c] \in Loners' PROVE Backed(track, ahead, speaker'[c], last'[c])
  <2>1. CASE heard[c] = {}
    <3>1. name[c] = NoName /\ last[c] = 0
      BY <1>0, <2>1 DEF Behind, Spoken
    <3>2. last'[c] = 0
      BY <1>0, <1>2, <3>1
    <3> QED BY <3>2 DEF Backed
  <2>2. CASE heard[c] # {}
    <3>1. speaker[c] \in heard[c]
      BY <1>0, <2>2 DEF Behind, Spoken
    <3>2. heard'[c] = {speaker'[c]}
      BY <1>1, <1>3 DEF Loners, Shares
    <3>3. speaker'[c] = speaker[c] /\ speaker[c] \in Loners
      BY <1>1, <1>3, <3>1, <3>2
    <3>4. name[c] \in {speaker[c], NoName}
      BY <1>0, <1>1 DEF NameIsOwn
    <3>5. CASE name[c] \in DOMAIN registry
      <4>1. name[c] = speaker[c] /\ last'[c] = registry[name[c]]
        BY <1>0, <1>2, <3>4, <3>5
      <4> QED BY <3>3, <3>5, <4>1 DEF EarlyInv, RegistryIsBacked
    <3>6. CASE name[c] \notin DOMAIN registry /\ name[c] = NoName
      <4>1. Backed(track, ahead, speaker[c], last[c])
        BY <1>0, <1>1, <3>3 DEF Behind, LastIsBacked
      <4> QED BY <1>2, <3>3, <3>6, <4>1
    <3>7. CASE name[c] \notin DOMAIN registry /\ name[c] # NoName
      <4>1. last'[c] = 0
        BY <1>2, <3>7
      <4> QED BY <4>1 DEF Backed
    <3> QED BY <3>5, <3>6, <3>7
  <2> QED BY <2>1, <2>2
<1>4. LastIsBacked(c)'
  BY <1>1, <1>3 DEF LastIsBacked
<1>5. Spoken(c)' /\ EarlyIsBefore(c)'
  BY <1>1 DEF Spoken, EarlyIsBefore
<1> QED BY <1>4, <1>5 DEF Behind

\* A record of Wialon that moves the last time is in a track at once.
LEMMA RecordBehind ==
    ASSUME EarlyInv, Grow, Loners' \subseteq Loners, NEW c \in Conn, RecordItem(c)
    PROVE  Behind(c)'
<1> DEFINE t == Head(rest[c]).val
           e == EntryOf(c, last[c], t)
           key == <<Day(t), name[c]>>
           s == <<e>>
<1>0. /\ TypeOK /\ last \in [Conn -> Nat] /\ Behind(c)
      /\ \A k \in DOMAIN track : track[k] \in Seq(Entry)
  BY DEF EarlyInv, Inv, TypeOK
<1>1. /\ pc[c] = "parse" /\ UNCHANGED <<pc, name, errList, toSave, speaker, heard>>
      /\ IF Fits(last[c], t) THEN last'[c] = t /\ track' = AppendTo(track, key, s)
         ELSE UNCHANGED last
  BY <1>0 DEF RecordItem, NextItem, peers
<1>2. t \in Nat /\ e \in Entry /\ e.dev = speaker[c] /\ e.rec = t
  BY <1>0, RecordRead
<1> HIDE DEF e, key, t
<1>3. CASE Fits(last[c], t)
  <2>1. s \in Seq(Entry) /\ 1 \in DOMAIN s /\ s[1] = e
    BY <1>2
  <2> HIDE DEF s
  <2>2. key \in DOMAIN track' /\ \E j \in DOMAIN track'[key] : track'[key][j] = e
    <3> DEFINE f == AppendTo(track, key, s)
    <3>1. key \in DOMAIN f /\ \A i \in DOMAIN s : \E j \in DOMAIN f[key] : f[key][j] = s[i]
      BY <1>0, <2>1, AppendToHolds
    <3>2. track' = f
      BY <1>1, <1>3
    <3> HIDE DEF f
    <3> QED BY <2>1, <3>1, <3>2
  <2>3. ASSUME NEW x \in 0 .. t - 1 PROVE Later(track', ahead', speaker[c], x)
    <3>1. t > x
      BY <1>2
    <3> QED BY <1>2, <2>2, <3>1 DEF Later
  <2>4. Backed(track', ahead', speaker[c], last'[c])
    BY <1>1, <1>3, <2>3 DEF Backed
  <2>5. heard[c] # {}
    BY <1>0, <1>1 DEF Behind, Spoken
  <2>6. LastIsBacked(c)'
    BY <1>1, <2>4 DEF LastIsBacked
  <2> QED BY <1>0, <1>1, <2>5, <2>6 DEF Behind, Spoken, EarlyIsBefore
<1>4. CASE ~Fits(last[c], t)
  BY <1>0, <1>1, <1>4, BehindStays
<1> QED BY <1>3, <1>4

\* A form that is taken is to be saved, one that is cut short puts its tracker
\* ahead by what it held.
LEMMA FormBehind ==
    ASSUME EarlyInv, Grow, Loners' \subseteq Loners, NEW c \in Conn, ParseForm(c),
           last'[c] \in Nat
    PROVE  Behind(c)'
<1> DEFINE recs == BeforeBad(Tail(rest[c]))
           kept == Kept(c, recs)
<1>0. /\ TypeOK /\ Shape /\ NameIsOwn(c) /\ Behind(c)
      /\ pc \in [Conn -> Pcs] /\ last \in [Conn -> Nat] /\ speaker \in [Conn -> Name]
      /\ errList \in [Conn -> Seq(Entry)] /\ toSave = [k \in Conn |-> toSave[k]]
      /\ rest[c] \in Seq(Item)
      /\ \A k \in DOMAIN rest[c] : rest[c][k].kind = "name" => k = 1
  BY DEF EarlyInv, Inv, Handlers, TypeOK, Shape
<1>1. /\ pc[c] = "parse" /\ HasName(rest[c]) /\ UNCHANGED <<speaker, heard, track>>
      /\ last'[c] = kept.last
      /\ IF IsWhole(rest[c])
         THEN pc'[c] = "save" /\ errList'[c] = kept.errs /\ toSave'[c] = kept.save
         ELSE pc'[c] = "set" /\ <<rest[c][1].val, kept.last>> \in ahead'
      /\ ahead \subseteq ahead'
  BY <1>0 DEF ParseForm, peers, files
<1>2. recs \in Seq(Datum)
  <2>1. Tail(rest[c]) \in Seq(Datum)
    BY <1>0, <1>1, TailData DEF HasName
  <2> QED BY <2>1, BeforeBadType
<1>3. SumBehind(c, kept)
  BY <1>0, <1>2, KeptBehind
<1>4. /\ rest[c][1].val = speaker[c] /\ kept.errs \in Seq(Own(c))
  BY <1>0, <1>1, FormKept
<1> HIDE DEF kept
<1>5. heard[c] # {}
  BY <1>0, <1>1 DEF Behind, Spoken
<1>6. Spoken(c)'
  BY <1>0, <1>1, <1>5 DEF Behind, Spoken
<1>7. CASE IsWhole(rest[c])
  <2>1. speaker[c] \in Loners' => Backed(track', ahead', speaker[c], last[c])
    BY <1>0, <1>1, GrowBacks DEF Behind, LastIsBacked
  <2>2. LastIsBacked(c)'
    BY <1>1, <1>3, <1>7, <2>1 DEF LastIsBacked, SumBehind
  <2>3. \A i \in DOMAIN kept.errs : kept.errs[i].dev = speaker[c]
    <3>1. \A i \in DOMAIN kept.errs : kept.errs[i] \in Own(c)
      BY <1>4
    <3> QED BY <3>1 DEF Own
  <2>4. EarlyIsBefore(c)'
    BY <1>1, <1>3, <1>7, <2>3 DEF EarlyIsBefore, SumBehind
  <2> QED BY <1>6, <2>2, <2>4 DEF Behind
<1>8. CASE ~IsWhole(rest[c])
  <2>1. <<speaker[c], last'[c]>> \in ahead'
    BY <1>1, <1>4, <1>8
  <2>2. Backed(track', ahead', speaker[c], last'[c])
    BY <2>1, MovedBacks
  <2> QED BY <1>1, <1>6, <1>8, <2>2 DEF Behind, LastIsBacked, EarlyIsBefore
<1> QED BY <1>7, <1>8

\* What a handler has collected on one day is saved, and backs its last time; of
\* more days than one, the last time is backed by what was not saved.
LEMMA SaveBacks ==
    ASSUME EarlyInv, Grow, Loners' \subseteq Loners, NEW c \in Conn, SaveLists(c),
           speaker[c] \in Loners'
    PROVE  Backed(track', ahead', speaker[c], last[c])
<1>0. /\ pc[c] = "save" /\ last[c] \in Nat
      /\ \A d \in DOMAIN toSave[c] : toSave[c][d] \in Seq(Entry)
      /\ \A k \in DOMAIN track : track[k] \in Seq(Entry)
      /\ Behind(c) /\ NameIsOwn(c) /\ SumsAreOwn(c)
  BY DEF EarlyInv, Inv, Handlers, TypeOK, SaveLists, Goes
<1>1. ASSUME ~(\A d, f \in DOMAIN toSave[c] : d = f)
      PROVE  Backed(track', ahead', speaker[c], last[c])
  <2>1. name[c] = speaker[c]
    BY <1>0 DEF NameIsOwn
  <2>2. <<speaker[c], last[c]>> \in ahead'
    BY <1>1, <2>1 DEF SaveLists
  <2> QED BY <1>0, <2>2, MovedBacks
<1>2. CASE Backed(track, ahead, speaker[c], last[c])
  BY <1>2, GrowBacks
<1>3. ASSUME NEW d \in DOMAIN toSave[c], NEW i \in DOMAIN toSave[c][d],
             toSave[c][d][i].rec >= last[c], \A x, f \in DOMAIN toSave[c] : x = f
      PROVE  Backed(track', ahead', speaker[c], last[c])
  <2> DEFINE x == toSave[c][d][i]
             s == toSave[c][d]
             key == <<d, name[c]>>
             f == AppendTo(track, key, s)
  <2>1. track' = f
    BY <1>3 DEF SaveLists
  <2>2. x.dev = speaker[c] /\ x.rec \in Nat
    <3>1. x \in Entry
      BY <1>0
    <3> QED BY <1>0, <3>1 DEF SumsAreOwn, Entry
  <2>3. s \in Seq(Entry) /\ i \in DOMAIN s /\ x = s[i]
    BY <1>0
  <2> HIDE DEF s, key
  <2>4. key \in DOMAIN f /\ \A k \in DOMAIN s : \E j \in DOMAIN f[key] : f[key][j] = s[k]
    BY <1>0, <2>3, AppendToHolds
  <2> HIDE DEF x, f
  <2>5. ASSUME NEW y \in 0 .. last[c] - 1 PROVE Later(track', ahead', speaker[c], y)
    <3>1. x.rec > y
      BY <1>0, <1>3, <2>2 DEF x
    <3> QED BY <2>1, <2>2, <2>3, <2>4, <3>1 DEF Later
  <2> QED BY <2>5 DEF Backed
<1> QED BY <1>0, <1>1, <1>2, <1>3 DEF Behind, LastIsBacked

\* The handler whose step it is, and the others.
LEMMA HandlersBehind == ASSUME EarlyInv, [Next]_vars, NEW c \in Conn PROVE Behind(c)'
<1> USE DEF Goes, work, peers, files
<1>0. /\ pc \in [Conn -> Pcs] /\ name \in [Conn -> Name] /\ last \in [Conn -> Nat]
      /\ speaker \in [Conn -> Name] /\ heard \in [Conn -> SUBSET Name]
      /\ errList \in [Conn -> Seq(Entry)] /\ toSave = [k \in Conn |-> toSave[k]]
      /\ Behind(c) /\ NameIsOwn(c) /\ Inv
  BY DEF EarlyInv, Inv, Handlers, TypeOK, Shape
<1>1. Grow /\ Loners' \subseteq Loners
  BY <1>0, TracksGrow, LonersShrink
<1>2. Backed(track, ahead, speaker[c], last[c]) => Backed(track', ahead', speaker[c], last[c])
  BY <1>1, GrowBacks
<1> DEFINE Same == /\ pc'[c] = pc[c] /\ name'[c] = name[c] /\ last'[c] = last[c]
                   /\ toSave'[c] = toSave[c] /\ errList'[c] = errList[c]
                   /\ speaker'[c] = speaker[c] /\ heard'[c] = heard[c]
<1>3. ASSUME Same PROVE Behind(c)'
  BY <1>0, <1>1, <1>3, BehindStays
\* the step of another handler
<1>4. ASSUME NEW k \in Conn, k # c, Connect(k) \/ Disconnect(k) PROVE Same
  BY <1>0, <1>4 DEF Connect, Disconnect
<1>5. ASSUME NEW k \in Conn, k # c, NEW p \in Packet, Receive(k, p) PROVE Same
  BY <1>0, <1>5 DEF Receive
<1>6. ASSUME NEW k \in Conn, k # c,
             NameItem(k) \/ RecordItem(k) \/ OtherItem(k) \/ EndOfItems(k) \/ NoForm(k)
      PROVE  Same
  BY <1>0, <1>6 DEF NextItem, NameItem, RecordItem, OtherItem, EndOfItems, NoForm
<1>7. ASSUME NEW k \in Conn, k # c,
             ParseForm(k) \/ SaveLists(k) \/ SaveFails(k) \/ SetAndReply(k)
      PROVE  Same
  BY <1>0, <1>7 DEF ParseForm, SaveLists, SaveFails, SetAndReply
\* its own
<1>8. CASE Connect(c)
  <2>1. pc[c] = "unused" /\ pc'[c] = "reading" /\ UNCHANGED <<name, last, speaker, heard>>
    BY <1>0, <1>8 DEF Connect
  <2> QED BY <1>0, <1>1, <1>2, <2>1 DEF Behind, Spoken, LastIsBacked, EarlyIsBefore
<1>9. CASE Disconnect(c)
  <2>1. pc'[c] = "gone" /\ UNCHANGED <<name, last, speaker, heard>>
    BY <1>0, <1>9 DEF Disconnect
  <2> QED BY <1>0, <2>1 DEF Behind, Spoken, LastIsBacked, EarlyIsBefore
<1>10. ASSUME NEW p \in Packet, Receive(c, p) PROVE Behind(c)'
  BY <1>1, <1>10, ReceiveBehind
<1>11. CASE NameItem(c) \/ OtherItem(c) \/ EndOfItems(c) \/ NoForm(c)
  <2>1. /\ pc[c] = "parse" /\ pc'[c] \in {"parse", "set"}
        /\ UNCHANGED <<last, speaker, heard>>
    BY <1>0, <1>11 DEF NextItem, NameItem, OtherItem, EndOfItems, NoForm
  <2>2. heard[c] # {}
    BY <1>0, <2>1 DEF Behind, Spoken
  <2> QED BY <1>0, <1>1, <1>2, <2>1, <2>2 DEF Behind, Spoken, LastIsBacked, EarlyIsBefore
<1>12. CASE RecordItem(c)
  BY <1>1, <1>12, RecordBehind
<1>13. ASSUME NEW k \in Conn, SaveIsFatal(k) PROVE Behind(c)'
  <2>1. /\ pc'[c] \in {"gone", pc[c]}
        /\ UNCHANGED <<name, last, toSave, errList, speaker, heard>>
    BY <1>0, <1>13 DEF SaveIsFatal, ProcessEnds
  <2>2. CASE pc'[c] = "gone"
    BY <1>0, <2>1, <2>2 DEF Behind, Spoken, LastIsBacked, EarlyIsBefore
  <2> QED BY <1>3, <2>1, <2>2
<1>14. CASE ParseForm(c)
  <2>1. last'[c] \in Nat
    BY <1>0, TypeNext DEF TypeOK
  <2> QED BY <1>1, <1>14, <2>1, FormBehind
<1>15. CASE SaveLists(c)
  <2>1. pc[c] = "save" /\ pc'[c] = "set" /\ UNCHANGED <<last, speaker, heard>>
    BY <1>0, <1>15 DEF SaveLists
  <2>2. heard[c] # {}
    BY <1>0, <2>1 DEF Behind, Spoken
  <2>3. speaker[c] \in Loners' => Backed(track', ahead', speaker[c], last[c])
    BY <1>1, <1>15, SaveBacks
  <2> QED BY <1>0, <2>1, <2>2, <2>3 DEF Behind, Spoken, LastIsBacked, EarlyIsBefore
<1>16. CASE SaveFails(c)
  <2>1. /\ pc[c] = "save" /\ pc'[c] = "set" /\ UNCHANGED <<last, speaker, heard>>
        /\ <<name[c], last[c]>> \in ahead'
    BY <1>0, <1>16 DEF SaveFails
  <2>2. name[c] = speaker[c]
    BY <1>0, <2>1 DEF NameIsOwn
  <2>3. heard[c] # {}
    BY <1>0, <2>1 DEF Behind, Spoken
  <2>4. last[c] \in Nat
    BY <1>0
  <2>5. Backed(track', ahead', speaker[c], last[c])
    BY <2>1, <2>2, <2>4, MovedBacks
  <2> QED BY <1>0, <2>1, <2>3, <2>5 DEF Behind, Spoken, LastIsBacked, EarlyIsBefore
<1>17. CASE SetAndReply(c)
  <2>1. /\ pc[c] = "set" /\ pc'[c] = "reading" /\ UNCHANGED <<name, last, speaker, heard>>
    BY <1>0, <1>17 DEF SetAndReply
  <2> QED BY <1>0, <1>1, <1>2, <2>1 DEF Behind, Spoken, LastIsBacked, EarlyIsBefore
<1>18. CASE ResetRegistry
  BY <1>3, <1>18 DEF ResetRegistry
<1>19. CASE UNCHANGED vars
  BY <1>3, <1>19 DEF vars
<1> HIDE DEF Same
<1> QED BY <1>3, <1>4, <1>5, <1>6, <1>7, <1>8, <1>9, <1>10, <1>11, <1>12, <1>13, <1>14,
           <1>15, <1>16, <1>17, <1>18, <1>19 DEF Next, HandlerStep, Exhausted

\* SetGPS writes a time that is backed.
LEMMA RegistryNext == ASSUME EarlyInv, [Next]_vars PROVE RegistryIsBacked'
<1> USE DEF Goes, work, peers, files
<1>0. /\ Inv /\ RegistryIsBacked /\ name \in [Conn -> Name]
      /\ \A c \in Conn : NameIsOwn(c) /\ Behind(c)
  BY DEF EarlyInv, Inv, Handlers, TypeOK
<1>1. Grow /\ Loners' \subseteq Loners
  BY <1>0, TracksGrow, LonersShrink
<1>2. ASSUME registry' \in {registry, Empty} PROVE RegistryIsBacked'
  <2> SUFFICES ASSUME NEW n \in DOMAIN registry', n \in Loners'
               PROVE  Backed(track', ahead', n, registry'[n])
    BY DEF RegistryIsBacked
  <2>1. n \in DOMAIN registry /\ registry'[n] = registry[n]
    BY <1>2 DEF Empty
  <2> QED BY <1>0, <1>1, <2>1, GrowBacks DEF RegistryIsBacked
<1>3. ASSUME NEW c \in Conn, SetAndReply(c), registry' # registry PROVE RegistryIsBacked'
  <2>1. /\ registry' = Put(registry, name[c], last[c]) /\ name[c] # NoName
        /\ pc[c] = "set" /\ track' = track /\ ahead' = ahead
    BY <1>3 DEF SetAndReply
  <2>2. name[c] = speaker[c]
    BY <1>0, <2>1 DEF NameIsOwn
  <2>3. speaker[c] \in Loners => Backed(track, ahead, speaker[c], last[c])
    BY <1>0, <2>1 DEF Behind, LastIsBacked
  <2> SUFFICES ASSUME NEW n \in DOMAIN registry', n \in Loners'
               PROVE  Backed(track, ahead, n, registry'[n])
    BY <2>1 DEF RegistryIsBacked
  <2>4. CASE n = name[c]
    <3>1. registry'[n] = last[c]
      BY <2>1, <2>4 DEF Put
    <3> QED BY <1>1, <2>2, <2>3, <2>4, <3>1
  <2>5. CASE n # name[c]
    <3>1. n \in DOMAIN registry /\ registry'[n] = registry[n]
      BY <2>1, <2>5 DEF Put
    <3> QED BY <1>0, <1>1, <3>1 DEF RegistryIsBacked
  <2> QED BY <2>4, <2>5
<1>4. ASSUME NEW c \in Conn,
             \/ Connect(c) \/ Disconnect(c) \/ (\E p \in Packet : Receive(c, p))
             \/ NameItem(c) \/ RecordItem(c) \/ OtherItem(c) \/ EndOfItems(c) \/ NoForm(c)
             \/ ParseForm(c) \/ SaveLists(c) \/ SaveFails(c)
      PROVE  registry' = registry
  BY <1>4 DEF Connect, Disconnect, Receive, NameItem, RecordItem, OtherItem, EndOfItems,
     NoForm, ParseForm, SaveLists, SaveFails
<1>5. ASSUME NEW c \in Conn, SaveIsFatal(c) PROVE registry' = Empty
  BY <1>5 DEF SaveIsFatal, ProcessEnds
<1>6. ResetRegistry \/ UNCHANGED vars => registry' \in {registry, Empty}
  BY DEF ResetRegistry, vars
<1> QED BY <1>2, <1>3, <1>4, <1>5, <1>6 DEF Next, HandlerStep, Exhausted

\* What one handler adds to an error file has a later record that was taken.
LEMMA ErrorsAdded ==
    ASSUME EarlyInv, Grow, Loners' \subseteq Loners, NEW c \in Conn, NEW s \in Seq(Entry),
           errors' = AppendTo(errors, name[c], s),
           \A i \in DOMAIN s : s[i].early /\ s[i].dev \in Loners' =>
               Later(track', ahead', s[i].dev, s[i].rec)
    PROVE  ErrorsBehind'
<1> DEFINE f == AppendTo(errors, name[c], s)
<1>0. ErrorsBehind /\ \A n \in DOMAIN errors : errors[n] \in Seq(Entry)
  BY DEF EarlyInv, Inv, TypeOK
<1>1. \A n \in DOMAIN f : \A i \in DOMAIN f[n] :
         \/ n \in DOMAIN errors /\ i \in DOMAIN errors[n] /\ f[n][i] = errors[n][i]
         \/ \E j \in DOMAIN s : f[n][i] = s[j]
  BY <1>0, AppendToHolds
<1>2. errors' = f
  OBVIOUS
<1> HIDE DEF f
<1> SUFFICES ASSUME NEW n \in DOMAIN errors', NEW i \in DOMAIN errors'[n],
                    errors'[n][i].early, errors'[n][i].dev \in Loners'
             PROVE  Later(track', ahead', errors'[n][i].dev, errors'[n][i].rec)
  BY DEF ErrorsBehind
<1>3. CASE n \in DOMAIN errors /\ i \in DOMAIN errors[n] /\ errors'[n][i] = errors[n][i]
  <2>1. Later(track, ahead, errors[n][i].dev, errors[n][i].rec)
    BY <1>0, <1>3 DEF ErrorsBehind
  <2> QED BY <1>3, <2>1, GrowBacks
<1> QED BY <1>1, <1>2, <1>3

\* An early record is written down when a later one is in a track, or with it.
LEMMA ErrorsNext == ASSUME EarlyInv, [Next]_vars PROVE ErrorsBehind'
<1> USE DEF Goes, work, peers, files
<1>0. /\ Inv /\ TypeOK /\ ErrorsBehind /\ last \in [Conn -> Nat]
      /\ errList \in [Conn -> Seq(Entry)]
      /\ \A c \in Conn : NameIsOwn(c) /\ Behind(c)
  BY DEF EarlyInv, Inv, Handlers, TypeOK
<1>1. Grow /\ Loners' \subseteq Loners
  BY <1>0, TracksGrow, LonersShrink
<1>2. ASSUME errors' = errors PROVE ErrorsBehind'
  <2> SUFFICES ASSUME NEW n \in DOMAIN errors, NEW i \in DOMAIN errors[n],
                      errors[n][i].early, errors[n][i].dev \in Loners'
               PROVE  Later(track', ahead', errors[n][i].dev, errors[n][i].rec)
    BY <1>2 DEF ErrorsBehind
  <2>1. Later(track, ahead, errors[n][i].dev, errors[n][i].rec)
    BY <1>0, <1>1 DEF ErrorsBehind
  <2> QED BY <1>1, <2>1, GrowBacks
<1>3. ASSUME NEW c \in Conn, RecordItem(c), errors' # errors PROVE ErrorsBehind'
  <2> DEFINE t == Head(rest[c]).val
             e == EntryOf(c, last[c], t)
             s == <<e>>
  <2>1. errors' = AppendTo(errors, name[c], s) /\ pc[c] = "parse"
    BY <1>3 DEF RecordItem, NextItem
  <2>2. t \in Nat /\ e \in Entry /\ e.dev = speaker[c] /\ e.rec = t /\ e.early = (t < last[c])
    BY <1>0, <1>3, RecordRead
  <2> HIDE DEF e, t
  <2>3. s \in Seq(Entry) /\ \A i \in DOMAIN s : s[i] = e
    BY <2>2
  <2>4. e.early /\ e.dev \in Loners' => Later(track', ahead', e.dev, e.rec)
    <3> SUFFICES ASSUME e.early, e.dev \in Loners' PROVE Later(track, ahead, e.dev, e.rec)
      BY <1>1, GrowBacks
    <3>1. Backed(track, ahead, speaker[c], last[c])
      BY <1>0, <1>1, <2>1, <2>2 DEF Behind, LastIsBacked
    <3>2. last[c] \in Nat
      BY <1>0
    <3>3. t < last[c]
      BY <2>2
    <3>4. t \in 0 .. last[c] - 1
      BY <2>2, <3>2, <3>3
    <3> QED BY <2>2, <3>1, <3>4 DEF Backed
  <2> HIDE DEF s
  <2> QED BY <1>1, <2>1, <2>3, <2>4, ErrorsAdded
<1>4. ASSUME NEW c \in Conn, SaveLists(c) \/ SaveFails(c), errors' # errors
      PROVE  ErrorsBehind'
  <2>1. errors' = AppendTo(errors, name[c], errList[c]) /\ pc[c] = "save"
    BY <1>4 DEF SaveLists, SaveFails, ErrorsSaved
  <2> DEFINE s == errList[c]
  <2>2. \A i \in DOMAIN s : s[i].dev = speaker[c] /\ (s[i].early => s[i].rec < last[c])
    BY <1>0, <2>1 DEF Behind, EarlyIsBefore
  <2>3. ASSUME speaker[c] \in Loners' PROVE Backed(track', ahead', speaker[c], last[c])
    <3>1. name[c] = speaker[c]
      BY <1>0, <2>1 DEF NameIsOwn
    <3>2. last[c] \in Nat
      BY <1>0
    <3>3. CASE SaveFails(c)
      <4>1. <<speaker[c], last[c]>> \in ahead'
        BY <3>1, <3>3 DEF SaveFails
      <4> QED BY <3>2, <4>1, MovedBacks
    <3> QED BY <1>1, <1>4, <2>3, <3>3, SaveBacks
  <2>4. s \in Seq(Entry)
    BY <1>0
  <2> HIDE DEF s
  <2>5. ASSUME NEW i \in DOMAIN s, s[i].early, s[i].dev \in Loners'
        PROVE  Later(track', ahead', s[i].dev, s[i].rec)
    <3>1. s[i] \in Entry
      BY <2>4
    <3>2. s[i].rec \in Nat
      BY <3>1 DEF Entry
    <3>3. last[c] \in Nat
      BY <1>0
    <3>4. s[i].rec < last[c]
      BY <2>2, <2>5
    <3>5. s[i].rec \in 0 .. last[c] - 1
      BY <3>2, <3>3, <3>4
    <3> QED BY <2>2, <2>3, <2>5, <3>5 DEF Backed
  <2> QED BY <1>1, <2>1, <2>4, <2>5, ErrorsAdded DEF s
<1>5. ASSUME NEW c \in Conn,
             \/ Connect(c) \/ Disconnect(c) \/ (\E p \in Packet : Receive(c, p))
             \/ NameItem(c) \/ OtherItem(c) \/ EndOfItems(c) \/ SaveIsFatal(c)
             \/ NoForm(c) \/ ParseForm(c) \/ SetAndReply(c)
      PROVE  errors' = errors
  BY <1>5 DEF Connect, Disconnect, Receive, NameItem, OtherItem, EndOfItems, SaveIsFatal,
     NoForm, ParseForm, SetAndReply
<1>6. ResetRegistry \/ UNCHANGED vars => errors' = errors
  BY DEF ResetRegistry, vars
<1> QED BY <1>2, <1>3, <1>4, <1>5, <1>6 DEF Next, HandlerStep, Exhausted

\* A record refused as early has a later one of its tracker that was taken, for a
\* tracker that shares no connection: with Wialon it is in a track, whatever writes
\* fail and whenever the process ends; with M01 it is in a track, or M01 moved GpsD
\* to it and did not save all.  The tracker may use several connections, one after the
\* other or at once, and the registry may be emptied.
THEOREM RefusedHasLater == Spec => []EarlyHasLater
<1>1. Init => EarlyInv
  <2>1. Init => OnlyM01 /\ RegistryIsBacked /\ ErrorsBehind
    BY DEF Init, OnlyM01, RegistryIsBacked, ErrorsBehind, Empty
  <2>2. ASSUME Init, NEW c \in Conn PROVE Behind(c)
    BY <2>2 DEF Init, Behind, Spoken, LastIsBacked, Backed, EarlyIsBefore
  <2> QED BY <2>1, <2>2, InitInv DEF EarlyInv
<1>2. EarlyInv /\ [Next]_vars => EarlyInv'
  BY TypeNext, HandlersNext, TracksNext, OnlyM01Next, HandlersBehind, RegistryNext, ErrorsNext
     DEF EarlyInv, Inv
<1>3. EarlyInv => EarlyHasLater
  <2> SUFFICES ASSUME EarlyInv, NEW n \in DOMAIN errors, NEW i \in DOMAIN errors[n],
                      errors[n][i].early, ~Shares(errors[n][i].dev)
               PROVE  \/ Stored(errors[n][i].dev, errors[n][i].rec)
                      \/ /\ parser = "M01"
                         /\ \E a \in ahead :
                               a[1] = errors[n][i].dev /\ a[2] > errors[n][i].rec
    BY DEF EarlyHasLater
  <2>1. errors[n][i] \in Entry
    BY DEF EarlyInv, Inv, TypeOK
  <2>2. errors[n][i].dev \in Loners
    BY <2>1 DEF Loners, Entry
  <2>3. Later(track, ahead, errors[n][i].dev, errors[n][i].rec)
    BY <2>2 DEF EarlyInv, ErrorsBehind
  <2>4. parser = "Wialon" => ahead = {}
    BY DEF EarlyInv, OnlyM01
  <2>5. parser \in {"Wialon", "M01"}
    BY ParserAssumption DEF EarlyInv, Inv, TypeOK, ParserAssumption
  <2> QED BY <2>3, <2>4, <2>5 DEF Later, Stored
<1> QED BY <1>1, <1>2, <1>3, PTL DEF Spec
=============================================================================
