------------------------------ MODULE DataLemmas ------------------------------
(***************************************************************************)
(* Induction over data, for the proofs about recursive functions: packets   *)
(* flattened to bytes, records collected one by one.  The library's         *)
(* induction theorems take an operator, which the provers cannot            *)
(* instantiate; here induction is stated with a set of numbers and comes    *)
(* from the well-foundedness of the finite sets.                            *)
(***************************************************************************)
EXTENDS Integers, Sequences, SequencesExt, Store, FiniteSetTheorems,
        SequenceTheorems, WellFoundedInduction, TLAPS

\* A set that holds 0 and with every number the next one holds all numbers.
LEMMA Induction ==
    ASSUME NEW S, 0 \in S, \A n \in Nat : n \in S => n + 1 \in S
    PROVE  Nat \subseteq S
<1> DEFINE T == {1 .. n : n \in Nat \ S}
<1>1. SUFFICES ASSUME T # {} PROVE FALSE
  OBVIOUS
<1>2. T \subseteq FiniteSubsetsOf(Nat)
  <2>1. ASSUME NEW n \in Nat PROVE IsFiniteSet(1 .. n) /\ 1 .. n \subseteq Nat
    BY FS_Interval
  <2> QED BY <2>1 DEF FiniteSubsetsOf
<1>3. \E x \in T : \A y \in T : ~ (<<y, x>> \in StrictSubsetOrdering(Nat))
  <2>1. IsWellFoundedOn(StrictSubsetOrdering(Nat), FiniteSubsetsOf(Nat))
    BY FS_StrictSubsetOrderingWellFounded
  <2> HIDE DEF T
  <2> QED BY <1>1, <1>2, <2>1, WFMin
\* the smallest number that is missing
<1>4. PICK n \in Nat \ S :
        \A m \in Nat \ S : <<1 .. m, 1 .. n>> \notin StrictSubsetOrdering(Nat)
  BY <1>3
<1>5. n - 1 \in Nat \ S
  BY n # 0
<1>6. 1 .. (n - 1) \subseteq 1 .. n /\ n \in 1 .. n /\ n \notin 1 .. (n - 1)
  BY <1>5
<1>7. <<1 .. (n - 1), 1 .. n>> \in StrictSubsetOrdering(Nat)
  BY <1>6 DEF StrictSubsetOrdering
<1> QED BY <1>4, <1>5, <1>7

\* A set of numbers has a least one.
LEMMA Least ==
    ASSUME NEW S \in SUBSET Nat, S # {}
    PROVE  \E k \in S : \A j \in S : k <= j
<1> SUFFICES ASSUME \A k \in S : \E j \in S : j < k PROVE FALSE
  OBVIOUS
<1> DEFINE N == {n \in Nat : \A k \in S : n <= k}
<1>1. 0 \in N
  OBVIOUS
<1>2. ASSUME NEW n \in Nat, n \in N PROVE n + 1 \in N
  <2>1. n \notin S
    BY <1>2
  <2> QED BY <1>2, <2>1
<1>3. Nat \subseteq N
  <2> HIDE DEF N
  <2> QED BY <1>1, <1>2, Induction
<1>4. PICK k \in S : TRUE
  OBVIOUS
<1>5. k + 1 \in N
  BY <1>3
<1> QED BY <1>5

\* The steps of a recursion over the numbers up to n, and what it computes: it
\* starts with b, and step k takes the value before to the next one.
StepsTo(n, A) == [1 .. n -> [A -> A]]
Iterates(g, n, A, b, step) ==
    /\ g \in [0 .. n -> A] /\ g[0] = b
    /\ \A k \in 1 .. n : g[k] = step[k][g[k - 1]]

\* Every recursion computes something.
LEMMA Iteration ==
    ASSUME NEW A, NEW b \in A, NEW n \in Nat, NEW step \in StepsTo(n, A)
    PROVE  \E g : Iterates(g, n, A, b, step)
<1> USE DEF StepsTo, Iterates
<1> DEFINE P(m, g) == g[0] = b /\ \A k \in 1 .. m : g[k] = step[k][g[k - 1]]
           S == {m \in Nat : m <= n => \E g \in [0 .. m -> A] : P(m, g)}
<1>1. 0 \in S
  <2>1. [k \in 0 .. 0 |-> b] \in [0 .. 0 -> A] /\ P(0, [k \in 0 .. 0 |-> b])
    OBVIOUS
  <2> QED BY <2>1
<1>2. ASSUME NEW m \in Nat, m \in S PROVE m + 1 \in S
  <2>1. SUFFICES ASSUME m + 1 <= n PROVE \E h \in [0 .. m + 1 -> A] : P(m + 1, h)
    OBVIOUS
  <2>2. PICK g \in [0 .. m -> A] : P(m, g)
    BY <1>2, <2>1
  <2> DEFINE h == [k \in 0 .. m + 1 |-> IF k <= m THEN g[k] ELSE step[m + 1][g[m]]]
  <2>3. h \in [0 .. m + 1 -> A]
    <3>1. step[m + 1] \in [A -> A] /\ g[m] \in A
      BY <2>1
    <3>2. step[m + 1][g[m]] \in A
      BY <3>1
    <3> QED BY <3>2
  <2>4. P(m + 1, h)
    <3>1. h[0] = b
      BY <2>2
    <3>2. ASSUME NEW k \in 1 .. m + 1 PROVE h[k] = step[k][h[k - 1]]
      <4>1. h[k - 1] = g[k - 1]
        OBVIOUS
      <4>2. CASE k <= m
        BY <2>2, <4>1, <4>2
      <4>3. CASE k = m + 1
        BY <4>1, <4>3
      <4> QED BY <4>2, <4>3
    <3> QED BY <3>1, <3>2
  <2> HIDE DEF h, P
  <2> QED BY <2>3, <2>4
<1>3. n \in S
  <2> HIDE DEF S
  <2> QED BY <1>1, <1>2, Induction
<1> QED BY <1>3

\* Whatever takes the same steps from the same start computes the same.
Follows(h, n, A, b, step) ==
    h[0] = b /\ \A k \in 1 .. n : h[k - 1] \in A => h[k] = step[k][h[k - 1]]

\* A recursion computes one thing only.
LEMMA Unique ==
    ASSUME NEW A, NEW b \in A, NEW n \in Nat, NEW step, NEW g, NEW h,
           Iterates(g, n, A, b, step), Follows(h, n, A, b, step)
    PROVE  \A k \in 0 .. n : h[k] = g[k]
<1>0. /\ g \in [0 .. n -> A] /\ g[0] = b /\ h[0] = b
      /\ \A k \in 1 .. n : g[k] = step[k][g[k - 1]]
      /\ \A k \in 1 .. n : h[k - 1] \in A => h[k] = step[k][h[k - 1]]
  BY DEF Iterates, Follows
<1> DEFINE S == {k \in Nat : k <= n => h[k] = g[k]}
<1>1. 0 \in S
  BY <1>0
<1>2. ASSUME NEW k \in Nat, k \in S PROVE k + 1 \in S
  <2>1. SUFFICES ASSUME k + 1 <= n PROVE h[k + 1] = g[k + 1]
    OBVIOUS
  <2>2. k + 1 \in 1 .. n /\ k + 1 - 1 = k /\ k \in 0 .. n /\ h[k] = g[k]
    BY <1>2, <2>1
  <2> QED BY <1>0, <2>2
<1>3. Nat \subseteq S
  <2> HIDE DEF S
  <2> QED BY <1>1, <1>2, Induction
<1> QED BY <1>3

-----------------------------------------------------------------------------
\* What is joined of the sequences s after each of them.
Joins(g, s) == g[0] = <<>> /\ \A i \in 1 .. Len(s) : g[i] = g[i - 1] \o s[i]

\* FlattenSeq joins the sequences one after the other.
LEMMA FlattenJoins ==
    ASSUME NEW T, NEW s \in Seq(Seq(T))
    PROVE  \E g \in [0 .. Len(s) -> Seq(T)] : Joins(g, s) /\ FlattenSeq(s) = g[Len(s)]
<1> DEFINE n == Len(s)
           step == [k \in 1 .. n |-> [a \in Seq(T) |-> a \o s[k]]]
<1>0. n \in Nat /\ <<>> \in Seq(T) /\ \A i \in 1 .. n : s[i] \in Seq(T)
  OBVIOUS
<1>1. step \in [1 .. n -> [Seq(T) -> Seq(T)]]
  BY <1>0
<1>2. PICK g \in [0 .. n -> Seq(T)] :
        g[0] = <<>> /\ \A k \in 1 .. n : g[k] = step[k][g[k - 1]]
  <2> DEFINE b == <<>>
             A == Seq(T)
  <2>1. n \in Nat /\ b \in A /\ step \in [1 .. n -> [A -> A]]
    BY <1>0, <1>1
  <2>2. step \in StepsTo(n, A)
    BY <2>1 DEF StepsTo
  <2>3. \E g : Iterates(g, n, A, b, step)
    <3> HIDE DEF step, n, b, A
    <3> QED BY <2>1, <2>2, Iteration
  <2> QED BY <2>3 DEF Iterates
<1>3. ASSUME NEW k \in 1 .. n PROVE g[k] = g[k - 1] \o s[k]
  <2>1. g[k - 1] \in Seq(T)
    <3> HIDE DEF n
    <3> QED BY <1>0, <1>2
  <2> QED BY <1>2, <2>1
<1>4. Joins(g, s)
  BY <1>2, <1>3 DEF Joins
<1>5. CASE n = 0
  <2>1. FlattenSeq(s) = s /\ s = <<>>
    BY <1>5 DEF FlattenSeq
  <2> QED BY <1>2, <1>4, <1>5, <2>1
<1>6. CASE n # 0
  <2> DEFINE Flat(f) == f = [i \in 1 .. n |-> IF i = 1 THEN s[i] ELSE f[i - 1] \o s[i]]
             r == [i \in 1 .. n |-> g[i]]
  <2>1. Flat(r)
    <3>1. ASSUME NEW i \in 1 .. n
          PROVE  g[i] = IF i = 1 THEN s[i] ELSE r[i - 1] \o s[i]
      <4>1. CASE i = 1
        <5>1. g[i] = <<>> \o s[i]
          <6>1. g[i] = g[i - 1] \o s[i]
            <7> HIDE DEF n
            <7> QED BY <1>3
          <6>2. i - 1 = 0
            BY <4>1
          <6> QED BY <1>2, <6>1, <6>2
        <5>2. s[i] \in Seq(T)
          BY <1>0
        <5>3. <<>> \o s[i] = s[i]
          BY <5>2
        <5> QED BY <4>1, <5>1, <5>3
      <4>2. CASE i # 1
        <5>1. r[i - 1] = g[i - 1]
          BY <4>2
        <5> QED BY <1>3, <4>2, <5>1
      <4> QED BY <4>1, <4>2
    <3> QED BY <3>1, Zenon
  <2>2. FlattenSeq(s) = (CHOOSE f : Flat(f))[n]
    BY <1>6 DEF FlattenSeq
  <2>3. PICK c : Flat(c) /\ FlattenSeq(s) = c[n]
    <3> HIDE DEF Flat
    <3> QED BY <2>1, <2>2, Zenon
  <2>4. ASSUME NEW i \in 1 .. n, i # 1 => c[i - 1] = r[i - 1] PROVE c[i] = r[i]
    <3>1. c[i] = IF i = 1 THEN s[i] ELSE c[i - 1] \o s[i]
      BY <2>3, Zenon
    <3>2. r[i] = IF i = 1 THEN s[i] ELSE r[i - 1] \o s[i]
      <4> HIDE DEF r
      <4> QED BY <2>1, Zenon
    <3> HIDE DEF r, n
    <3> QED BY <2>4, <3>1, <3>2, Zenon
  <2> DEFINE S == {m \in Nat : m \in 1 .. n => c[m] = r[m]}
  <2>5. 0 \in S
    OBVIOUS
  <2>6. ASSUME NEW m \in Nat, m \in S PROVE m + 1 \in S
    <3>1. SUFFICES ASSUME m + 1 \in 1 .. n PROVE c[m + 1] = r[m + 1]
      OBVIOUS
    <3>2. m + 1 # 1 => c[m] = r[m]
      <4> HIDE DEF r, n
      <4> QED BY <1>0, <2>6, <3>1
    <3>3. m + 1 - 1 = m
      OBVIOUS
    <3> HIDE DEF r, n
    <3> QED BY <2>4, <3>1, <3>2, <3>3
  <2>7. n \in S
    <3> HIDE DEF S
    <3> QED BY <1>0, <2>5, <2>6, Induction
  <2>8. c[n] = g[n]
    <3>1. n \in 1 .. n
      BY <1>0, <1>6
    <3> QED BY <2>7, <3>1
  <2> QED BY <1>4, <2>3, <2>8
<1> QED BY <1>5, <1>6

\* The next sequence is joined to what there is.
LEMMA JoinsNext ==
    ASSUME NEW g, NEW s, NEW n \in Nat, Len(s) \in Nat, n < Len(s), Joins(g, s)
    PROVE  g[n + 1] = g[n] \o s[n + 1]
<1> DEFINE i == n + 1
<1>1. i \in 1 .. Len(s) /\ i - 1 = n
  OBVIOUS
<1>2. g[i] = g[i - 1] \o s[i]
  <2> HIDE DEF i
  <2> QED BY <1>1, Zenon DEF Joins
<1> QED BY <1>1, <1>2

\* Two lists are the same in their first k places.
Agree(s, t, k) == \A i \in 1 .. k : s[i] = t[i]

\* As far as two lists of sequences agree, so does what is joined of them.
LEMMA JoinsAgree ==
    ASSUME NEW T, NEW s \in Seq(Seq(T)), NEW t \in Seq(Seq(T)), NEW g, NEW h,
           Joins(g, s), Joins(h, t), NEW k \in Nat, k <= Len(s), k <= Len(t),
           Agree(s, t, k)
    PROVE  g[k] = h[k]
<1> DEFINE S == {n \in Nat : n <= k => g[n] = h[n]}
<1>1. 0 \in S
  BY DEF Joins
<1>2. ASSUME NEW n \in Nat, n \in S PROVE n + 1 \in S
  <2>1. SUFFICES ASSUME n + 1 <= k PROVE g[n + 1] = h[n + 1]
    OBVIOUS
  <2>2. Len(s) \in Nat /\ Len(t) \in Nat
    OBVIOUS
  <2>3. n + 1 \in 1 .. k /\ n + 1 \in 1 .. Len(s) /\ n + 1 \in 1 .. Len(t) /\ n + 1 - 1 = n
    BY <2>1, <2>2
  <2>4. g[n + 1] = g[n] \o s[n + 1] /\ h[n + 1] = h[n] \o t[n + 1]
    <3>1. n < Len(s) /\ n < Len(t)
      BY <2>1, <2>2
    <3> QED BY <2>2, <3>1, JoinsNext
  <2>5. g[n] = h[n]
    BY <1>2, <2>1
  <2>6. s[n + 1] = t[n + 1]
    BY <2>3 DEF Agree
  <2> QED BY <2>4, <2>5, <2>6, Zenon
<1>3. Nat \subseteq S
  <2> HIDE DEF S
  <2> QED BY <1>1, <1>2, Induction
<1> QED BY <1>3

\* A list of sequences flattens to a sequence.
LEMMA FlattenType ==
    ASSUME NEW T, NEW s \in Seq(Seq(T))
    PROVE  FlattenSeq(s) \in Seq(T)
<1>1. Len(s) \in 0 .. Len(s)
  OBVIOUS
<1> QED BY <1>1, FlattenJoins

\* The first k + 1 sequences are the first k and one more.
LEMMA FlattenNext ==
    ASSUME NEW T, NEW s \in Seq(Seq(T)), NEW t \in Seq(Seq(T)),
           Len(t) = Len(s) + 1, \A i \in 1 .. Len(s) : t[i] = s[i]
    PROVE  FlattenSeq(t) = FlattenSeq(s) \o t[Len(s) + 1]
<1>1. PICK g \in [0 .. Len(s) -> Seq(T)] : Joins(g, s) /\ FlattenSeq(s) = g[Len(s)]
  BY FlattenJoins
<1>2. PICK h \in [0 .. Len(t) -> Seq(T)] : Joins(h, t) /\ FlattenSeq(t) = h[Len(t)]
  BY FlattenJoins
<1>0. Len(s) \in Nat
  OBVIOUS
<1>3. g[Len(s)] = h[Len(s)]
  <2> DEFINE k == Len(s)
  <2>1. k \in Nat /\ k <= Len(s) /\ k <= Len(t) /\ Agree(s, t, k)
    BY <1>0 DEF Agree
  <2>2. g[k] = h[k]
    <3> HIDE DEF k
    <3> QED BY <1>1, <1>2, <2>1, JoinsAgree
  <2> QED BY <2>2
<1>4. h[Len(s) + 1] = h[Len(s)] \o t[Len(s) + 1]
  <2>1. Len(t) \in Nat /\ Len(s) < Len(t)
    BY <1>0
  <2> QED BY <1>0, <1>2, <2>1, JoinsNext
<1> QED BY <1>1, <1>2, <1>3, <1>4, Zenon

\* Flattening begins with the first sequence.
LEMMA FlattenHead ==
    ASSUME NEW T, NEW s \in Seq(Seq(T)), s # <<>>
    PROVE  FlattenSeq(s) = Head(s) \o FlattenSeq(Tail(s))
<1> DEFINE t == Tail(s)
<1>0. /\ Len(s) \in Nat /\ t \in Seq(Seq(T)) /\ Len(t) = Len(s) - 1 /\ Len(t) \in Nat
      /\ Head(s) = s[1] /\ s[1] \in Seq(T) /\ \A i \in 1 .. Len(t) : t[i] = s[i + 1] /\ t[i] \in Seq(T)
  OBVIOUS
<1>1. PICK g \in [0 .. Len(s) -> Seq(T)] : Joins(g, s) /\ FlattenSeq(s) = g[Len(s)]
  BY FlattenJoins
<1>2. PICK h \in [0 .. Len(t) -> Seq(T)] : Joins(h, t) /\ FlattenSeq(t) = h[Len(t)]
  BY <1>0, FlattenJoins
<1> HIDE DEF t
<1> DEFINE q == [n \in 0 .. Len(t) |-> s[1] \o h[n]]
           S == {n \in Nat : n <= Len(t) => g[n + 1] = q[n]}
<1>3. ASSUME NEW n \in Nat, n <= Len(t), n # 0 => g[n] = q[n - 1] PROVE g[n + 1] = q[n]
  <2>1. n \in 0 .. Len(t) /\ n < Len(s)
    BY <1>0, <1>3
  <2>2. g[n + 1] = g[n] \o s[n + 1]
    BY <1>0, <1>1, <2>1, JoinsNext
  <2>3. CASE n = 0
    <3>1. g[0] = <<>> /\ h[0] = <<>>
      BY <1>1, <1>2 DEF Joins
    <3>2. <<>> \o s[1] = s[1] /\ s[1] \o <<>> = s[1]
      BY <1>0
    <3> QED BY <2>1, <2>2, <2>3, <3>1, <3>2
  <2>4. CASE n # 0
    <3> DEFINE m == n - 1
    <3>1. m \in Nat /\ m < Len(t) /\ m + 1 = n /\ m \in 0 .. Len(t) /\ n \in 1 .. Len(t)
      BY <1>0, <2>1, <2>4
    <3>2. h[m + 1] = h[m] \o t[m + 1]
      <4> HIDE DEF m
      <4> QED BY <1>0, <1>2, <3>1, JoinsNext
    <3>3. g[n] = s[1] \o h[m]
      BY <1>3, <2>4, <3>1
    <3>4. t[n] = s[n + 1] /\ t[n] \in Seq(T) /\ h[m] \in Seq(T) /\ s[1] \in Seq(T)
      <4> HIDE DEF m
      <4> QED BY <1>0, <1>2, <3>1
    <3>5. (s[1] \o h[m]) \o t[n] = s[1] \o (h[m] \o t[n])
      <4>1. \A a, b, c \in Seq(T) : (a \o b) \o c = a \o (b \o c)
        BY ConcatAssociative
      <4> HIDE DEF m
      <4> QED BY <3>4, <4>1, Zenon
    <3>6. q[n] = s[1] \o h[n]
      BY <2>1
    <3> HIDE DEF m, q
    <3> QED BY <2>2, <3>1, <3>2, <3>3, <3>4, <3>5, <3>6
  <2> QED BY <2>3, <2>4
<1> HIDE DEF q
<1>4. 0 \in S
  <2>1. 0 \in Nat /\ 0 <= Len(t)
    BY <1>0
  <2> QED BY <1>3, <2>1
<1>5. ASSUME NEW n \in Nat, n \in S PROVE n + 1 \in S
  <2>1. SUFFICES ASSUME n + 1 <= Len(t) PROVE g[n + 1 + 1] = q[n + 1]
    OBVIOUS
  <2>2. n <= Len(t) /\ n + 1 \in Nat /\ n + 1 - 1 = n
    BY <1>0, <2>1
  <2>3. g[n + 1] = q[n]
    BY <1>5, <2>2
  <2> QED BY <1>3, <2>1, <2>2, <2>3
<1>6. Len(t) \in S
  <2> HIDE DEF S
  <2> QED BY <1>0, <1>4, <1>5, Induction
<1>7. g[Len(s)] = s[1] \o h[Len(t)]
  <2>1. Len(t) + 1 = Len(s) /\ Len(t) \in 0 .. Len(t)
    BY <1>0
  <2>2. g[Len(t) + 1] = q[Len(t)]
    BY <1>0, <1>6
  <2> QED BY <2>1, <2>2 DEF q
<1> QED BY <1>0, <1>1, <1>2, <1>7 DEF t

-----------------------------------------------------------------------------
\* What a file or day holds before something is appended to it.
Old(m, k) == IF k \in DOMAIN m THEN m[k] ELSE <<>>

\* A map of entry lists stays one when a list is appended to.
LEMMA AppendToType ==
  ASSUME NEW S, NEW K, NEW m, NEW k \in K, NEW s \in Seq(S),
         \A x \in DOMAIN m : x \in K /\ m[x] \in Seq(S)
  PROVE  /\ Old(m, k) \in Seq(S)
         /\ \A x \in DOMAIN AppendTo(m, k, s) :
               x \in K /\ AppendTo(m, k, s)[x] \in Seq(S)
<1>1. Old(m, k) \in Seq(S)
  BY DEF Old
<1>2. Old(m, k) \o s \in Seq(S)
  BY <1>1
<1>3. AppendTo(m, k, s) =
         [x \in DOMAIN m \cup {k} |-> IF x = k THEN Old(m, k) \o s ELSE m[x]]
  BY DEF AppendTo, Put, Old
<1> QED BY <1>1, <1>2, <1>3

\* An element of a concatenation comes from one of the two sequences.
LEMMA ConcatElement ==
  ASSUME NEW S, NEW s \in Seq(S), NEW t \in Seq(S), NEW i \in DOMAIN (s \o t)
  PROVE  \/ i \in DOMAIN s /\ (s \o t)[i] = s[i]
         \/ i - Len(s) \in DOMAIN t /\ (s \o t)[i] = t[i - Len(s)]
  OBVIOUS

\* Files that only grew.
Grown(m, n) ==
    \A x \in DOMAIN m :
        x \in DOMAIN n /\ \A j \in DOMAIN m[x] : j \in DOMAIN n[x] /\ n[x][j] = m[x][j]

\* A file appended to holds what it held and what is appended.
LEMMA AppendToHolds ==
  ASSUME NEW S, NEW m, NEW k, NEW s \in Seq(S), \A x \in DOMAIN m : m[x] \in Seq(S)
  PROVE  /\ Grown(m, AppendTo(m, k, s))
         /\ k \in DOMAIN AppendTo(m, k, s)
         /\ \A i \in DOMAIN s : \E j \in DOMAIN AppendTo(m, k, s)[k] :
               AppendTo(m, k, s)[k][j] = s[i]
         /\ \A x \in DOMAIN AppendTo(m, k, s) : \A j \in DOMAIN AppendTo(m, k, s)[x] :
               \/ x \in DOMAIN m /\ j \in DOMAIN m[x] /\ AppendTo(m, k, s)[x][j] = m[x][j]
               \/ \E i \in DOMAIN s : AppendTo(m, k, s)[x][j] = s[i]
<1> DEFINE old == Old(m, k)
           f == AppendTo(m, k, s)
<1>1. old \in Seq(S) /\ (old = <<>> \/ (k \in DOMAIN m /\ old = m[k]))
  BY DEF Old
<1>2. /\ DOMAIN f = DOMAIN m \cup {k} /\ f[k] = old \o s
      /\ \A x \in DOMAIN m : x # k => f[x] = m[x]
      /\ k \in DOMAIN m => old = m[k]
  BY DEF AppendTo, Put, Old
<1> HIDE DEF old, f
<1>3. \A j \in DOMAIN old : j \in DOMAIN (old \o s) /\ (old \o s)[j] = old[j]
  BY <1>1
<1>4. \A i \in DOMAIN s : \E j \in DOMAIN (old \o s) : (old \o s)[j] = s[i]
  <2> SUFFICES ASSUME NEW i \in DOMAIN s
               PROVE  Len(old) + i \in DOMAIN (old \o s) /\ (old \o s)[Len(old) + i] = s[i]
    OBVIOUS
  <2> QED BY <1>1
<1>5. \A j \in DOMAIN (old \o s) :
        \/ j \in DOMAIN old /\ (old \o s)[j] = old[j]
        \/ \E i \in DOMAIN s : (old \o s)[j] = s[i]
  BY <1>1, ConcatElement
<1>6. Grown(m, f)
  BY <1>2, <1>3 DEF Grown
<1>7. \A x \in DOMAIN f : \A j \in DOMAIN f[x] :
         \/ x \in DOMAIN m /\ j \in DOMAIN m[x] /\ f[x][j] = m[x][j]
         \/ \E i \in DOMAIN s : f[x][j] = s[i]
  <2> SUFFICES ASSUME NEW x \in DOMAIN f, NEW j \in DOMAIN f[x]
               PROVE  \/ x \in DOMAIN m /\ j \in DOMAIN m[x] /\ f[x][j] = m[x][j]
                      \/ \E i \in DOMAIN s : f[x][j] = s[i]
    OBVIOUS
  <2>1. CASE x # k
    BY <1>2, <2>1
  <2>2. CASE x = k
    <3>1. j \in DOMAIN old => k \in DOMAIN m /\ old = m[k]
      BY <1>1
    <3> QED BY <1>2, <1>5, <2>2, <3>1
  <2> QED BY <2>1, <2>2
<1> QED BY <1>2, <1>4, <1>6, <1>7 DEF f

\* What RecordsOf finds in a concatenation.
LEMMA RecordsOfConcat ==
  ASSUME NEW S, NEW s \in Seq(S), NEW t \in Seq(S)
  PROVE  RecordsOf(s \o t) = RecordsOf(s) \cup RecordsOf(t)
<1>1. ASSUME NEW i \in DOMAIN s
      PROVE  i \in DOMAIN (s \o t) /\ (s \o t)[i] = s[i]
  OBVIOUS
<1>2. ASSUME NEW i \in DOMAIN t
      PROVE  Len(s) + i \in DOMAIN (s \o t) /\ (s \o t)[Len(s) + i] = t[i]
  OBVIOUS
<1>3. RecordsOf(s \o t) \subseteq RecordsOf(s) \cup RecordsOf(t)
  <2> SUFFICES ASSUME NEW i \in DOMAIN (s \o t)
               PROVE  (s \o t)[i].rec \in RecordsOf(s) \cup RecordsOf(t)
    BY DEF RecordsOf
  <2> QED BY ConcatElement DEF RecordsOf
<1>4. RecordsOf(s) \subseteq RecordsOf(s \o t)
  BY <1>1 DEF RecordsOf
<1>5. RecordsOf(t) \subseteq RecordsOf(s \o t)
  BY <1>2 DEF RecordsOf
<1> QED BY <1>3, <1>4, <1>5

\* What RecordsOf finds when one element is appended.
LEMMA RecordsOfAppend ==
  ASSUME NEW S, NEW s \in Seq(S), NEW e \in S
  PROVE  /\ Append(s, e) = s \o <<e>>
         /\ RecordsOf(s \o <<e>>) = RecordsOf(s) \cup {e.rec}
<1> DEFINE t == <<e>>
<1>1. t \in Seq(S) /\ RecordsOf(t) = {e.rec}
  BY DEF RecordsOf
<1>2. RecordsOf(s \o t) = RecordsOf(s) \cup RecordsOf(t)
  <2> HIDE DEF t
  <2> QED BY <1>1, RecordsOfConcat
<1> QED BY <1>1, <1>2

\* Days and their entries, and what the record loop collects.
Days(E) == UNION {[D -> Seq(E) \ {<<>>}] : D \in SUBSET Nat}
Sums(E) == [last : Nat, errs : Seq(E), save : Days(E)]
Filed(m) == UNION {RecordsOf(m[d]) : d \in DOMAIN m}
Collected(a) == RecordsOf(a.errs) \cup Filed(a.save)

\* A day may get one entry more.
LEMMA DayKept ==
    ASSUME NEW E, NEW m \in Days(E), NEW d \in Nat, NEW e \in E
    PROVE  /\ AppendTo(m, d, <<e>>) \in Days(E)
           /\ Filed(m) \cup {e.rec} \subseteq Filed(AppendTo(m, d, <<e>>))
<1> DEFINE D == DOMAIN m \cup {d}
           s == Old(m, d) \o <<e>>
           f == AppendTo(m, d, <<e>>)
<1>1. DOMAIN m \in SUBSET Nat /\ \A x \in DOMAIN m : m[x] \in Seq(E) \ {<<>>}
  BY DEF Days
<1>2. Old(m, d) \in Seq(E)
  BY <1>1 DEF Old
<1>3. s \in Seq(E) /\ s # <<>>
  BY <1>2
<1>4. RecordsOf(s) = RecordsOf(Old(m, d)) \cup {e.rec}
  BY <1>2, RecordsOfAppend
<1>5. f = [x \in D |-> IF x = d THEN s ELSE m[x]]
  BY DEF AppendTo, Put, Old
<1> HIDE DEF s, f
<1>6. f \in [D -> Seq(E) \ {<<>>}] /\ D \in SUBSET Nat
  BY <1>1, <1>3, <1>5
<1>7. f \in Days(E)
  BY <1>6 DEF Days
<1>8. d \in DOMAIN f /\ f[d] = s
  BY <1>5
<1>9. ASSUME NEW x \in DOMAIN m
      PROVE  x \in DOMAIN f /\ RecordsOf(m[x]) \subseteq RecordsOf(f[x])
  <2>1. CASE x = d
    BY <1>4, <1>8, <2>1 DEF Old
  <2>2. CASE x # d
    BY <1>5, <2>2
  <2> QED BY <2>1, <2>2
<1>10. Filed(m) \cup {e.rec} \subseteq Filed(f)
  BY <1>4, <1>8, <1>9 DEF Filed
<1> QED BY <1>7, <1>10 DEF f

\* A day's entries.
LEMMA DayEntries ==
    ASSUME NEW E, NEW m \in Days(E), NEW d \in DOMAIN m
    PROVE  d \in Nat /\ m[d] \in Seq(E) \ {<<>>}
<1>1. PICK D \in SUBSET Nat : m \in [D -> Seq(E) \ {<<>>}]
  BY DEF Days
<1> QED BY <1>1

\* Nothing collected is lost on the way through a list.
LEMMA CollectedAll ==
    ASSUME NEW n \in Nat, NEW g, NEW x,
           \A k \in 1 .. n : Collected(g[k - 1]) \cup {x[k]} \subseteq Collected(g[k])
    PROVE  \A j \in 1 .. n : x[j] \in Collected(g[n])
<1> DEFINE V(k) == {x[j] : j \in 1 .. k}
           S == {k \in Nat : k <= n => V(k) \subseteq Collected(g[k])}
<1>1. 0 \in S
  OBVIOUS
<1>2. ASSUME NEW k \in Nat, k \in S PROVE k + 1 \in S
  <2>1. SUFFICES ASSUME k + 1 <= n PROVE V(k + 1) \subseteq Collected(g[k + 1])
    OBVIOUS
  <2>2. k + 1 \in 1 .. n /\ k + 1 - 1 = k /\ V(k) \subseteq Collected(g[k])
    BY <1>2, <2>1
  <2>3. Collected(g[k]) \cup {x[k + 1]} \subseteq Collected(g[k + 1])
    <3> HIDE DEF V
    <3> QED BY <2>2
  <2>4. V(k + 1) = V(k) \cup {x[k + 1]}
    <3>1. 1 .. k + 1 = 1 .. k \cup {k + 1}
      OBVIOUS
    <3> QED BY <3>1
  <2> HIDE DEF V
  <2> QED BY <2>2, <2>3, <2>4
<1>3. Nat \subseteq S
  <2> HIDE DEF S
  <2> QED BY <1>1, <1>2, Induction
<1>4. V(n) \subseteq Collected(g[n])
  <2> HIDE DEF V
  <2> QED BY <1>3
<1> QED BY <1>4

\* The first element and the others are all the elements.
LEMMA HeadAndTail ==
  ASSUME NEW S, NEW s \in Seq(S), s # <<>>
  PROVE  /\ Head(s) \in S /\ Tail(s) \in Seq(S)
         /\ Elements(s) = {Head(s)} \cup Elements(Tail(s))
<1>0. /\ Tail(s) \in Seq(S) /\ Len(Tail(s)) = Len(s) - 1
      /\ \A i \in 1 .. Len(s) - 1 : Tail(s)[i] = s[i + 1]
  OBVIOUS
<1>1. ASSUME NEW i \in DOMAIN s, i # 1
      PROVE  i - 1 \in DOMAIN Tail(s) /\ s[i] = Tail(s)[i - 1]
  BY <1>0, <1>1
<1>2. ASSUME NEW i \in DOMAIN Tail(s)
      PROVE  i + 1 \in DOMAIN s /\ s[i + 1] = Tail(s)[i]
  BY <1>0
<1>3. Head(s) = s[1] /\ 1 \in DOMAIN s /\ s[1] \in S
  OBVIOUS
<1>4. ASSUME NEW i \in DOMAIN s
      PROVE  s[i] \in {Head(s)} \cup Elements(Tail(s))
  <2>1. CASE i = 1
    BY <1>3, <2>1
  <2>2. CASE i # 1
    BY <1>1, <2>2 DEF Elements
  <2> QED BY <2>1, <2>2
<1>5. ASSUME NEW i \in DOMAIN Tail(s)
      PROVE  Tail(s)[i] \in Elements(s)
  BY <1>2 DEF Elements
<1>6. Head(s) \in Elements(s)
  BY <1>3 DEF Elements
<1>7. Elements(s) \subseteq {Head(s)} \cup Elements(Tail(s))
  BY <1>4 DEF Elements
<1>8. Elements(Tail(s)) \subseteq Elements(s)
  BY <1>5, Zenon DEF Elements
<1> QED BY <1>0, <1>3, <1>6, <1>7, <1>8
===============================================================================
