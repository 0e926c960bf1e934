--------------------------- MODULE TeltonikaProofs ---------------------------
(***************************************************************************)
(* What TeltonikaSession promises for any connections, trackers, packets,   *)
(* cuts and bounds.  Inv is inductive: while the Reads of a connection end  *)
(* where packets end, its stream is its tracker's login and packets, so     *)
(* that ParseData sees one packet or refuses what it sees; nothing of that  *)
(* packet is lost on the way through the record loop, and what is saved is  *)
(* filed under the name the login gave.                                      *)
(*                                                                         *)
(* The checksum of its packets is the remainder trackers compute, for every *)
(* body, once its table divides one step right (RoundDivides, which TLC     *)
(* evaluates): the exclusive or is associative and commutes with the shift, *)
(* so that eight divisions of a word are those of its high byte and those   *)
(* of its low byte; the table holds the first, and the second only shift.   *)
(***************************************************************************)
EXTENDS TeltonikaSession, DataLemmas

-----------------------------------------------------------------------------
(* The exclusive or.                                                       *)

\* A number of at most n bits is less than this.
Two(n) == <<1, 2, 4, 8, 16, 32, 64, 128, 256, 512, 1024, 2048, 4096, 8192,
            16384, 32768, 65536>>[n + 1]

\* One bit more.
LEMMA TwoNext == ASSUME NEW n \in 0 .. 15 PROVE Two(n) \in Nat /\ Two(n + 1) = 2 * Two(n)
  BY DEF Two

\* LowXor is the function its recursion describes.
LEMMA LowXorRecursion ==
    /\ LowXor \in [0 .. 16 -> [Nat -> [Nat -> Nat]]]
    /\ \A a, b \in Nat : LowXor[0][a][b] = 0
    /\ \A n \in 1 .. 16 : \A a, b \in Nat :
          LowXor[n][a][b] = ((a + b) % 2) + 2 * LowXor[n - 1][a \div 2][b \div 2]
<1> DEFINE A == [Nat -> [Nat -> Nat]]
           zero == [a \in Nat |-> [b \in Nat |-> 0]]
           More(f) == [a \in Nat |-> [b \in Nat |-> ((a + b) % 2) + 2 * f[a \div 2][b \div 2]]]
           step == [k \in 1 .. 16 |-> [f \in A |-> More(f)]]
           Cell(f, n) == [a \in Nat |-> [b \in Nat |->
               IF n = 0 THEN 0 ELSE ((a + b) % 2) + 2 * f[n - 1][a \div 2][b \div 2]]]
           Rec(f) == f = [n \in 0 .. 16 |-> Cell(f, n)]
<1>1. zero \in A
  OBVIOUS
<1>2. ASSUME NEW f \in A PROVE More(f) \in A
  <2>1. ASSUME NEW a \in Nat, NEW b \in Nat
        PROVE  ((a + b) % 2) + 2 * f[a \div 2][b \div 2] \in Nat
    <3>1. a \div 2 \in Nat /\ b \div 2 \in Nat /\ (a + b) % 2 \in Nat
      OBVIOUS
    <3>2. f[a \div 2][b \div 2] \in Nat
      BY <1>2, <3>1
    <3> DEFINE r == (a + b) % 2
               y == f[a \div 2][b \div 2]
    <3>3. r \in Nat /\ y \in Nat
      BY <3>1, <3>2
    <3>4. r + 2 * y \in Nat
      <4> HIDE DEF r, y
      <4> QED BY <3>3
    <3> QED BY <3>4
  <2> QED BY <2>1
<1>3. step \in StepsTo(16, A)
  <2> HIDE DEF More, A
  <2> QED BY <1>2 DEF StepsTo
<1>4. PICK g : Iterates(g, 16, A, zero, step)
  <2> HIDE DEF A, zero, step
  <2> QED BY <1>1, <1>3, Iteration
<1>5. g \in [0 .. 16 -> A] /\ g[0] = zero /\ \A n \in 1 .. 16 : g[n] = More(g[n - 1])
  <2>1. g \in [0 .. 16 -> A] /\ g[0] = zero /\ \A n \in 1 .. 16 : g[n] = step[n][g[n - 1]]
    <3> HIDE DEF A, zero, step
    <3> QED BY <1>4 DEF Iterates
  <2>2. ASSUME NEW n \in 1 .. 16 PROVE g[n] = More(g[n - 1])
    <3>1. g[n - 1] \in A
      <4>1. n - 1 \in 0 .. 16
        OBVIOUS
      <4> HIDE DEF A
      <4> QED BY <2>1, <4>1
    <3> HIDE DEF More, A
    <3> QED BY <2>1, <3>1
  <2> QED BY <2>1, <2>2
<1>6. \A n \in 0 .. 16 : g[n] = Cell(g, n)
  <2>1. Cell(g, 0) = zero
    OBVIOUS
  <2>2. ASSUME NEW n \in 1 .. 16 PROVE Cell(g, n) = More(g[n - 1])
    OBVIOUS
  <2> HIDE DEF Cell, More, zero, A, step
  <2> QED BY <1>5, <2>1, <2>2
<1>7. Rec(g)
  <2> HIDE DEF Cell, A, zero, More, step
  <2> QED BY <1>5, <1>6
<1>8. Rec(LowXor)
  <2>1. LowXor = CHOOSE f : Rec(f)
    BY DEF LowXor
  <2> HIDE DEF Rec
  <2> QED BY <1>7, <2>1, Zenon
<1>9. \A n \in 0 .. 16 : LowXor[n] = Cell(LowXor, n)
  <2> HIDE DEF Cell
  <2> QED BY <1>8
<1>10. Follows(LowXor, 16, A, zero, step)
  <2>1. Cell(LowXor, 0) = zero
    OBVIOUS
  <2>2. ASSUME NEW n \in 1 .. 16, LowXor[n - 1] \in A
        PROVE  LowXor[n] = step[n][LowXor[n - 1]]
    <3>1. Cell(LowXor, n) = More(LowXor[n - 1])
      OBVIOUS
    <3> HIDE DEF Cell, More, A
    <3> QED BY <1>9, <2>2, <3>1
  <2> HIDE DEF Cell, More, A, zero, step
  <2> QED BY <1>9, <2>1, <2>2 DEF Follows
<1>11. \A n \in 0 .. 16 : LowXor[n] = g[n]
  <2> HIDE DEF A, zero, step
  <2> QED BY <1>1, <1>4, <1>10, Unique
<1>12. LowXor \in [0 .. 16 -> A]
  <2>1. LowXor = [n \in 0 .. 16 |-> LowXor[n]]
    <3> HIDE DEF Cell
    <3> QED BY <1>8
  <2> HIDE DEF A
  <2> QED BY <1>5, <1>11, <2>1
<1>13. ASSUME NEW a \in Nat, NEW b \in Nat PROVE LowXor[0][a][b] = 0
  <2>1. LowXor[0] = zero
    <3>1. 0 \in 0 .. 16
      OBVIOUS
    <3> HIDE DEF zero, A, Cell, More
    <3> QED BY <1>5, <1>11, <3>1
  <2> QED BY <2>1
<1>14. ASSUME NEW n \in 1 .. 16, NEW a \in Nat, NEW b \in Nat
       PROVE  LowXor[n][a][b] = ((a + b) % 2) + 2 * LowXor[n - 1][a \div 2][b \div 2]
  <2>1. LowXor[n] = More(LowXor[n - 1])
    <3>1. n \in 0 .. 16 /\ n - 1 \in 0 .. 16
      OBVIOUS
    <3> HIDE DEF More, A, zero, Cell
    <3> QED BY <1>5, <1>11, <3>1
  <2> HIDE DEF Rec, Cell, step
  <2> QED BY <2>1
<1> QED BY <1>12, <1>13, <1>14

\* The last bit, and the bits before it.
LEMMA XorHalves ==
    ASSUME NEW n \in 1 .. 16, NEW a \in Nat, NEW b \in Nat
    PROVE  /\ LowXor[n][a][b] \in Nat /\ LowXor[n - 1][a \div 2][b \div 2] \in Nat
           /\ LowXor[n][a][b] = ((a + b) % 2) + 2 * LowXor[n - 1][a \div 2][b \div 2]
           /\ LowXor[n][a][b] % 2 = (a + b) % 2
           /\ LowXor[n][a][b] \div 2 = LowXor[n - 1][a \div 2][b \div 2]
<1>1. a \div 2 \in Nat /\ b \div 2 \in Nat /\ (a + b) % 2 \in {0, 1} /\ n - 1 \in 0 .. 16 /\ n \in 0 .. 16
  OBVIOUS
<1>2. LowXor[n][a][b] \in Nat /\ LowXor[n - 1][a \div 2][b \div 2] \in Nat
  <2>1. LowXor[n] \in [Nat -> [Nat -> Nat]] /\ LowXor[n - 1] \in [Nat -> [Nat -> Nat]]
    BY <1>1, LowXorRecursion
  <2> QED BY <1>1, <2>1
<1>3. LowXor[n][a][b] = ((a + b) % 2) + 2 * LowXor[n - 1][a \div 2][b \div 2]
  BY LowXorRecursion
<1> QED
  <2> DEFINE r == (a + b) % 2
             y == LowXor[n - 1][a \div 2][b \div 2]
             x == LowXor[n][a][b]
  <2>1. r \in {0, 1} /\ y \in Nat /\ x = r + 2 * y
    BY <1>1, <1>2, <1>3
  <2> HIDE DEF r, y, x
  <2>2. x % 2 = r /\ x \div 2 = y
    BY <2>1
  <2> QED BY <1>2, <1>3, <2>2 DEF r, y, x

\* Of no bits there is nothing.
LEMMA XorNil == ASSUME NEW a \in Nat, NEW b \in Nat PROVE LowXor[0][a][b] = 0
  BY LowXorRecursion

\* One bit more, seen from the lower bits.
LEMMA XorNext ==
    ASSUME NEW n \in 0 .. 15, NEW a \in Nat, NEW b \in Nat
    PROVE  LowXor[n + 1][a][b] = ((a + b) % 2) + 2 * LowXor[n][a \div 2][b \div 2]
<1> DEFINE m == n + 1
<1>1. m \in 1 .. 16 /\ m - 1 = n
  OBVIOUS
<1> HIDE DEF m
<1>2. LowXor[m][a][b] = ((a + b) % 2) + 2 * LowXor[m - 1][a \div 2][b \div 2]
  BY <1>1, LowXorRecursion
<1> QED BY <1>1, <1>2 DEF m

\* It is a number.
LEMMA XorType ==
    ASSUME NEW n \in 0 .. 16, NEW a \in Nat, NEW b \in Nat
    PROVE  LowXor[n][a][b] \in Nat
<1>1. LowXor[n] \in [Nat -> [Nat -> Nat]]
  BY LowXorRecursion
<1> QED BY <1>1

\* A sum of a bit and twice a number, taken apart again.
LEMMA BitAndHalf ==
    ASSUME NEW r \in {0, 1}, NEW y \in Nat
    PROVE  /\ r + 2 * y \in Nat /\ (r + 2 * y) % 2 = r /\ (r + 2 * y) \div 2 = y
  OBVIOUS

\* The last bit, and the bits before it.
LEMMA XorParts ==
    ASSUME NEW n \in 0 .. 15, NEW a \in Nat, NEW b \in Nat
    PROVE  /\ LowXor[n + 1][a][b] \in Nat
           /\ LowXor[n + 1][a][b] % 2 = (a + b) % 2
           /\ LowXor[n + 1][a][b] \div 2 = LowXor[n][a \div 2][b \div 2]
<1> DEFINE r == (a + b) % 2
           y == LowXor[n][a \div 2][b \div 2]
<1>1. a \div 2 \in Nat /\ b \div 2 \in Nat /\ r \in {0, 1} /\ n \in 0 .. 16
  OBVIOUS
<1>2. y \in Nat
  <2> HIDE DEF r
  <2> QED BY <1>1, XorType
<1>3. LowXor[n + 1][a][b] = r + 2 * y
  BY XorNext
<1> HIDE DEF r, y
<1>4. LowXor[n + 1][a][b] \in Nat /\ LowXor[n + 1][a][b] % 2 = r /\ LowXor[n + 1][a][b] \div 2 = y
  BY <1>1, <1>2, <1>3, BitAndHalf
<1> QED BY <1>4 DEF r, y

\* The operands may change places.
LEMMA XorCommutes ==
    \A n \in 0 .. 16 : \A a, b \in Nat : LowXor[n][a][b] = LowXor[n][b][a]
<1> DEFINE S == {n \in Nat : n <= 16 => \A a, b \in Nat : LowXor[n][a][b] = LowXor[n][b][a]}
<1>1. 0 \in S
  BY LowXorRecursion
<1>2. ASSUME NEW n \in Nat, n \in S PROVE n + 1 \in S
  <2>1. SUFFICES ASSUME n + 1 <= 16, NEW a \in Nat, NEW b \in Nat
                 PROVE  LowXor[n + 1][a][b] = LowXor[n + 1][b][a]
    OBVIOUS
  <2>2. n \in 0 .. 15 /\ a \div 2 \in Nat /\ b \div 2 \in Nat /\ a + b = b + a
    BY <2>1
  <2>3. LowXor[n][a \div 2][b \div 2] = LowXor[n][b \div 2][a \div 2]
    BY <1>2, <2>2
  <2> DEFINE x == (a + b) % 2
             y == LowXor[n][a \div 2][b \div 2]
             z == LowXor[n][b \div 2][a \div 2]
  <2>4. LowXor[n + 1][a][b] = x + 2 * y
    BY <2>2, XorNext
  <2>5. LowXor[n + 1][b][a] = ((b + a) % 2) + 2 * z
    BY <2>2, XorNext
  <2>6. (b + a) % 2 = x
    BY <2>2
  <2> HIDE DEF x
  <2>7. y = z
    BY <2>3
  <2> HIDE DEF y, z
  <2> QED BY <2>4, <2>5, <2>6, <2>7
<1>3. Nat \subseteq S
  <2> HIDE DEF S
  <2> QED BY <1>1, <1>2, Induction
<1> QED BY <1>3

\* The last bit of a sum.
LEMMA LastBit ==
    ASSUME NEW a \in Nat, NEW b \in Nat, NEW c \in Nat, NEW x \in Nat, NEW y \in Nat,
           x % 2 = (a + b) % 2, y % 2 = (b + c) % 2
    PROVE  (x + c) % 2 = (a + y) % 2
  OBVIOUS

\* Brackets may be moved.
LEMMA XorAssociates ==
    \A n \in 0 .. 16 : \A a, b, c \in Nat :
        LowXor[n][LowXor[n][a][b]][c] = LowXor[n][a][LowXor[n][b][c]]
<1> DEFINE P(n, a, b, c) == LowXor[n][LowXor[n][a][b]][c] = LowXor[n][a][LowXor[n][b][c]]
           S == {n \in Nat : n <= 16 => \A a, b, c \in Nat : P(n, a, b, c)}
<1>1. 0 \in S
  <2>1. ASSUME NEW a \in Nat, NEW b \in Nat, NEW c \in Nat PROVE P(0, a, b, c)
    <3>1. LowXor[0][a][b] = 0 /\ LowXor[0][b][c] = 0 /\ 0 \in Nat
      BY XorNil
    <3> QED BY <3>1, XorNil
  <2> QED BY <2>1
<1>2. ASSUME NEW n \in Nat, n \in S PROVE n + 1 \in S
  <2>1. SUFFICES ASSUME n + 1 <= 16, NEW a \in Nat, NEW b \in Nat, NEW c \in Nat
                 PROVE  P(n + 1, a, b, c)
    OBVIOUS
  <2> DEFINE x == LowXor[n + 1][a][b]
             y == LowXor[n + 1][b][c]
             p == a \div 2
             q == b \div 2
             r == c \div 2
  <2>2. n \in 0 .. 15 /\ p \in Nat /\ q \in Nat /\ r \in Nat
    BY <2>1
  <2>3. x \in Nat /\ x % 2 = (a + b) % 2 /\ x \div 2 = LowXor[n][p][q]
    BY <2>2, XorParts
  <2>4. y \in Nat /\ y % 2 = (b + c) % 2 /\ y \div 2 = LowXor[n][q][r]
    BY <2>2, XorParts
  <2> HIDE DEF x, y, p, q, r
  <2>5. (x + c) % 2 = (a + y) % 2
    BY <2>3, <2>4, LastBit
  <2>6. LowXor[n][LowXor[n][p][q]][r] = LowXor[n][p][LowXor[n][q][r]]
    <3>1. P(n, p, q, r)
      <4> HIDE DEF P
      <4> QED BY <1>2, <2>2
    <3> QED BY <3>1
  <2>7. LowXor[n + 1][x][c] = ((x + c) % 2) + 2 * LowXor[n][x \div 2][r]
    BY <2>2, <2>3, XorNext DEF r
  <2>8. LowXor[n + 1][a][y] = ((a + y) % 2) + 2 * LowXor[n][p][y \div 2]
    BY <2>2, <2>4, XorNext DEF p
  <2>9. LowXor[n + 1][x][c] = LowXor[n + 1][a][y]
    BY <2>3, <2>4, <2>5, <2>6, <2>7, <2>8
  <2> QED BY <2>9 DEF x, y
<1>3. Nat \subseteq S
  <2> HIDE DEF S
  <2> QED BY <1>1, <1>2, Induction
<1>4. ASSUME NEW n \in 0 .. 16, NEW a \in Nat, NEW b \in Nat, NEW c \in Nat PROVE P(n, a, b, c)
  <2> HIDE DEF P
  <2> QED BY <1>3
<1> QED BY <1>4

\* A number of at most n bits, and its half.
LEMMA TwoHalf ==
    ASSUME NEW n \in 0 .. 15, NEW a \in Nat, a < Two(n + 1)
    PROVE  a \div 2 \in Nat /\ a \div 2 < Two(n) /\ a = (a % 2) + 2 * (a \div 2)
<1>1. Two(n) \in Nat /\ Two(n + 1) = 2 * Two(n)
  BY TwoNext
<1> HIDE DEF Two
<1> QED BY <1>1

\* Zero changes nothing.
LEMMA XorZero ==
    \A n \in 0 .. 16 : \A a \in Nat : a < Two(n) => LowXor[n][a][0] = a /\ LowXor[n][0][a] = a
<1> DEFINE P(n, a) == a < Two(n) => LowXor[n][a][0] = a
           S == {n \in Nat : n <= 16 => \A a \in Nat : P(n, a)}
<1>1. 0 \in S
  <2>1. Two(0) = 1
    BY DEF Two
  <2>2. ASSUME NEW a \in Nat PROVE P(0, a)
    BY <2>1, XorNil
  <2> QED BY <2>2
<1>2. ASSUME NEW n \in Nat, n \in S PROVE n + 1 \in S
  <2>1. SUFFICES ASSUME n + 1 <= 16, NEW a \in Nat, a < Two(n + 1)
                 PROVE  LowXor[n + 1][a][0] = a
    OBVIOUS
  <2>2. n \in 0 .. 15 /\ 0 \div 2 = 0 /\ a + 0 = a /\ 0 \in Nat
    BY <2>1
  <2>3. a \div 2 \in Nat /\ a \div 2 < Two(n) /\ a = (a % 2) + 2 * (a \div 2)
    BY <2>1, <2>2, TwoHalf
  <2>4. LowXor[n][a \div 2][0] = a \div 2
    BY <1>2, <2>2, <2>3
  <2>5. LowXor[n + 1][a][0] = ((a + 0) % 2) + 2 * LowXor[n][a \div 2][0 \div 2]
    BY <2>2, XorNext
  <2> QED BY <2>2, <2>3, <2>4, <2>5
<1>3. Nat \subseteq S
  <2> HIDE DEF S
  <2> QED BY <1>1, <1>2, Induction
<1>4. ASSUME NEW n \in 0 .. 16, NEW a \in Nat, a < Two(n) PROVE LowXor[n][a][0] = a
  BY <1>3, <1>4
<1> QED BY <1>4, XorCommutes

\* Numbers of n bits have an exclusive or of n bits, the same in any more bits.
LEMMA XorNarrow ==
    \A n \in 0 .. 16 : \A m \in n .. 16 : \A a, b \in Nat :
        a < Two(n) /\ b < Two(n) => LowXor[m][a][b] = LowXor[n][a][b] /\ LowXor[m][a][b] < Two(n)
<1> DEFINE P(n, m, a, b) == LowXor[m][a][b] = LowXor[n][a][b] /\ LowXor[m][a][b] < Two(n)
           S == {n \in Nat : n <= 16 => \A m \in n .. 16 : \A a, b \in Nat :
                     a < Two(n) /\ b < Two(n) => P(n, m, a, b)}
<1>1. 0 \in S
  <2>1. Two(0) = 1
    BY DEF Two
  <2>2. ASSUME NEW m \in 0 .. 16, NEW a \in Nat, NEW b \in Nat, a < Two(0), b < Two(0)
        PROVE  P(0, m, a, b)
    <3>1. a = 0 /\ b = 0
      BY <2>1, <2>2
    <3>2. 0 < Two(m)
      BY DEF Two
    <3>3. LowXor[m][0][0] = 0 /\ LowXor[0][0][0] = 0
      BY <3>2, XorZero, LowXorRecursion
    <3> QED BY <2>1, <3>1, <3>3
  <2> QED BY <2>2
<1>2. ASSUME NEW n \in Nat, n \in S PROVE n + 1 \in S
  <2>1. SUFFICES ASSUME n + 1 <= 16, NEW m \in n + 1 .. 16, NEW a \in Nat, NEW b \in Nat,
                        a < Two(n + 1), b < Two(n + 1)
                 PROVE  P(n + 1, m, a, b)
    OBVIOUS
  <2> DEFINE k == m - 1
             p == a \div 2
             q == b \div 2
             r == (a + b) % 2
  <2>2. n \in 0 .. 15 /\ k \in n .. 16 /\ k \in 0 .. 15 /\ k + 1 = m /\ r \in {0, 1} /\ n <= 16
    BY <2>1
  <2>3. p \in Nat /\ p < Two(n) /\ q \in Nat /\ q < Two(n)
    BY <2>1, <2>2, TwoHalf
  <2>4. LowXor[k + 1][a][b] = r + 2 * LowXor[k][p][q]
    BY <2>2, XorNext
  <2>5. LowXor[n + 1][a][b] = r + 2 * LowXor[n][p][q]
    BY <2>2, XorNext
  <2>6. Two(n) \in Nat /\ Two(n + 1) = 2 * Two(n)
    BY <2>2, TwoNext
  <2>7. LowXor[k][p][q] \in Nat
    <3>1. k \in 0 .. 16
      BY <2>2
    <3> HIDE DEF k, p, q
    <3> QED BY <2>3, <3>1, XorType
  <2> HIDE DEF k, p, q, r
  <2>8. P(n, k, p, q)
    <3> HIDE DEF P
    <3> QED BY <1>2, <2>2, <2>3
  <2> QED BY <2>2, <2>4, <2>5, <2>6, <2>7, <2>8
<1>3. Nat \subseteq S
  <2> HIDE DEF S
  <2> QED BY <1>1, <1>2, Induction
<1> QED BY <1>3

\* The exclusive or of two numbers of 16 bits.
LEMMA XorWord ==
    ASSUME NEW a \in Word16, NEW b \in Word16
    PROVE  /\ Xor16(a, b) \in Word16 /\ Xor16(a, b) = Xor16(b, a)
           /\ Xor16(a, 0) = a /\ Xor16(0, a) = a
           /\ Xor16(a, b) % 2 = (a + b) % 2
           /\ Xor16(a, b) \div 2 = Xor16(a \div 2, b \div 2)
<1>1. Two(16) = 65536 /\ Two(15) = 32768
  BY DEF Two
<1>2. a \in Nat /\ b \in Nat /\ a < Two(16) /\ b < Two(16)
  BY <1>1 DEF Word16
<1> DEFINE p == a \div 2
           q == b \div 2
<1>3. p \in Nat /\ q \in Nat /\ p < Two(15) /\ q < Two(15)
  BY <1>1, <1>2
<1>4. LowXor[16][a][b] \in Nat /\ LowXor[16][a][b] < Two(16)
  BY <1>2, XorType, XorNarrow
<1>5. LowXor[16][a][b] = LowXor[16][b][a]
  BY <1>2, XorCommutes
<1>6. LowXor[16][a][0] = a /\ LowXor[16][0][a] = a
  BY <1>2, XorZero
<1>7. LowXor[16][a][b] % 2 = (a + b) % 2 /\ LowXor[16][a][b] \div 2 = LowXor[15][p][q]
  <2> DEFINE n == 15
  <2>1. n \in 0 .. 15 /\ n + 1 = 16
    OBVIOUS
  <2>2. /\ LowXor[n + 1][a][b] % 2 = (a + b) % 2
        /\ LowXor[n + 1][a][b] \div 2 = LowXor[n][a \div 2][b \div 2]
    <3> HIDE DEF n
    <3> QED BY <1>2, <2>1, XorParts
  <2> QED BY <2>1, <2>2
<1>8. LowXor[15][p][q] = LowXor[16][p][q]
  <2> HIDE DEF p, q
  <2> QED BY <1>3, XorNarrow
<1> DEFINE x == LowXor[16][a][b]
<1>9. x \in Word16
  BY <1>1, <1>4 DEF Word16
<1>10. /\ Xor16(a, b) = x /\ Xor16(b, a) = LowXor[16][b][a] /\ Xor16(a, 0) = LowXor[16][a][0]
       /\ Xor16(0, a) = LowXor[16][0][a] /\ Xor16(a \div 2, b \div 2) = LowXor[16][p][q]
  BY DEF Xor16
<1>11. Xor16(a, b) % 2 = (a + b) % 2 /\ Xor16(a, b) \div 2 = Xor16(a \div 2, b \div 2)
  <2> HIDE DEF p, q
  <2> QED BY <1>7, <1>8, <1>10
<1> QED BY <1>5, <1>6, <1>9, <1>10, <1>11

\* The exclusive or of two bytes.
LEMMA XorByte ==
    ASSUME NEW a \in Byte, NEW b \in Byte
    PROVE  Xor16(a, b) \in Byte
<1>1. Two(8) = 256
  BY DEF Two
<1>2. a \in Nat /\ b \in Nat /\ a < Two(8) /\ b < Two(8)
  BY <1>1 DEF Byte
<1>3. LowXor[16][a][b] \in Nat /\ LowXor[16][a][b] < Two(8)
  BY <1>2, XorType, XorNarrow
<1> QED BY <1>1, <1>3 DEF Xor16, Byte

\* Brackets may be moved.
LEMMA XorBrackets ==
    ASSUME NEW a \in Word16, NEW b \in Word16, NEW c \in Word16
    PROVE  Xor16(Xor16(a, b), c) = Xor16(a, Xor16(b, c))
<1>1. a \in Nat /\ b \in Nat /\ c \in Nat
  BY DEF Word16
<1>2. LowXor[16][LowXor[16][a][b]][c] = LowXor[16][a][LowXor[16][b][c]]
  BY <1>1, XorAssociates
<1> QED BY <1>2 DEF Xor16

\* Twice a number leaves the last bit to the other.
LEMMA JoinNext ==
    ASSUME NEW n \in 0 .. 15, NEW H \in Nat, NEW M \in Nat,
           \A l \in Nat : l < M => LowXor[n][H][l] = H + l
    PROVE  \A l \in Nat : l < 2 * M => LowXor[n + 1][2 * H][l] = 2 * H + l
<1> SUFFICES ASSUME NEW l \in Nat, l < 2 * M PROVE LowXor[n + 1][2 * H][l] = 2 * H + l
  OBVIOUS
<1> DEFINE d == 2 * H
<1>1. d \in Nat /\ d \div 2 = H /\ l \div 2 \in Nat /\ l \div 2 < M /\ (d + l) % 2 = l % 2
  OBVIOUS
<1>2. LowXor[n][H][l \div 2] = H + (l \div 2)
  BY <1>1
<1>3. LowXor[n + 1][d][l] = ((d + l) % 2) + 2 * LowXor[n][d \div 2][l \div 2]
  <2> HIDE DEF d
  <2> QED BY <1>1, XorNext
<1> QED BY <1>1, <1>2, <1>3

\* Two bytes side by side.
LEMMA JoinBytes ==
    ASSUME NEW h \in Byte, NEW l \in Byte
    PROVE  Xor16(256 * h, l) = 256 * h + l
<1> DEFINE Q(n, H, M) == \A i \in Nat : i < M => LowXor[n][H][i] = H + i
<1>1. Q(8, h, 1)
  <2>1. h \in Nat /\ h < Two(8)
    BY DEF Byte, Two
  <2>2. LowXor[8][h][0] = h
    BY <2>1, XorZero
  <2> QED BY <2>1, <2>2
<1>2. ASSUME NEW n \in 0 .. 15, NEW H \in Nat, NEW M \in Nat, Q(n, H, M)
      PROVE  Q(n + 1, 2 * H, 2 * M)
  BY <1>2, JoinNext
<1>0. h \in Nat
  BY DEF Byte
<1> HIDE DEF Q
<1>3. Q(9, 2 * h, 2)
  BY <1>0, <1>1, <1>2
<1>4. Q(10, 4 * h, 4)
  BY <1>0, <1>2, <1>3
<1>5. Q(11, 8 * h, 8)
  BY <1>0, <1>2, <1>4
<1>6. Q(12, 16 * h, 16)
  BY <1>0, <1>2, <1>5
<1>7. Q(13, 32 * h, 32)
  BY <1>0, <1>2, <1>6
<1>8. Q(14, 64 * h, 64)
  BY <1>0, <1>2, <1>7
<1>9. Q(15, 128 * h, 128)
  BY <1>0, <1>2, <1>8
<1>10. Q(16, 256 * h, 256)
  BY <1>0, <1>2, <1>9
<1> QED BY <1>10 DEF Q, Xor16, Byte

-----------------------------------------------------------------------------
(* The division.                                                           *)

\* A step of the division takes 16 bits to 16 bits.
LEMMA DivideType == ASSUME NEW n \in Word16 PROVE Divide(n) \in Word16
<1>1. n \div 2 \in Word16 /\ \hA001 \in Word16
  BY DEF Word16
<1>2. Xor16(n \div 2, \hA001) \in Word16
  BY <1>1, XorWord
<1> QED BY <1>1, <1>2 DEF Divide

\* A step moves what is above the last bit down.
LEMMA DivideMoves ==
    ASSUME NEW K \in Word16, 2 * K \in Word16, NEW l \in Word16
    PROVE  Divide(Xor16(2 * K, l)) = Xor16(K, Divide(l))
<1> DEFINE d == 2 * K
           x == Xor16(d, l)
           p == l \div 2
           P == \hA001
<1>0. K \in Nat /\ l \in Nat /\ l <= 65535 /\ d \in Word16
  BY DEF Word16
<1>1. d \in Word16 /\ d \div 2 = K /\ (d + l) % 2 = l % 2 /\ p \in Word16 /\ P \in Word16
  <2>1. d \div 2 = K
    BY <1>0
  <2>2. (d + l) % 2 = l % 2
    BY <1>0
  <2>3. p \in Word16 /\ P \in Word16
    BY <1>0 DEF Word16
  <2> QED BY <1>0, <2>1, <2>2, <2>3
<1>2. x % 2 = l % 2 /\ x \div 2 = Xor16(K, p)
  <2> HIDE DEF d
  <2> QED BY <1>1, XorWord
<1>3. Xor16(Xor16(K, p), P) = Xor16(K, Xor16(p, P))
  <2> HIDE DEF p, P
  <2> QED BY <1>1, XorBrackets
<1>4. Divide(x) = IF l % 2 = 1 THEN Xor16(Xor16(K, p), P) ELSE Xor16(K, p)
  <2> HIDE DEF p, x
  <2> QED BY <1>2 DEF Divide
<1>5. Divide(l) = IF l % 2 = 1 THEN Xor16(p, P) ELSE p
  BY DEF Divide
<1> HIDE DEF p, x, P
<1> QED BY <1>3, <1>4, <1>5 DEF x

\* Eight steps.
LEMMA DividedSteps ==
    ASSUME NEW n \in Word16
    PROVE  \E g \in [0 .. 8 -> Word16] :
              /\ g[0] = n /\ \A k \in 0 .. 7 : g[k + 1] = Divide(g[k])
              /\ Divided(n) = g[8]
<1> DEFINE step == [k \in 1 .. 8 |-> [a \in Word16 |-> Divide(a)]]
           R(f, k) == IF k = 0 THEN n ELSE Divide(f[k - 1])
           Rec(f) == f = [k \in 0 .. 8 |-> R(f, k)]
<1>1. step \in StepsTo(8, Word16)
  <2>1. [a \in Word16 |-> Divide(a)] \in [Word16 -> Word16]
    BY DivideType
  <2> QED BY <2>1 DEF StepsTo
<1>2. PICK g : Iterates(g, 8, Word16, n, step)
  <2> HIDE DEF step
  <2> QED BY <1>1, Iteration
<1>3. /\ g \in [0 .. 8 -> Word16] /\ g[0] = n
      /\ \A k \in 1 .. 8 : g[k] = step[k][g[k - 1]]
  BY <1>2 DEF Iterates
<1>4. \A k \in 1 .. 8 : g[k - 1] \in Word16 /\ g[k] = Divide(g[k - 1])
  <2> SUFFICES ASSUME NEW k \in 1 .. 8 PROVE g[k - 1] \in Word16 /\ g[k] = Divide(g[k - 1])
    OBVIOUS
  <2>1. k - 1 \in 0 .. 8
    OBVIOUS
  <2>2. g[k - 1] \in Word16
    BY <1>3, <2>1
  <2>3. step[k][g[k - 1]] = Divide(g[k - 1])
    BY <2>2
  <2> QED BY <1>3, <2>2, <2>3
<1>5. Rec(g)
  <2>1. \A k \in 0 .. 8 : g[k] = R(g, k)
    BY <1>3, <1>4
  <2> HIDE DEF R
  <2> QED BY <1>3, <2>1
<1>6. PICK h : Rec(h) /\ Divided(n) = h[8]
  <2>1. Divided(n) = (CHOOSE f : Rec(f))[8]
    BY DEF Divided
  <2> HIDE DEF Rec
  <2> QED BY <1>5, <2>1, Zenon
<1>7. \A k \in 0 .. 8 : h[k] = R(h, k)
  <2> HIDE DEF R
  <2> QED BY <1>6
<1>8. Follows(h, 8, Word16, n, step)
  <2>1. h[0] = n
    BY <1>7
  <2>2. ASSUME NEW k \in 1 .. 8, h[k - 1] \in Word16 PROVE h[k] = step[k][h[k - 1]]
    BY <1>7, <2>2
  <2> HIDE DEF step
  <2> QED BY <2>1, <2>2 DEF Follows
<1>9. h[8] = g[8]
  <2>1. \A k \in 0 .. 8 : h[k] = g[k]
    <3> HIDE DEF step
    <3> QED BY <1>2, <1>8, Unique
  <2> QED BY <2>1
<1>10. \A k \in 0 .. 7 : g[k + 1] = Divide(g[k])
  <2> SUFFICES ASSUME NEW k \in 0 .. 7 PROVE g[k + 1] = Divide(g[k])
    OBVIOUS
  <2>1. k + 1 \in 1 .. 8 /\ k + 1 - 1 = k
    OBVIOUS
  <2> QED BY <1>4, <2>1
<1> QED BY <1>3, <1>6, <1>9, <1>10

\* They move what is above the low byte down by a byte.
LEMMA DividedMoves ==
    ASSUME NEW h \in Byte, NEW l \in Word16
    PROVE  /\ Divided(l) \in Word16
           /\ Divided(Xor16(256 * h, l)) = Xor16(h, Divided(l))
<1>0. /\ h \in Word16 /\ 2 * h \in Word16 /\ 4 * h \in Word16 /\ 8 * h \in Word16
      /\ 16 * h \in Word16 /\ 32 * h \in Word16 /\ 64 * h \in Word16
      /\ 128 * h \in Word16 /\ 256 * h \in Word16
  <2>1. h \in Nat /\ h <= 255
    BY DEF Byte
  <2>2. h \in Word16 /\ 2 * h \in Word16 /\ 4 * h \in Word16
    BY <2>1 DEF Word16
  <2>3. 8 * h \in Word16 /\ 16 * h \in Word16 /\ 32 * h \in Word16
    BY <2>1 DEF Word16
  <2>4. 64 * h \in Word16 /\ 128 * h \in Word16 /\ 256 * h \in Word16
    BY <2>1 DEF Word16
  <2> QED BY <2>2, <2>3, <2>4
<1> DEFINE x == Xor16(256 * h, l)
<1>1. x \in Word16
  BY <1>0, XorWord
<1> HIDE DEF x
<1>2. PICK g \in [0 .. 8 -> Word16] :
        g[0] = l /\ (\A k \in 0 .. 7 : g[k + 1] = Divide(g[k])) /\ Divided(l) = g[8]
  BY DividedSteps
<1>3. PICK f \in [0 .. 8 -> Word16] :
        f[0] = x /\ (\A k \in 0 .. 7 : f[k + 1] = Divide(f[k])) /\ Divided(x) = f[8]
  BY <1>1, DividedSteps
<1> DEFINE Q(k, K) == f[k] = Xor16(K, g[k])
<1>4. ASSUME NEW k \in 0 .. 7, NEW K \in Word16, 2 * K \in Word16, Q(k, 2 * K)
      PROVE  Q(k + 1, K)
  <2>1. g[k] \in Word16 /\ f[k + 1] = Divide(f[k]) /\ g[k + 1] = Divide(g[k])
    BY <1>2, <1>3
  <2>2. Divide(Xor16(2 * K, g[k])) = Xor16(K, Divide(g[k]))
    BY <1>4, <2>1, DivideMoves
  <2> QED BY <1>4, <2>1, <2>2
<1>5. Q(0, 256 * h)
  BY <1>2, <1>3 DEF x
<1> HIDE DEF Q
<1>6. Q(1, 128 * h)
  <2>1. 2 * (128 * h) = 256 * h /\ 0 \in 0 .. 7 /\ 0 + 1 = 1
    BY DEF Byte
  <2> QED BY <1>0, <1>4, <1>5, <2>1
<1>7. Q(2, 64 * h)
  <2>1. 2 * (64 * h) = 128 * h /\ 1 \in 0 .. 7 /\ 1 + 1 = 2
    BY DEF Byte
  <2> QED BY <1>0, <1>4, <1>6, <2>1
<1>8. Q(3, 32 * h)
  <2>1. 2 * (32 * h) = 64 * h /\ 2 \in 0 .. 7 /\ 2 + 1 = 3
    BY DEF Byte
  <2> QED BY <1>0, <1>4, <1>7, <2>1
<1>9. Q(4, 16 * h)
  <2>1. 2 * (16 * h) = 32 * h /\ 3 \in 0 .. 7 /\ 3 + 1 = 4
    BY DEF Byte
  <2> QED BY <1>0, <1>4, <1>8, <2>1
<1>10. Q(5, 8 * h)
  <2>1. 2 * (8 * h) = 16 * h /\ 4 \in 0 .. 7 /\ 4 + 1 = 5
    BY DEF Byte
  <2> QED BY <1>0, <1>4, <1>9, <2>1
<1>11. Q(6, 4 * h)
  <2>1. 2 * (4 * h) = 8 * h /\ 5 \in 0 .. 7 /\ 5 + 1 = 6
    BY DEF Byte
  <2> QED BY <1>0, <1>4, <1>10, <2>1
<1>12. Q(7, 2 * h)
  <2>1. 2 * (2 * h) = 4 * h /\ 6 \in 0 .. 7 /\ 6 + 1 = 7
    BY DEF Byte
  <2> QED BY <1>0, <1>4, <1>11, <2>1
<1>13. Q(8, h)
  BY <1>0, <1>4, <1>12
<1> QED BY <1>2, <1>3, <1>13 DEF Q, x

-----------------------------------------------------------------------------
(* The checksum.                                                           *)

\* A number of 16 bits is its two bytes side by side.
LEMMA WordBytes ==
    ASSUME NEW n \in Word16
    PROVE  /\ n \div 256 \in Byte /\ n % 256 \in Byte
           /\ n = 256 * (n \div 256) + (n % 256)
  BY DEF Word16, Byte

\* A byte is a word.
LEMMA ByteIsWord == ASSUME NEW v \in Byte PROVE v \in Word16 /\ v \in Nat /\ 0 \in Word16 /\ 0 \in Byte
  BY DEF Word16, Byte

\* The table as a whole: with the rounds that a run of TLC checks, those on a sum
\* of at most one bit, a round of any sum and byte is eight steps of the division.
LEMMA RoundIsDivision ==
    ASSUME RoundDivides, NEW n \in Word16, NEW v \in Byte
    PROVE  Round(n, v) = Divided(Xor16(n, v)) /\ Round(n, v) \in Word16
<1> DEFINE h == n \div 256
           l == n % 256
           u == Xor16(v, l)
<1>1. h \in Byte /\ l \in Byte /\ n = 256 * h + l
  BY WordBytes
<1> HIDE DEF h, l
<1>2. u \in Byte
  BY <1>1, XorByte
<1>3. /\ h \in Word16 /\ l \in Word16 /\ v \in Word16 /\ u \in Word16
      /\ 0 \in Word16 /\ 0 \in Byte /\ u \in Nat
  <2> HIDE DEF u
  <2> QED BY <1>1, <1>2, ByteIsWord
<1>4. Divided(u) = MbTable[u + 1] /\ MbTable[u + 1] \in Word16
  <2> HIDE DEF u
  <2>1. Round(0, u) = Divided(Xor16(0, u))
    BY <1>2 DEF RoundDivides
  <2>2. Xor16(0, u) = u /\ Xor16(u, 0) = u
    BY <1>3, XorWord
  <2>3. u + 1 \in 1 .. 256
    BY <1>2 DEF Byte
  <2>4. MbTable[u + 1] \in Word16
    <3> HIDE DEF MbTable
    <3> QED BY <2>3 DEF RoundDivides
  <2>5. Round(0, u) = Xor16(0, MbTable[u + 1])
    <3>1. 0 \div 256 = 0 /\ 0 % 256 = 0
      OBVIOUS
    <3> HIDE DEF MbTable
    <3> QED BY <2>2, <3>1 DEF Round
  <2>6. Xor16(0, MbTable[u + 1]) = MbTable[u + 1]
    <3> HIDE DEF MbTable
    <3> QED BY <2>4, XorWord
  <2> HIDE DEF MbTable
  <2> QED BY <2>1, <2>2, <2>4, <2>5, <2>6
<1>5. Round(n, v) = Xor16(h, Divided(u))
  <2> HIDE DEF MbTable
  <2> QED BY <1>4 DEF Round, h, l
<1>6. Divided(Xor16(256 * h, u)) = Xor16(h, Divided(u))
  <2> HIDE DEF u
  <2> QED BY <1>1, <1>3, DividedMoves
<1>7. Xor16(256 * h, u) = Xor16(n, v)
  <2> DEFINE H == 256 * h
  <2>1. H \in Word16
    BY <1>1 DEF Word16, Byte
  <2>2. Xor16(H, l) = n
    BY <1>1, JoinBytes
  <2> HIDE DEF H
  <2>3. u = Xor16(l, v)
    BY <1>3, XorWord
  <2>4. Xor16(Xor16(H, l), v) = Xor16(H, Xor16(l, v))
    BY <1>3, <2>1, XorBrackets
  <2>5. Xor16(H, u) = Xor16(n, v)
    <3> HIDE DEF u
    <3> QED BY <2>2, <2>3, <2>4
  <2> QED BY <2>5 DEF H
<1>8. Divided(u) \in Word16
  <2> HIDE DEF u
  <2> QED BY <1>3, <1>1, DividedMoves
<1>9. Xor16(h, Divided(u)) \in Word16
  <2> HIDE DEF u
  <2> QED BY <1>3, <1>8, XorWord
<1> HIDE DEF u
<1> QED BY <1>5, <1>6, <1>7, <1>9

\* One byte more of a body.
Rounds(data) == [k \in 1 .. Len(data) |-> [a \in Word16 |-> Divided(Xor16(a, data[k]))]]

\* What a tracker computes byte by byte.
LEMMA RemainderIterates ==
    ASSUME NEW data \in Seq(Byte)
    PROVE  \E g : /\ Iterates(g, Len(data), Word16, 0, Rounds(data))
                  /\ Remainder(data) = g[Len(data)]
<1> DEFINE n == Len(data)
           step == Rounds(data)
           R(f, k) == IF k = 0 THEN 0 ELSE Divided(Xor16(f[k - 1], data[k]))
           Rec(f) == f = [k \in 0 .. n |-> R(f, k)]
<1>0. n \in Nat /\ 0 \in Word16 /\ \A k \in 1 .. n : data[k] \in Byte
  BY DEF Word16
<1>1. ASSUME NEW k \in 1 .. n, NEW a \in Word16 PROVE Divided(Xor16(a, data[k])) \in Word16
  <2>1. data[k] \in Word16 /\ 0 \in Byte
    BY <1>0, ByteIsWord
  <2> HIDE DEF n
  <2>2. Xor16(a, data[k]) \in Word16
    BY <2>1, XorWord
  <2> QED BY <2>1, <2>2, DividedMoves
<1>2. step \in StepsTo(n, Word16)
  <2> HIDE DEF n
  <2>1. ASSUME NEW k \in 1 .. n
        PROVE  [a \in Word16 |-> Divided(Xor16(a, data[k]))] \in [Word16 -> Word16]
    BY <1>1
  <2> QED BY <2>1 DEF StepsTo, Rounds, n
<1>3. PICK g : Iterates(g, n, Word16, 0, step)
  <2> HIDE DEF step, n
  <2> QED BY <1>0, <1>2, Iteration
<1>4. /\ g \in [0 .. n -> Word16] /\ g[0] = 0
      /\ \A k \in 1 .. n : g[k] = Divided(Xor16(g[k - 1], data[k]))
  <2>1. /\ g \in [0 .. n -> Word16] /\ g[0] = 0
        /\ \A k \in 1 .. n : g[k] = step[k][g[k - 1]]
    BY <1>3 DEF Iterates
  <2>2. ASSUME NEW k \in 1 .. n PROVE g[k] = Divided(Xor16(g[k - 1], data[k]))
    <3>1. g[k - 1] \in Word16
      <4> HIDE DEF n
      <4> QED BY <1>0, <2>1
    <3>2. step[k][g[k - 1]] = Divided(Xor16(g[k - 1], data[k]))
      BY <3>1 DEF Rounds
    <3> QED BY <2>1, <3>2
  <2> QED BY <2>1, <2>2
<1>5. Rec(g)
  <2>1. \A k \in 0 .. n : g[k] = R(g, k)
    <3> HIDE DEF n
    <3> QED BY <1>0, <1>4
  <2> HIDE DEF R, n
  <2> QED BY <1>4, <2>1
<1>6. PICK h : Rec(h) /\ Remainder(data) = h[n]
  <2>1. Remainder(data) = (CHOOSE f : Rec(f))[n]
    BY DEF Remainder
  <2> HIDE DEF Rec
  <2> QED BY <1>5, <2>1, Zenon
<1>7. \A k \in 0 .. n : h[k] = R(h, k)
  <2> HIDE DEF R, n
  <2> QED BY <1>6
<1>8. Follows(h, n, Word16, 0, step)
  <2>1. h[0] = 0
    BY <1>0, <1>7
  <2>2. ASSUME NEW k \in 1 .. n, h[k - 1] \in Word16 PROVE h[k] = step[k][h[k - 1]]
    <3>1. h[k] = Divided(Xor16(h[k - 1], data[k]))
      <4> HIDE DEF n
      <4> QED BY <1>0, <1>7
    <3>2. step[k][h[k - 1]] = Divided(Xor16(h[k - 1], data[k]))
      BY <2>2 DEF Rounds
    <3> QED BY <3>1, <3>2
  <2> HIDE DEF step
  <2> QED BY <2>1, <2>2 DEF Follows
<1>9. h[n] = g[n]
  <2>1. \A k \in 0 .. n : h[k] = g[k]
    <3> HIDE DEF step, n
    <3> QED BY <1>0, <1>3, <1>8, Unique
  <2> QED BY <1>0, <2>1
<1> QED BY <1>3, <1>6, <1>9

\* The remainder is a number of 16 bits.
LEMMA RemainderType == ASSUME NEW data \in Seq(Byte) PROVE Remainder(data) \in Word16
<1>1. PICK g : /\ Iterates(g, Len(data), Word16, 0, Rounds(data))
               /\ Remainder(data) = g[Len(data)]
  BY RemainderIterates
<1> QED BY <1>1 DEF Iterates

\* CheckSumCRC16 with its table of 256 entries is the remainder that a tracker
\* computes by division, for a body of any length: the code accepts what was sent
\* as it was sent.  The table enters by what TLC checks of it (TableIsSound).
THEOREM ChecksumIsRemainder ==
    ASSUME RoundDivides, NEW data \in Seq(Byte)
    PROVE  CheckSumCRC16(data) = Remainder(data)
<1> DEFINE n == Len(data)
           step == Rounds(data)
           R(f, k) == IF k = 0 THEN 0 ELSE Round(f[k - 1], data[k])
           Rec(f) == f = [k \in 0 .. n |-> R(f, k)]
<1>0. n \in Nat /\ 0 \in Word16 /\ \A k \in 1 .. n : data[k] \in Byte
  BY DEF Word16
<1>1. ASSUME NEW k \in 1 .. n, NEW a \in Word16
      PROVE  Round(a, data[k]) = step[k][a]
  <2>1. step[k][a] = Divided(Xor16(a, data[k]))
    BY DEF Rounds
  <2> HIDE DEF step, n
  <2> QED BY <1>0, <2>1, RoundIsDivision
<1>2. PICK g : Iterates(g, n, Word16, 0, step) /\ Remainder(data) = g[n]
  BY RemainderIterates
<1>3. /\ g \in [0 .. n -> Word16] /\ g[0] = 0
      /\ \A k \in 1 .. n : g[k] = step[k][g[k - 1]]
  BY <1>2 DEF Iterates
<1> HIDE DEF step
<1>4. Rec(g)
  <2>1. \A k \in 1 .. n : g[k - 1] \in Word16
    <3> HIDE DEF n
    <3> QED BY <1>0, <1>3
  <2>2. \A k \in 0 .. n : g[k] = R(g, k)
    <3> HIDE DEF n
    <3> QED BY <1>0, <1>1, <1>3, <2>1
  <2> HIDE DEF R, n
  <2> QED BY <1>3, <2>2
<1>5. PICK h : Rec(h) /\ CheckSumCRC16(data) = h[n]
  <2>1. CheckSumCRC16(data) = (CHOOSE f : Rec(f))[n]
    BY DEF CheckSumCRC16
  <2> HIDE DEF Rec
  <2> QED BY <1>4, <2>1, Zenon
<1>6. \A k \in 0 .. n : h[k] = R(h, k)
  <2> HIDE DEF R, n
  <2> QED BY <1>5
<1>7. Follows(h, n, Word16, 0, step)
  <2>1. h[0] = 0
    BY <1>0, <1>6
  <2>2. ASSUME NEW k \in 1 .. n, h[k - 1] \in Word16 PROVE h[k] = step[k][h[k - 1]]
    <3> HIDE DEF n
    <3> QED BY <1>0, <1>1, <1>6, <2>2
  <2> HIDE DEF n
  <2> QED BY <2>1, <2>2 DEF Follows
<1>8. h[n] = g[n]
  <2>2. \A k \in 0 .. n : h[k] = g[k]
    <3> HIDE DEF n
    <3> QED BY <1>0, <1>2, <1>7, Unique
  <2> QED BY <1>0, <2>2
<1> QED BY <1>2, <1>5, <1>8

-----------------------------------------------------------------------------
(* What the record loop collects.                                          *)

\* The entries of a connection and the tracker behind it.
Own(c) == {e \in Entry : e.dev = device[c] /\ e.via = c}

\* One record is added to what was collected.
LEMMA KeepOne ==
    ASSUME NEW c \in Conn, device[c] \in Device, NEW a \in Sums(Own(c)), NEW r \in Byte
    PROVE  /\ Keep(c, a, r) \in Sums(Own(c))
           /\ Collected(a) \cup {r} \subseteq Collected(Keep(c, a, r))
<1> DEFINE E == Own(c)
           e == [dev |-> device[c], via |-> c, rec |-> r]
<1>1. a.last \in Nat /\ a.errs \in Seq(E) /\ a.save \in Days(E)
      /\ a = [last |-> a.last, errs |-> a.errs, save |-> a.save]
  BY DEF Sums
<1>2. e \in E /\ e.rec = r
  BY DEF Own, Entry
<1>3. Day(r) \in Nat /\ r \in Nat
  BY NumberAssumption DEF Day, NumberAssumption, Byte
<1> HIDE DEF E, e
<1>4. CASE Fits(a.last, r)
  <2> DEFINE m == AppendTo(a.save, Day(r), <<e>>)
  <2>1. m \in Days(E) /\ Filed(a.save) \cup {e.rec} \subseteq Filed(m)
    BY <1>1, <1>2, <1>3, DayKept
  <2>2. Keep(c, a, r) = [last |-> r, errs |-> a.errs, save |-> m]
    BY <1>1, <1>4 DEF Keep, e
  <2> HIDE DEF m
  <2>3. Keep(c, a, r) \in Sums(E)
    BY <1>1, <1>3, <2>1, <2>2 DEF Sums
  <2>4. Collected(Keep(c, a, r)) = RecordsOf(a.errs) \cup Filed(m)
    BY <2>2 DEF Collected
  <2> QED BY <1>2, <2>1, <2>3, <2>4 DEF Collected, E
<1>5. CASE ~Fits(a.last, r)
  <2> DEFINE s == Append(a.errs, e)
  <2>1. s \in Seq(E)
    BY <1>1, <1>2
  <2>2. Keep(c, a, r) = [last |-> a.last, errs |-> s, save |-> a.save]
    BY <1>1, <1>5 DEF Keep, e
  <2>3. RecordsOf(s) = RecordsOf(a.errs) \cup {r}
    <3>1. s = a.errs \o <<e>>
      BY <1>1, <1>2
    <3>2. RecordsOf(a.errs \o <<e>>) = RecordsOf(a.errs) \cup {e.rec}
      BY <1>1, <1>2, RecordsOfAppend
    <3> QED BY <1>2, <3>1, <3>2
  <2> HIDE DEF s
  <2>4. Keep(c, a, r) \in Sums(E)
    BY <1>1, <2>1, <2>2 DEF Sums
  <2>5. Collected(Keep(c, a, r)) = RecordsOf(s) \cup Filed(a.save)
    BY <2>2 DEF Collected
  <2> QED BY <2>3, <2>4, <2>5 DEF Collected, E
<1> QED BY <1>4, <1>5

\* What the record loop starts with, and its steps.
Start(last) == [last |-> last, errs |-> <<>>, save |-> Empty]
Turns(c, recs) ==
    [k \in 1 .. Len(recs) |-> [a \in Sums(Own(c)) |-> Keep(c, a, recs[k])]]

\* The record loop is a recursion over the records.
LEMMA KeptIterates ==
    ASSUME NEW c \in Conn, device[c] \in Device, NEW last \in Nat, NEW recs \in Seq(Byte)
    PROVE  \E g : /\ Iterates(g, Len(recs), Sums(Own(c)), Start(last), Turns(c, recs))
                  /\ Kept(c, last, recs) = g[Len(recs)]
<1> DEFINE A == Sums(Own(c))
           n == Len(recs)
           b == Start(last)
           turn == Turns(c, recs)
<1>1. n \in Nat /\ \A k \in 1 .. n : recs[k] \in Byte
  OBVIOUS
<1>2. b \in A
  <2>1. Empty \in [{} -> Seq(Own(c)) \ {<<>>}] /\ {} \in SUBSET Nat
    BY DEF Empty
  <2>2. Empty \in Days(Own(c))
    BY <2>1 DEF Days
  <2>3. <<>> \in Seq(Own(c))
    OBVIOUS
  <2> QED BY <2>2, <2>3 DEF Start, Sums
<1>3. turn \in StepsTo(n, A)
  <2>1. ASSUME NEW k \in 1 .. n, NEW a \in A PROVE Keep(c, a, recs[k]) \in A
    BY <1>1, KeepOne
  <2> HIDE DEF A, n
  <2>2. ASSUME NEW k \in 1 .. n PROVE [a \in A |-> Keep(c, a, recs[k])] \in [A -> A]
    BY <2>1
  <2> QED BY <2>2 DEF StepsTo, Turns, n, A
<1>4. PICK g : Iterates(g, n, A, b, turn)
  <2> HIDE DEF A, n, b, turn
  <2> QED BY <1>1, <1>2, <1>3, Iteration
<1> DEFINE R(f, k) == IF k = 0 THEN b ELSE Keep(c, f[k - 1], recs[k])
           Rec(f) == f = [k \in 0 .. n |-> R(f, k)]
<1>5. g \in [0 .. n -> A] /\ \A k \in 0 .. n : g[k] = R(g, k)
  <2>1. g \in [0 .. n -> A] /\ g[0] = b /\ \A k \in 1 .. n : g[k] = turn[k][g[k - 1]]
    BY <1>4 DEF Iterates
  <2>2. ASSUME NEW k \in 1 .. n PROVE g[k] = Keep(c, g[k - 1], recs[k])
    <3>1. g[k - 1] \in A
      <4> HIDE DEF A, n
      <4> QED BY <1>1, <2>1
    <3>2. turn[k][g[k - 1]] = Keep(c, g[k - 1], recs[k])
      <4> HIDE DEF A
      <4> QED BY <3>1 DEF Turns, A
    <3> QED BY <2>1, <3>2
  <2> HIDE DEF A, n, b, turn
  <2> QED BY <1>1, <2>1, <2>2
<1>6. Rec(g)
  <2> HIDE DEF A, n, R
  <2> QED BY <1>5
<1>7. Kept(c, last, recs) = (CHOOSE f : Rec(f))[n]
  BY DEF Kept, Start
<1>8. PICK h : Rec(h) /\ Kept(c, last, recs) = h[n]
  <2> HIDE DEF Rec
  <2> QED BY <1>6, <1>7, Zenon
<1>9. \A k \in 0 .. n : h[k] = R(h, k)
  <2> HIDE DEF R, n
  <2> QED BY <1>8
<1>10. Follows(h, n, A, b, turn)
  <2>1. h[0] = b
    <3>1. 0 \in 0 .. n /\ R(h, 0) = b
      BY <1>1
    <3> HIDE DEF R, n
    <3> QED BY <1>9, <3>1
  <2>2. ASSUME NEW k \in 1 .. n, h[k - 1] \in A PROVE h[k] = turn[k][h[k - 1]]
    <3>1. h[k] = Keep(c, h[k - 1], recs[k])
      <4> HIDE DEF n, b
      <4> QED BY <1>1, <1>9
    <3>2. turn[k][h[k - 1]] = Keep(c, h[k - 1], recs[k])
      <4> HIDE DEF A
      <4> QED BY <2>2 DEF Turns, A
    <3> QED BY <3>1, <3>2
  <2> HIDE DEF turn, n, A, b
  <2> QED BY <2>1, <2>2 DEF Follows
<1>11. h[n] = g[n]
  <2>1. \A k \in 0 .. n : h[k] = g[k]
    <3> HIDE DEF turn, n, A, b
    <3> QED BY <1>1, <1>2, <1>4, <1>10, Unique
  <2> QED BY <1>1, <2>1
<1> QED BY <1>4, <1>8, <1>11

\* Nothing is lost of the records, and they are filed as their tracker's.
LEMMA KeptAll ==
    ASSUME NEW c \in Conn, device[c] \in Device, NEW last \in Nat, NEW recs \in Seq(Byte)
    PROVE  /\ Kept(c, last, recs) \in Sums(Own(c))
           /\ Elements(recs) \subseteq Collected(Kept(c, last, recs))
<1> DEFINE n == Len(recs)
           A == Sums(Own(c))
<1>1. n \in Nat /\ DOMAIN recs = 1 .. n /\ \A k \in 1 .. n : recs[k] \in Byte
  OBVIOUS
<1>2. PICK g : Iterates(g, n, A, Start(last), Turns(c, recs)) /\ Kept(c, last, recs) = g[n]
  BY KeptIterates
<1>3. g \in [0 .. n -> A] /\ \A k \in 1 .. n : g[k] = Turns(c, recs)[k][g[k - 1]]
  BY <1>2 DEF Iterates
<1>4. ASSUME NEW k \in 1 .. n
      PROVE  Collected(g[k - 1]) \cup {recs[k]} \subseteq Collected(g[k])
  <2>1. g[k - 1] \in A
    <3> HIDE DEF A, n
    <3> QED BY <1>1, <1>3
  <2>2. g[k] = Keep(c, g[k - 1], recs[k])
    <3>1. Turns(c, recs)[k][g[k - 1]] = Keep(c, g[k - 1], recs[k])
      <4> HIDE DEF A
      <4> QED BY <2>1 DEF Turns, A
    <3> QED BY <1>3, <3>1
  <2> QED BY <1>1, <2>1, <2>2, KeepOne
<1>5. \A j \in 1 .. n : recs[j] \in Collected(g[n])
  <2> HIDE DEF n
  <2> QED BY <1>1, <1>4, CollectedAll
<1>6. g[n] \in A
  <2> HIDE DEF A, n
  <2> QED BY <1>1, <1>3
<1> QED BY <1>1, <1>2, <1>5, <1>6 DEF Elements

-----------------------------------------------------------------------------
(* What the bytes of a packet are.                                         *)

\* Which numbers are bytes.
LEMMA ByteIs == \A n : n \in Byte <=> (n \in Nat /\ n < 256)
  BY DEF Byte

\* Where the elements of a concatenation are.
Concats(i, s, t) ==
    /\ Len(i) = Len(s) + Len(t)
    /\ \A k \in 1 .. Len(s) : i[k] = s[k]
    /\ \A k \in 1 .. Len(t) : i[Len(s) + k] = t[k]

\* A concatenation is one.
LEMMA ConcatAt ==
    ASSUME NEW S, NEW s \in Seq(S), NEW t \in Seq(S)
    PROVE  s \o t \in Seq(S) /\ Concats(s \o t, s, t)
  BY DEF Concats

\* Four bytes.
LEMMA WordType ==
    ASSUME NEW n \in Word16
    PROVE  /\ Word(n) \in Seq(Byte) /\ Len(Word(n)) = 4
           /\ Word(n)[1] = 0 /\ Word(n)[2] = 0
           /\ Word(n)[3] = n \div 256 /\ Word(n)[4] = n % 256
<1> DEFINE h == n \div 256
           l == n % 256
           z == 0
<1>1. h \in Byte /\ l \in Byte /\ z \in Byte
  BY WordBytes, ByteIsWord
<1>2. Word(n) = <<z, z, h, l>>
  BY DEF Word
<1>3. z = 0 /\ h = n \div 256 /\ l = n % 256
  OBVIOUS
<1> HIDE DEF h, l, z
<1>4. Word(n) \in Seq(Byte) /\ Len(Word(n)) = 4
  BY <1>1, <1>2
<1>5. Word(n)[1] = z /\ Word(n)[2] = z /\ Word(n)[3] = h /\ Word(n)[4] = l
  BY <1>2
<1> QED BY <1>3, <1>4, <1>5

\* The number of records a tracker counts, the body and the checksum it sends.
Count(p) == IF p.fault = "count" THEN Len(p.recs) + 1 ELSE Len(p.recs)
BodyOf(p) == <<IF p.fault = "codec" THEN 12 ELSE p.codec, Count(p)>> \o p.recs
SumOf(p) ==
    IF p.fault = "crc" THEN Xor16(Remainder(BodyOf(p)), 1) ELSE Remainder(BodyOf(p))

\* A body begins with its codec and its count.
LEMMA BodyType ==
    ASSUME NEW p \in Sending
    PROVE  /\ BodyOf(p) \in Seq(Byte) /\ Len(BodyOf(p)) = Len(p.recs) + 2
           /\ Len(BodyOf(p)) \in Nat /\ 2 <= Len(BodyOf(p)) /\ Len(BodyOf(p)) < 257
           /\ BodyOf(p)[1] = (IF p.fault = "codec" THEN 12 ELSE p.codec)
           /\ BodyOf(p)[2] = Count(p) /\ Count(p) \in Byte
           /\ p.recs \in Seq(Byte) /\ SubSeq(BodyOf(p), 3, Len(BodyOf(p))) = p.recs
           /\ SumOf(p) \in Word16
<1> DEFINE a == IF p.fault = "codec" THEN 12 ELSE p.codec
           n == Count(p)
           s == <<a, n>>
           t == p.recs
           b == BodyOf(p)
<1>0. p \in [codec : {8, 142}, recs : Seq(Byte), fault : Fault] /\ Len(t) < 255
  BY SendingAssumption DEF SendingAssumption
<1>1. t \in Seq(Byte) /\ Len(t) \in Nat /\ Len(t) < 255 /\ a \in Byte /\ n \in Byte
  <2>1. t \in Seq(Byte) /\ p.codec \in {8, 142}
    BY <1>0
  <2>2. Len(t) \in Nat
    BY <2>1
  <2> HIDE DEF t
  <2>3. a \in Byte
    BY <2>1, ByteIs
  <2>4. n \in Byte
    <3>1. n = Len(t) \/ n = Len(t) + 1
      BY DEF Count, t
    <3> QED BY <1>0, <2>2, <3>1, ByteIs
  <2> QED BY <1>0, <2>1, <2>2, <2>3, <2>4
<1> HIDE DEF a, n, t
<1>2. s \in Seq(Byte) /\ Len(s) = 2 /\ s[1] = a /\ s[2] = n
  BY <1>1
<1>3. b = s \o t
  BY DEF BodyOf, a, n, t
<1> HIDE DEF s, b
<1>7. b \in Seq(Byte) /\ Concats(b, s, t)
  BY <1>1, <1>2, <1>3, ConcatAt
<1>4. b \in Seq(Byte) /\ Len(b) = Len(t) + 2 /\ b[1] = a /\ b[2] = n
  BY <1>1, <1>2, <1>7 DEF Concats
<1>5. SubSeq(b, 3, Len(b)) = t
  <2> DEFINE q == SubSeq(b, 3, Len(b))
  <2>1. q \in Seq(Byte) /\ Len(q) = Len(t) /\ \A k \in 1 .. Len(t) : q[k] = b[2 + k]
    BY <1>1, <1>4
  <2>2. \A k \in 1 .. Len(t) : b[2 + k] = t[k]
    BY <1>1, <1>2, <1>7 DEF Concats
  <2> HIDE DEF q
  <2>3. q = t
    BY <1>1, <2>1, <2>2, SeqEqual
  <2> QED BY <2>3 DEF q
<1>6. SumOf(p) \in Word16
  <2>1. Remainder(b) \in Word16 /\ 1 \in Word16
    BY <1>4, RemainderType DEF Word16
  <2>2. Xor16(Remainder(b), 1) \in Word16
    BY <2>1, XorWord
  <2> QED BY <2>1, <2>2 DEF SumOf, b
<1>8. Len(b) \in Nat /\ 2 <= Len(b) /\ Len(b) < 257
  BY <1>1, <1>4
<1>9. /\ b = BodyOf(p) /\ t = p.recs /\ n = Count(p)
      /\ a = IF p.fault = "codec" THEN 12 ELSE p.codec
  BY DEF a, n, t, b
<1> QED BY <1>1, <1>4, <1>5, <1>6, <1>8, <1>9, Zenon

\* A packet, with whatever follows it in the stream.
LEMMA PacketType ==
    ASSUME NEW p \in Sending
    PROVE  /\ Packet(p) \in Seq(Byte) /\ Len(Packet(p)) = Len(BodyOf(p)) + 12
           /\ \A k \in 1 .. 6 : Packet(p)[k] = 0
           /\ Packet(p)[7] = Len(BodyOf(p)) \div 256 /\ Packet(p)[8] = Len(BodyOf(p)) % 256
           /\ \A k \in 1 .. Len(BodyOf(p)) : Packet(p)[8 + k] = BodyOf(p)[k]
           /\ \A k \in 1 .. 4 : Packet(p)[8 + Len(BodyOf(p)) + k] = Word(SumOf(p))[k]
<1> DEFINE b == BodyOf(p)
           L == Len(b)
           u == Word(0)
           v == Word(L)
           w == Word(SumOf(p))
           uv == u \o v
           uvb == uv \o b
           i == uvb \o w
<1>1. Packet(p) = i
  BY DEF Packet, BodyOf, SumOf, Count
<1>2. b \in Seq(Byte) /\ L \in Nat /\ 2 <= L /\ L \in Word16 /\ 0 \in Word16 /\ SumOf(p) \in Word16
  BY BodyType DEF Word16
<1> HIDE DEF b
<1>3. u \in Seq(Byte) /\ Len(u) = 4 /\ \A k \in 1 .. 4 : u[k] = 0
  <2>1. 0 \div 256 = 0 /\ 0 % 256 = 0
    OBVIOUS
  <2>2. /\ u \in Seq(Byte) /\ Len(u) = 4 /\ u[1] = 0 /\ u[2] = 0
        /\ u[3] = 0 \div 256 /\ u[4] = 0 % 256
    BY <1>2, WordType
  <2> HIDE DEF u
  <2> QED BY <2>1, <2>2
<1>4. v \in Seq(Byte) /\ Len(v) = 4 /\ v[1] = 0 /\ v[2] = 0 /\ v[3] = L \div 256 /\ v[4] = L % 256
  <2> HIDE DEF L
  <2> QED BY <1>2, WordType
<1>5. w \in Seq(Byte) /\ Len(w) = 4
  BY <1>2, WordType
<1> HIDE DEF u, v, w
<1>6. /\ uv \in Seq(Byte) /\ Len(uv) = 8 /\ \A k \in 1 .. 6 : uv[k] = 0
      /\ uv[7] = L \div 256 /\ uv[8] = L % 256
  <2>1. uv \in Seq(Byte) /\ Concats(uv, u, v)
    BY <1>3, <1>4, ConcatAt
  <2> HIDE DEF uv, L
  <2>2. \A k \in 1 .. 4 : uv[k] = 0 /\ uv[4 + k] = v[k]
    BY <1>3, <1>4, <2>1 DEF Concats
  <2>3. uv[5] = 0 /\ uv[6] = 0 /\ uv[7] = L \div 256 /\ uv[8] = L % 256
    BY <1>4, <2>2
  <2>4. \A k \in 1 .. 6 : k \in 1 .. 4 \/ k = 5 \/ k = 6
    OBVIOUS
  <2>5. Len(uv) = 8
    BY <1>3, <1>4, <2>1 DEF Concats
  <2> QED BY <2>1, <2>2, <2>3, <2>4, <2>5
<1> HIDE DEF uv
<1>7. /\ uvb \in Seq(Byte) /\ Len(uvb) = 8 + L /\ \A k \in 1 .. 8 : uvb[k] = uv[k]
      /\ \A k \in 1 .. L : uvb[8 + k] = b[k]
  <2>1. uvb \in Seq(Byte) /\ Concats(uvb, uv, b)
    BY <1>2, <1>6, ConcatAt
  <2> HIDE DEF uvb
  <2> QED BY <1>6, <2>1 DEF Concats
<1> HIDE DEF uvb
<1>8. /\ i \in Seq(Byte) /\ Len(i) = 12 + L /\ \A k \in 1 .. 8 + L : i[k] = uvb[k]
      /\ \A k \in 1 .. 4 : i[8 + L + k] = w[k]
  <2>1. i \in Seq(Byte) /\ Concats(i, uvb, w)
    BY <1>5, <1>7, ConcatAt
  <2> HIDE DEF i, L
  <2> QED BY <1>2, <1>5, <1>7, <2>1 DEF Concats
<1> HIDE DEF i, L
<1>9. \A k \in 1 .. 8 : i[k] = uv[k]
  <2>1. \A k \in 1 .. 8 : k \in 1 .. 8 + L
    BY <1>2
  <2> QED BY <1>7, <1>8, <2>1
<1>10. \A k \in 1 .. 6 : i[k] = 0
  BY <1>6, <1>9
<1>11. i[7] = L \div 256 /\ i[8] = L % 256
  BY <1>6, <1>9
<1>12. \A k \in 1 .. L : i[8 + k] = b[k]
  <2> SUFFICES ASSUME NEW k \in 1 .. L PROVE i[8 + k] = b[k]
    OBVIOUS
  <2>1. 8 + k \in 1 .. 8 + L
    BY <1>2
  <2> QED BY <1>7, <1>8, <2>1
<1> QED BY <1>1, <1>8, <1>10, <1>11, <1>12 DEF b, L, w

\* What is cut out of a list.
LEMMA SubSeqAt ==
    ASSUME NEW S, NEW s \in Seq(S), NEW a \in Nat, NEW b \in Nat,
           1 <= a, a <= b + 1, b <= Len(s)
    PROVE  /\ SubSeq(s, a, b) \in Seq(S) /\ Len(SubSeq(s, a, b)) = b - a + 1
           /\ \A k \in 1 .. b - a + 1 : SubSeq(s, a, b)[k] = s[a + k - 1]
  OBVIOUS

\* What ParseData finds in bytes that begin with a packet.
LEMMA PacketFound ==
    ASSUME NEW p \in Sending, NEW r \in Seq(Byte), NEW i, i = Packet(p) \o r
    PROVE  /\ i \in Seq(Byte) /\ HasHeader(i) /\ ~IsShort(i) /\ ~IsLogin(i)
           /\ Body(i) = BodyOf(p) /\ OrigCRC(i) = Word(SumOf(p)) \o r
<1> DEFINE P == Packet(p)
           b == BodyOf(p)
           L == Len(b)
           w == Word(SumOf(p))
<1>1. /\ P \in Seq(Byte) /\ Len(P) = L + 12 /\ \A k \in 1 .. 6 : P[k] = 0
      /\ P[7] = L \div 256 /\ P[8] = L % 256
      /\ \A k \in 1 .. L : P[8 + k] = b[k]
      /\ \A k \in 1 .. 4 : P[8 + L + k] = w[k]
  BY PacketType
<1>2. b \in Seq(Byte) /\ L \in Nat /\ 2 <= L /\ L < 257 /\ SumOf(p) \in Word16
  BY BodyType
<1>3. w \in Seq(Byte) /\ Len(w) = 4
  BY <1>2, WordType
<1>4. i = P \o r
  OBVIOUS
<1> HIDE DEF P, b, w
<1>5. i \in Seq(Byte) /\ Concats(i, P, r)
  BY <1>1, <1>4, ConcatAt
<1>6. /\ Len(r) \in Nat /\ Len(i) = L + 12 + Len(r)
      /\ \A k \in 1 .. L + 12 : i[k] = P[k]
      /\ \A k \in 1 .. Len(r) : i[L + 12 + k] = r[k]
  BY <1>1, <1>5 DEF Concats
<1> HIDE DEF L
<1>7. \A k \in 1 .. 6 : i[k] = 0
  <2>1. \A k \in 1 .. 6 : k \in 1 .. L + 12
    BY <1>2
  <2> QED BY <1>1, <1>6, <2>1
<1>8. i[7] = L \div 256 /\ i[8] = L % 256
  <2>1. 7 \in 1 .. L + 12 /\ 8 \in 1 .. L + 12
    BY <1>2
  <2> QED BY <1>1, <1>6, <2>1
<1>9. LenPacket(i) = L
  <2>1. L = 256 * (L \div 256) + (L % 256)
    BY <1>2
  <2>2. i[5] = 0 /\ i[6] = 0
    <3>1. 5 \in 1 .. 6 /\ 6 \in 1 .. 6
      OBVIOUS
    <3> QED BY <1>7, <3>1, Zenon
  <2> QED BY <1>8, <2>1, <2>2 DEF LenPacket
<1>10. HasHeader(i)
  <2>1. DOMAIN i = 1 .. Len(i)
    BY <1>5
  <2>2. \A k \in DOMAIN i : k <= 4 => k \in 1 .. 6
    BY <1>2, <1>6, <2>1
  <2> QED BY <1>7, <2>2 DEF HasHeader
<1>11. ~IsShort(i)
  BY <1>2, <1>6, <1>9 DEF IsShort
<1>12. ~IsLogin(i)
  <2>1. i[1] = 0 /\ i[2] = 0
    <3>1. 1 \in 1 .. 6 /\ 2 \in 1 .. 6
      OBVIOUS
    <3> QED BY <1>7, <3>1, Zenon
  <2> QED BY <1>2, <1>6, <2>1 DEF IsLogin
<1>13. Body(i) = b
  <2> DEFINE q == SubSeq(i, 9, 8 + L)
  <2>1. q \in Seq(Byte) /\ Len(q) = L /\ \A k \in 1 .. L : q[k] = i[8 + k]
    <3> DEFINE f == 9
               t == 8 + L
    <3>1. f \in Nat /\ t \in Nat /\ 1 <= f /\ f <= t + 1 /\ t <= Len(i) /\ t - f + 1 = L
          /\ \A k \in 1 .. L : f + k - 1 = 8 + k
      BY <1>2, <1>6
    <3> HIDE DEF f, t
    <3>2. /\ SubSeq(i, f, t) \in Seq(Byte) /\ Len(SubSeq(i, f, t)) = t - f + 1
          /\ \A k \in 1 .. t - f + 1 : SubSeq(i, f, t)[k] = i[f + k - 1]
      BY <1>5, <3>1, SubSeqAt
    <3>3. q = SubSeq(i, f, t)
      BY DEF f, t
    <3> HIDE DEF q
    <3> QED BY <3>1, <3>2, <3>3
  <2> HIDE DEF q
  <2>2. \A k \in 1 .. L : i[8 + k] = b[k]
    <3> SUFFICES ASSUME NEW k \in 1 .. L PROVE i[8 + k] = b[k]
      OBVIOUS
    <3>1. 8 + k \in 1 .. L + 12
      BY <1>2
    <3> QED BY <1>1, <1>6, <3>1
  <2>3. Len(b) = L
    BY DEF L
  <2>4. \A k \in 1 .. Len(q) : q[k] = b[k]
    BY <2>1, <2>2
  <2>5. q = b
    BY <1>2, <2>1, <2>3, <2>4, SeqEqual
  <2> QED BY <1>9, <2>5 DEF Body, q
<1>14. OrigCRC(i) = w \o r
  <2> DEFINE q == SubSeq(i, 9 + L, Len(i))
             v == w \o r
             n == 4 + Len(r)
  <2>1. q \in Seq(Byte) /\ Len(q) = n /\ \A k \in 1 .. n : q[k] = i[8 + L + k]
    <3> DEFINE f == 9 + L
               t == Len(i)
    <3>1. f \in Nat /\ t \in Nat /\ 1 <= f /\ f <= t + 1 /\ t <= Len(i) /\ t - f + 1 = n
          /\ \A k \in 1 .. n : f + k - 1 = 8 + L + k
      BY <1>2, <1>6
    <3> HIDE DEF f, t
    <3>2. /\ SubSeq(i, f, t) \in Seq(Byte) /\ Len(SubSeq(i, f, t)) = t - f + 1
          /\ \A k \in 1 .. t - f + 1 : SubSeq(i, f, t)[k] = i[f + k - 1]
      BY <1>5, <3>1, SubSeqAt
    <3>3. q = SubSeq(i, f, t)
      BY DEF f, t
    <3> HIDE DEF q, n
    <3> QED BY <3>1, <3>2, <3>3
  <2>2. v \in Seq(Byte) /\ Concats(v, w, r)
    BY <1>3, ConcatAt
  <2> HIDE DEF q, v
  <2>3. ASSUME NEW k \in 1 .. n PROVE q[k] = v[k]
    <3>1. CASE k <= 4
      <4>1. k \in 1 .. 4 /\ 8 + L + k \in 1 .. L + 12 /\ k \in 1 .. Len(w)
        BY <1>2, <1>3, <3>1
      <4>2. v[k] = w[k]
        BY <2>2, <4>1 DEF Concats
      <4>3. i[8 + L + k] = P[8 + L + k] /\ P[8 + L + k] = w[k]
        BY <1>1, <1>6, <4>1
      <4>4. q[k] = i[8 + L + k]
        BY <2>1
      <4> QED BY <4>2, <4>3, <4>4
    <3>2. CASE k > 4
      <4> DEFINE j == k - 4
      <4>1. j \in 1 .. Len(r) /\ 8 + L + k = L + 12 + j /\ k = Len(w) + j
        BY <1>2, <1>3, <1>6, <3>2
      <4> HIDE DEF j
      <4>2. v[Len(w) + j] = r[j]
        BY <2>2, <4>1 DEF Concats
      <4>3. i[L + 12 + j] = r[j]
        BY <1>6, <4>1
      <4>4. q[k] = i[8 + L + k]
        BY <2>1
      <4> QED BY <4>1, <4>2, <4>3, <4>4
    <3> QED BY <3>1, <3>2
  <2>4. Len(v) = n
    BY <1>3, <2>2 DEF Concats
  <2>5. q = v
    <3>1. \A k \in 1 .. Len(q) : q[k] = v[k]
      BY <2>1, <2>3
    <3> HIDE DEF n
    <3> QED BY <2>1, <2>2, <2>4, <3>1, SeqEqual
  <2> QED BY <1>9, <2>5 DEF OrigCRC, q, v
<1> QED BY <1>5, <1>10, <1>11, <1>12, <1>13, <1>14 DEF b, w

\* Two packets read at once are refused: what follows the first body, taken for
\* its checksum, is a number too large.
LEMMA TwoAreRefused ==
    ASSUME NEW p \in Sending, NEW q \in Sending, NEW r \in Seq(Byte), NEW i,
           i = Packet(p) \o (Packet(q) \o r)
    PROVE  ~SumFits(i)
<1> DEFINE Q == Packet(q)
           t == Q \o r
           w == Word(SumOf(p))
           s == w \o t
           n == CheckSumCRC16(Body(i))
<1>1. Q \in Seq(Byte) /\ Len(Q) \in Nat /\ Len(Q) >= 14 /\ Q[9] = BodyOf(q)[1]
  <2>1. /\ Q \in Seq(Byte) /\ Len(Q) = Len(BodyOf(q)) + 12
        /\ \A k \in 1 .. Len(BodyOf(q)) : Q[8 + k] = BodyOf(q)[k]
    BY PacketType
  <2>2. Len(BodyOf(q)) \in Nat /\ 2 <= Len(BodyOf(q))
    BY BodyType
  <2>3. 1 \in 1 .. Len(BodyOf(q)) /\ 8 + 1 = 9
    BY <2>2
  <2> HIDE DEF Q
  <2> QED BY <2>1, <2>2, <2>3
<1>2. BodyOf(q)[1] # 0
  <2>1. BodyOf(q)[1] = IF q.fault = "codec" THEN 12 ELSE q.codec
    BY BodyType
  <2>2. q.codec \in {8, 142}
    BY SendingAssumption DEF SendingAssumption
  <2> QED BY <2>1, <2>2
<1>3. w \in Seq(Byte) /\ Len(w) = 4
  BY BodyType, WordType
<1> HIDE DEF Q, w
<1>4. t \in Seq(Byte) /\ Concats(t, Q, r)
  BY <1>1, ConcatAt
<1> HIDE DEF t
<1>5. s \in Seq(Byte) /\ Concats(s, w, t)
  BY <1>3, <1>4, ConcatAt
<1>6. OrigCRC(i) = s
  <2>1. i = Packet(p) \o t
    BY DEF t, Q
  <2> QED BY <1>4, <2>1, PacketFound DEF w
<1> HIDE DEF s
<1>7. Len(t) \in Nat /\ Len(t) >= 14 /\ t[9] = BodyOf(q)[1]
  <2>1. Len(r) \in Nat /\ 9 \in 1 .. Len(Q)
    BY <1>1
  <2> QED BY <1>1, <1>4, <2>1 DEF Concats
<1>8. Len(s) = Len(t) + 4 /\ s[13] = BodyOf(q)[1]
  <2>1. 9 \in 1 .. Len(t)
    BY <1>7
  <2>2. s[Len(w) + 9] = t[9]
    BY <1>5, <2>1 DEF Concats
  <2> QED BY <1>3, <1>5, <1>7, <2>2 DEF Concats
<1>9. ~IsNumber(s, n)
  <2> HIDE DEF n
  <2>1. 13 \in DOMAIN s /\ 13 # Len(s) /\ 13 # Len(s) - 1
    BY <1>5, <1>7, <1>8
  <2> SUFFICES ASSUME IsNumber(s, n) PROVE FALSE
    OBVIOUS
  <2>2. s[13] = CASE 13 = Len(s)     -> n % 256
                  [] 13 = Len(s) - 1 -> n \div 256
                  [] OTHER           -> 0
    BY <2>1 DEF IsNumber
  <2>3. s[13] = 0
    BY <2>1, <2>2
  <2> QED BY <1>2, <1>8, <2>3
<1> QED BY <1>6, <1>9 DEF SumFits

\* A packet that is taken for sound has the checksum its tracker computed.
LEMMA SumIsChecked ==
    ASSUME RoundDivides, NEW p \in Sending, SumFits(Packet(p))
    PROVE  p.fault # "crc"
<1> DEFINE b == BodyOf(p)
           x == SumOf(p)
           w == Word(x)
           n == CheckSumCRC16(b)
           e == <<>>
<1>1. b \in Seq(Byte) /\ x \in Word16
  BY BodyType
<1>2. n = Remainder(b) /\ n \in Word16
  <2> HIDE DEF b
  <2> QED BY <1>1, ChecksumIsRemainder, RemainderType
<1>3. w \in Seq(Byte) /\ Len(w) = 4 /\ w[3] = x \div 256 /\ w[4] = x % 256
  <2> HIDE DEF x
  <2> QED BY <1>1, WordType
<1>4. Body(Packet(p)) = b /\ OrigCRC(Packet(p)) = w
  <2>1. e \in Seq(Byte) /\ Packet(p) \in Seq(Byte) /\ Packet(p) = Packet(p) \o e /\ w \o e = w
    BY <1>3, PacketType
  <2> HIDE DEF e, w
  <2>2. Body(Packet(p)) = BodyOf(p) /\ OrigCRC(Packet(p)) = Word(SumOf(p)) \o e
    BY <2>1, PacketFound
  <2> QED BY <2>1, <2>2 DEF w
<1> HIDE DEF n, w
<1>5. IsNumber(w, n)
  BY <1>4 DEF SumFits, n
<1>6. w[4] = n % 256 /\ w[3] = n \div 256
  <2>1. 3 \in DOMAIN w /\ 4 \in DOMAIN w /\ 3 = Len(w) - 1 /\ 4 = Len(w) /\ 3 # Len(w)
    BY <1>3
  <2>2. \A k \in DOMAIN w : w[k] = CASE k = Len(w)     -> n % 256
                                     [] k = Len(w) - 1 -> n \div 256
                                     [] OTHER          -> 0
    BY <1>5 DEF IsNumber
  <2>3. w[4] = CASE 4 = Len(w) -> n % 256 [] 4 = Len(w) - 1 -> n \div 256 [] OTHER -> 0
    BY <2>1, <2>2
  <2>4. w[3] = CASE 3 = Len(w) -> n % 256 [] 3 = Len(w) - 1 -> n \div 256 [] OTHER -> 0
    BY <2>1, <2>2
  <2> QED BY <1>3, <2>3, <2>4
<1> HIDE DEF x, b
<1>7. x = n
  <2>1. x = 256 * (x \div 256) + (x % 256) /\ n = 256 * (n \div 256) + (n % 256)
    BY <1>1, <1>2, WordBytes
  <2> QED BY <1>3, <1>6, <2>1
<1>8. Xor16(n, 1) # n
  <2>1. 1 \in Word16 /\ n \in Nat
    BY <1>2 DEF Word16
  <2>2. Xor16(n, 1) % 2 = (n + 1) % 2
    BY <1>2, <2>1, XorWord
  <2>3. (n + 1) % 2 # n % 2
    BY <2>1
  <2> QED BY <2>2, <2>3
<1> QED BY <1>2, <1>7, <1>8 DEF SumOf, x, b

-----------------------------------------------------------------------------
(* What ParseData makes of the bytes.                                      *)

\* What it returns, whatever the bytes.
Outcome(c) ==
    [gps : Info, errs : Seq(Own(c)), save : Days(Own(c)), next : {"set", "save"},
     result : {"ok", "bad"}]

\* An error and a panic leave nothing to be saved.
LEMMA NothingToSave ==
    ASSUME NEW c \in Conn, NEW g \in Info
    PROVE  /\ Refused(g) \in Outcome(c) /\ Panicked(g) \in Outcome(c)
           /\ Refused(g).gps = g /\ Refused(g).next = "set" /\ Refused(g).result = "bad"
           /\ Panicked(g).gps = g /\ Panicked(g).next = "set"
<1>1. Empty \in Days(Own(c)) /\ <<>> \in Seq(Own(c))
  <2>1. Empty \in [{} -> Seq(Own(c)) \ {<<>>}] /\ {} \in SUBSET Nat
    BY DEF Empty
  <2>2. Empty \in Days(Own(c))
    BY <2>1 DEF Days
  <2>3. <<>> \in Seq(Own(c))
    OBVIOUS
  <2> QED BY <2>2, <2>3
<1>2. Panicked(g) = [gps |-> g, errs |-> <<>>, save |-> Empty, next |-> "set", result |-> "ok"]
  BY DEF Panicked, Refused
<1>4. Refused(g) = [gps |-> g, errs |-> <<>>, save |-> Empty, next |-> "set", result |-> "bad"]
  BY DEF Refused
<1> QED BY <1>1, <1>2, <1>4 DEF Outcome

\* A login: the name is what follows the length.
LEMMA LoginParsed ==
    ASSUME NEW c \in Conn, NEW g \in Info, NEW i \in Seq(Byte), IsLogin(i)
    PROVE  /\ LoggedIn(g, i) \in Outcome(c) /\ LoggedIn(g, i).next = "set"
           /\ LoggedIn(g, i).gps.name = SubSeq(i, 3, Len(i))
<1> DEFINE s == SubSeq(i, 3, Len(i))
           n == LoginCount
           h == [g EXCEPT !.name = s, !.count = n]
<1>1. s \in Seq(Byte)
  <2> DEFINE a == 3
             b == Len(i)
  <2>1. a \in Nat /\ b \in Nat /\ 1 <= a /\ a <= b + 1 /\ b <= Len(i)
    BY DEF IsLogin
  <2>2. SubSeq(i, a, b) \in Seq(Byte)
    <3> HIDE DEF a, b
    <3> QED BY <2>1, SubSeqAt
  <2> QED BY <2>2
<1>2. n \in Seq(Byte)
  <2>1. 0 \in Byte /\ 1 \in Byte
    BY ByteIs
  <2> QED BY <2>1 DEF LoginCount
<1>5. LoggedIn(g, i) = Panicked(h)
  BY DEF LoggedIn
<1> HIDE DEF n, s
<1>4. h \in Info /\ h.name = s
  BY <1>1, <1>2 DEF Info
<1> HIDE DEF h
<1> QED BY <1>4, <1>5, NothingToSave DEF s

\* A packet that is not cut short has its body.
LEMMA BodyFound ==
    ASSUME NEW i \in Seq(Byte), ~IsShort(i)
    PROVE  Body(i) \in Seq(Byte)
<1> DEFINE L == LenPacket(i)
           a == 9
           b == 8 + L
<1>1. Len(i) \in Nat /\ 8 <= Len(i)
  BY DEF IsShort
<1>2. L \in Nat
  <2>1. i[7] \in Nat /\ i[8] \in Nat
    <3>1. i[7] \in Byte /\ i[8] \in Byte
      BY <1>1
    <3> QED BY <3>1, ByteIs
  <2> QED BY <2>1 DEF LenPacket, TooLong
<1>5. ~(L > Len(i) - 8)
  BY DEF IsShort
<1> HIDE DEF L
<1>3. a \in Nat /\ b \in Nat /\ 1 <= a /\ a <= b + 1 /\ b <= Len(i)
  BY <1>1, <1>2, <1>5
<1>4. SubSeq(i, a, b) \in Seq(Byte)
  <2> HIDE DEF a, b
  <2> QED BY <1>3, SubSeqAt
<1> QED BY <1>4 DEF Body, L

\* The records that are there: those the body counts, or fewer.
There(body) == IF body[2] < Len(body) - 2 THEN body[2] ELSE Len(body) - 2
Recs(body) == SubSeq(body, 3, 2 + There(body))

\* The walk over a body.
LEMMA WalkType ==
    ASSUME NEW c \in Conn, device[c] \in Device, NEW g \in Info, NEW body \in Seq(Byte),
           Len(body) >= 2
    PROVE  LET o == Walk(c, g, body)
               kept == Kept(c, g.last, Recs(body))
           IN  /\ o \in Outcome(c) /\ o.gps.name = g.name
               /\ o.gps.count = <<0, 0, 0, body[2]>>
               /\ There(body) < body[2] => o.next = "set"
               /\ ~(There(body) < body[2]) =>
                     o.next = "save" /\ o.errs = kept.errs /\ o.save = kept.save
<1> DEFINE n == body[2]
           t == There(body)
           recs == Recs(body)
           kept == Kept(c, g.last, recs)
           cnt == <<0, 0, 0, n>>
           moved == [g EXCEPT !.last = kept.last, !.count = cnt]
<1>1. n \in Nat /\ n \in Byte /\ Len(body) \in Nat
  <2>1. n \in Byte
    OBVIOUS
  <2> QED BY <2>1, ByteIs
<1>2. t \in Nat /\ t <= Len(body) - 2
  BY <1>1 DEF There
<1>3. recs \in Seq(Byte)
  <2> DEFINE a == 3
             b == 2 + t
  <2>1. a \in Nat /\ b \in Nat /\ 1 <= a /\ a <= b + 1 /\ b <= Len(body)
    BY <1>1, <1>2
  <2>2. SubSeq(body, a, b) \in Seq(Byte)
    <3> HIDE DEF a, b
    <3> QED BY <2>1, SubSeqAt
  <2> QED BY <2>2 DEF Recs
<1>4. g.last \in Nat
  BY DEF Info
<1>5. kept \in Sums(Own(c))
  <2> HIDE DEF recs
  <2> QED BY <1>3, <1>4, KeptAll
<1>6. cnt \in Seq(Byte)
  <2>1. 0 \in Byte
    BY ByteIs
  <2> HIDE DEF n
  <2> QED BY <1>1, <2>1
<1>7. Walk(c, g, body) = IF t < n THEN Panicked(moved)
                         ELSE [gps |-> moved, errs |-> kept.errs, save |-> kept.save,
                               next |-> "save", result |-> "ok"]
  BY DEF Walk, There, Recs
<1> HIDE DEF kept, cnt, n, t
<1>8. /\ kept.last \in Nat /\ kept.errs \in Seq(Own(c)) /\ kept.save \in Days(Own(c))
      /\ moved \in Info /\ moved.name = g.name /\ moved.count = cnt
  <2>1. kept.last \in Nat /\ kept.errs \in Seq(Own(c)) /\ kept.save \in Days(Own(c))
    BY <1>5 DEF Sums
  <2> QED BY <1>6, <2>1 DEF Info
<1> HIDE DEF moved
<1>9. CASE t < n
  BY <1>7, <1>8, <1>9, NothingToSave DEF kept, cnt, n, t
<1>10. CASE ~(t < n)
  <2>1. Walk(c, g, body) = [gps |-> moved, errs |-> kept.errs, save |-> kept.save,
                            next |-> "save", result |-> "ok"]
    BY <1>7, <1>10
  <2>2. Walk(c, g, body) \in Outcome(c)
    BY <1>8, <2>1 DEF Outcome
  <2> QED BY <1>8, <1>10, <2>1, <2>2 DEF kept, cnt, n, t
<1> QED BY <1>9, <1>10

\* ParseData files nothing under another name than the handler's, and only a login
\* changes that.
LEMMA Parsed ==
    ASSUME NEW c \in Conn, device[c] \in Device, NEW g \in Info, NEW i \in Seq(Byte)
    PROVE  LET o == ParseData(c, g, i) IN
           /\ o \in Outcome(c)
           /\ o.gps.name = g.name
              \/ (g.name = <<>> /\ IsLogin(i) /\ o.gps.name = SubSeq(i, 3, Len(i)))
           /\ o.next = "save" => g.name # <<>> /\ o.gps.name = g.name
           /\ g.name = <<>> /\ ~IsLogin(i) => o.result = "bad" /\ o.next = "set"
<1> DEFINE o == ParseData(c, g, i)
           Good == /\ o \in Outcome(c)
                   /\ \/ o.gps.name = g.name
                      \/ g.name = <<>> /\ IsLogin(i) /\ o.gps.name = SubSeq(i, 3, Len(i))
                   /\ o.next = "save" => g.name # <<>> /\ o.gps.name = g.name
                   /\ g.name = <<>> /\ ~IsLogin(i) => o.result = "bad" /\ o.next = "set"
<1>1. CASE g.name = <<>> /\ IsLogin(i)
  <2>1. o = LoggedIn(g, i)
    BY <1>1 DEF ParseData
  <2> HIDE DEF o
  <2>2. o \in Outcome(c) /\ o.next = "set" /\ o.gps.name = SubSeq(i, 3, Len(i))
    BY <1>1, <2>1, LoginParsed
  <2> QED BY <1>1, <2>2 DEF o
<1>2. CASE g.name = <<>> /\ ~IsLogin(i)
  <2>1. o = Refused(g)
    BY <1>2 DEF ParseData
  <2> HIDE DEF o
  <2> QED BY <1>2, <2>1, NothingToSave DEF o
<1>3. CASE g.name # <<>>
  <2>1. \/ o = Refused(g) \/ o = Panicked(g)
        \/ ~IsShort(i) /\ Body(i) # <<>> /\ Len(Body(i)) # 1 /\ o = Walk(c, g, Body(i))
    BY <1>3 DEF ParseData
  <2> HIDE DEF o
  <2>2. CASE o = Refused(g) \/ o = Panicked(g)
    BY <1>3, <2>2, NothingToSave DEF o
  <2>3. CASE ~IsShort(i) /\ Body(i) # <<>> /\ Len(Body(i)) # 1 /\ o = Walk(c, g, Body(i))
    <3> DEFINE b == Body(i)
    <3>1. b \in Seq(Byte)
      BY <2>3, BodyFound
    <3>2. Len(b) >= 2
      <4> HIDE DEF b
      <4>1. b # <<>> /\ Len(b) # 1
        BY <2>3 DEF b
      <4>2. Len(b) = 0 => b = <<>>
        BY <3>1
      <4>3. Len(b) # 0
        BY <4>1, <4>2, Zenon
      <4>4. Len(b) # 1 /\ Len(b) \in Nat
        BY <3>1, <4>1
      <4>5. \A n \in Nat : n # 0 /\ n # 1 => n >= 2
        OBVIOUS
      <4> QED BY <4>3, <4>4, <4>5, Zenon
    <3> HIDE DEF b
    <3>3. o = Walk(c, g, b)
      BY <2>3 DEF b
    <3>4. Walk(c, g, b) \in Outcome(c) /\ Walk(c, g, b).gps.name = g.name
      BY <3>1, <3>2, WalkType
    <3> QED BY <1>3, <3>3, <3>4 DEF o
  <2> QED BY <2>1, <2>2, <2>3
<1> QED BY <1>1, <1>2, <1>3

\* One whole packet is refused, or counts a record it has not, or is sound and all
\* its records are about to be saved.
LEMMA PacketParsed ==
    ASSUME RoundDivides, NEW c \in Conn, device[c] \in Device,
           NEW g \in Info, g.name # <<>>, NEW p \in Sending
    PROVE  LET o == ParseData(c, g, Packet(p)) IN
           \/ o.next = "set" /\ o.result = "bad"
           \/ o.next = "set" /\ p.fault = "count"
           \/ /\ o.next = "save" /\ p.fault = "none" /\ p.codec \in Codecs
              /\ o.gps.count = <<0, 0, 0, Len(p.recs)>>
              /\ Elements(p.recs) \subseteq RecordsOf(o.errs) \cup Filed(o.save)
<1> DEFINE i == Packet(p)
           o == ParseData(c, g, i)
           b == BodyOf(p)
           e == <<>>
           Good == \/ o.next = "set" /\ o.result = "bad"
                   \/ o.next = "set" /\ p.fault = "count"
                   \/ /\ o.next = "save" /\ p.fault = "none" /\ p.codec \in Codecs
                      /\ o.gps.count = <<0, 0, 0, Len(p.recs)>>
                      /\ Elements(p.recs) \subseteq RecordsOf(o.errs) \cup Filed(o.save)
<1> SUFFICES Good
  OBVIOUS
<1>1. i \in Seq(Byte) /\ HasHeader(i) /\ ~IsShort(i) /\ Body(i) = b
  <2>1. e \in Seq(Byte) /\ i \in Seq(Byte) /\ i = i \o e
    BY PacketType
  <2> HIDE DEF e
  <2> QED BY <2>1, PacketFound
<1>2. /\ b \in Seq(Byte) /\ Len(b) = Len(p.recs) + 2 /\ Len(b) \in Nat /\ 2 <= Len(b)
      /\ b[1] = (IF p.fault = "codec" THEN 12 ELSE p.codec)
      /\ b[2] = Count(p) /\ p.recs \in Seq(Byte) /\ SubSeq(b, 3, Len(b)) = p.recs
  BY BodyType
<1>3. p.fault \in {"none", "crc", "count", "codec"}
  BY SendingAssumption DEF SendingAssumption, Fault
<1> HIDE DEF i, b
<1>4. o = IF ~SumFits(i) THEN Refused(g)
          ELSE IF b[1] \notin Codecs THEN Refused(g)
          ELSE Walk(c, g, b)
  <2>1. b # <<>> /\ Len(b) # 1
    BY <1>2
  <2> QED BY <1>1, <2>1 DEF ParseData
<1> HIDE DEF o
<1>5. CASE o = Refused(g)
  BY <1>5, NothingToSave
<1>6. CASE SumFits(i) /\ b[1] \in Codecs /\ o = Walk(c, g, b)
  <2>1. p.fault # "crc"
    BY <1>6, SumIsChecked DEF i
  <2>2. p.fault # "codec"
    BY <1>2, <1>6 DEF Codecs
  <2> DEFINE kept == Kept(c, g.last, Recs(b))
  <2>3. /\ o.gps.count = <<0, 0, 0, b[2]>>
        /\ There(b) < b[2] => o.next = "set"
        /\ ~(There(b) < b[2]) => o.next = "save" /\ o.errs = kept.errs /\ o.save = kept.save
    BY <1>2, <1>6, WalkType
  <2> HIDE DEF kept
  <2>4. Len(p.recs) \in Nat /\ Len(b) - 2 = Len(p.recs)
    BY <1>2
  <2>5. CASE p.fault = "count"
    <3>1. b[2] = Len(p.recs) + 1
      BY <1>2, <2>5 DEF Count
    <3>2. There(b) < b[2]
      BY <2>4, <3>1 DEF There
    <3> QED BY <2>3, <2>5, <3>2
  <2>6. CASE p.fault = "none"
    <3>1. b[2] = Len(p.recs)
      BY <1>2, <2>6 DEF Count
    <3>2. There(b) = Len(p.recs)
      BY <2>4, <3>1 DEF There
    <3>3. Recs(b) = p.recs
      <4>1. 2 + There(b) = Len(b)
        BY <1>2, <2>4, <3>2
      <4> QED BY <1>2, <4>1 DEF Recs
    <3>4. Elements(p.recs) \subseteq Collected(kept)
      <4>1. g.last \in Nat
        BY DEF Info
      <4> QED BY <1>2, <3>3, <4>1, KeptAll DEF kept
    <3>5. o.next = "save" /\ o.errs = kept.errs /\ o.save = kept.save
      BY <2>3, <2>4, <3>1, <3>2
    <3>6. p.codec \in Codecs
      BY <1>2, <1>6, <2>6
    <3>7. o.gps.count = <<0, 0, 0, Len(p.recs)>>
      BY <2>3, <3>1
    <3> QED BY <2>6, <3>4, <3>5, <3>6, <3>7 DEF Collected
  <2> QED BY <1>3, <2>1, <2>2, <2>5, <2>6
<1> QED BY <1>4, <1>5, <1>6


-----------------------------------------------------------------------------
(* What a Read returns.                                                     *)

\* What is read of whole packets begins with the first of them; behind it comes
\* nothing, or the second.
LEMMA FirstRead ==
    ASSUME NEW s \in Seq(Seq(Byte)), NEW k \in 1 .. Len(s)
    PROVE  \E r \in Seq(Byte) :
              /\ FlattenSeq(SubSeq(s, 1, k)) = s[1] \o r
              /\ k = 1 => r = <<>>
              /\ k # 1 => \E t \in Seq(Byte) : r = s[2] \o t
<1> DEFINE u == SubSeq(s, 1, k)
           v == Tail(u)
           r == FlattenSeq(v)
<1>1. /\ u \in Seq(Seq(Byte)) /\ Len(u) = k /\ k \in Nat /\ k >= 1
      /\ \A j \in 1 .. k : u[j] = s[j]
  OBVIOUS
<1> HIDE DEF u
<1>2. u # <<>> /\ Head(u) = s[1]
  <2>1. 1 \in 1 .. k
    BY <1>1
  <2> QED BY <1>1, <2>1
<1>3. v \in Seq(Seq(Byte)) /\ Len(v) = k - 1 /\ (k # 1 => v # <<>> /\ Head(v) = s[2])
  <2>1. v \in Seq(Seq(Byte)) /\ Len(v) = k - 1 /\ \A j \in 1 .. k - 1 : v[j] = u[j + 1]
    BY <1>1, <1>2
  <2>2. ASSUME k # 1 PROVE v # <<>> /\ Head(v) = s[2]
    <3>1. 1 \in 1 .. k - 1 /\ 2 \in 1 .. k
      BY <1>1, <2>2
    <3> HIDE DEF v
    <3>2. v[1] = s[2]
      BY <1>1, <2>1, <3>1
    <3> QED BY <2>1, <3>1, <3>2
  <2> QED BY <2>1, <2>2
<1> HIDE DEF v
<1>4. FlattenSeq(u) = s[1] \o r /\ r \in Seq(Byte)
  <2>1. FlattenSeq(u) = Head(u) \o FlattenSeq(Tail(u))
    BY <1>1, <1>2, FlattenHead
  <2>2. FlattenSeq(v) \in Seq(Byte)
    BY <1>3, FlattenType
  <2> QED BY <1>2, <2>1, <2>2 DEF v
<1>5. ASSUME k = 1 PROVE r = <<>>
  <2>1. Len(v) = 0
    BY <1>3, <1>5
  <2>2. PICK g \in [0 .. Len(v) -> Seq(Byte)] : Joins(g, v) /\ FlattenSeq(v) = g[Len(v)]
    BY <1>3, FlattenJoins
  <2> QED BY <2>1, <2>2 DEF Joins
<1>6. ASSUME k # 1 PROVE \E t \in Seq(Byte) : r = s[2] \o t
  <2>1. Tail(v) \in Seq(Seq(Byte)) /\ FlattenSeq(Tail(v)) \in Seq(Byte)
    <3>1. Tail(v) \in Seq(Seq(Byte))
      BY <1>3, <1>6
    <3> QED BY <3>1, FlattenType
  <2>2. FlattenSeq(v) = s[2] \o FlattenSeq(Tail(v))
    BY <1>3, <1>6, FlattenHead
  <2> QED BY <2>1, <2>2
<1> HIDE DEF r
<1> QED BY <1>4, <1>5, <1>6 DEF u

\* The login is its own name, and nothing that is longer is one.
LEMMA LoginIs ==
    ASSUME NEW d \in Byte, NEW r \in Seq(Byte), NEW i, i = Login(d) \o r
    PROVE  /\ Login(d) \in Seq(Byte) /\ IsLogin(Login(d))
           /\ SubSeq(Login(d), 3, Len(Login(d))) = <<d>>
           /\ r # <<>> => ~IsLogin(i)
<1>0. 0 \in Byte /\ 1 \in Byte
  BY DEF Byte
<1> DEFINE s == Login(d)
           z == 0
           o == 1
<1>1. z \in Byte /\ o \in Byte
  BY <1>0
<1>2. s = <<z, o, d>> /\ z = 0 /\ o = 1
  BY DEF Login
<1>3. s \in Seq(Byte) /\ Len(s) = 3 /\ s[1] = 0 /\ s[2] = 1 /\ s[3] = d
  <2> HIDE DEF s, z, o
  <2> QED BY <1>1, <1>2
<1> HIDE DEF s
<1>4. IsLogin(s)
  BY <1>3 DEF IsLogin
<1>5. SubSeq(s, 3, Len(s)) = <<d>>
  <2> DEFINE a == 3
             q == SubSeq(s, a, a)
             t == <<d>>
  <2>1. a \in Nat /\ 1 <= a /\ a <= a + 1 /\ a <= Len(s) /\ a - a + 1 = 1 /\ a + 1 - 1 = 3
    BY <1>3
  <2>2. q \in Seq(Byte) /\ Len(q) = 1 /\ q[1] = s[3]
    <3> HIDE DEF a
    <3>1. /\ SubSeq(s, a, a) \in Seq(Byte) /\ Len(SubSeq(s, a, a)) = a - a + 1
          /\ \A k \in 1 .. a - a + 1 : SubSeq(s, a, a)[k] = s[a + k - 1]
      BY <1>3, <2>1, SubSeqAt
    <3> QED BY <2>1, <3>1
  <2>3. t \in Seq(Byte) /\ Len(t) = 1 /\ t[1] = d
    OBVIOUS
  <2>4. q = t
    <3> HIDE DEF q, t
    <3>1. \A k \in 1 .. 1 : q[k] = t[k]
      BY <1>3, <2>2, <2>3
    <3> QED BY <2>2, <2>3, <3>1, SeqEqual
  <2> QED BY <1>3, <2>4
<1>6. ASSUME r # <<>>, IsLogin(i) PROVE FALSE
  <2>1. i \in Seq(Byte) /\ Concats(i, s, r)
    BY <1>3, ConcatAt DEF s
  <2>2. i[1] = 0 /\ i[2] = 1 /\ Len(i) = 3 + Len(r)
    <3>1. 1 \in 1 .. Len(s) /\ 2 \in 1 .. Len(s)
      BY <1>3
    <3> QED BY <1>3, <2>1, <3>1 DEF Concats
  <2>3. Len(r) \in Nat /\ (Len(r) = 0 => r = <<>>)
    OBVIOUS
  <2>4. Len(r) # 0
    BY <1>6, <2>3, Zenon
  <2> QED BY <1>6, <2>2, <2>3, <2>4 DEF IsLogin
<1> QED BY <1>3, <1>4, <1>5, <1>6 DEF s

\* What is in flight on a connection: the packets of its tracker, and before them
\* its login while the handler has no name.
Whole(d, name, s) ==
    \A j \in DOMAIN s : \/ j = 1 /\ name = <<>> /\ s[j] = Login(d)
                        \/ \E p \in Sending : s[j] = Packet(p)

\* What is left of them once the first k are read.
LEMMA WholeRest ==
    ASSUME NEW s \in Seq(Seq(Byte)), NEW k \in 1 .. Len(s), NEW d, NEW n, NEW m,
           Whole(d, n, s)
    PROVE  /\ SubSeq(s, k + 1, Len(s)) \in Seq(Seq(Byte))
           /\ Whole(d, m, SubSeq(s, k + 1, Len(s)))
<1> DEFINE a == k + 1
           b == Len(s)
           t == SubSeq(s, a, b)
<1>1. a \in Nat /\ b \in Nat /\ 1 <= a /\ a <= b + 1 /\ b <= Len(s) /\ DOMAIN s = 1 .. b /\ a >= 2
  OBVIOUS
<1> HIDE DEF a, b
<1>2. /\ t \in Seq(Seq(Byte)) /\ Len(t) = b - a + 1
      /\ \A j \in 1 .. b - a + 1 : t[j] = s[a + j - 1]
  BY <1>1, SubSeqAt
<1> HIDE DEF t
<1>3. ASSUME NEW j \in DOMAIN t PROVE \E p \in Sending : t[j] = Packet(p)
  <2>1. j \in 1 .. b - a + 1
    BY <1>1, <1>2
  <2>2. a + j - 1 \in 1 .. b /\ a + j - 1 # 1
    BY <1>1, <2>1
  <2>3. t[j] = s[a + j - 1] /\ a + j - 1 \in DOMAIN s
    BY <1>1, <1>2, <2>1, <2>2, Zenon
  <2> QED BY <2>2, <2>3 DEF Whole
<1>4. Whole(d, m, t)
  BY <1>3 DEF Whole
<1> QED BY <1>2, <1>4 DEF a, b, t

\* What ParseData makes of whole packets: the name stays the tracker's, and what is
\* not refused is the login, a packet that miscounts, or one sound packet whose
\* records are all about to be saved.
Taken(c, o, i) ==
    \/ o.next = "set" /\ (o.result = "bad" \/ i = Login(device[c]) \/ Miscounted(i))
    \/ /\ o.next = "save"
       /\ \E p \in Sound(i) :
             /\ o.gps.count = <<0, 0, 0, Len(p.recs)>>
             /\ Elements(p.recs) \subseteq RecordsOf(o.errs) \cup Filed(o.save)

\* ParseData of the first k of them.
LEMMA WholeParsed ==
    ASSUME NEW c \in Conn, device[c] \in Device, NEW g \in Info, NEW name,
           NEW s \in Seq(Seq(Byte)), NEW k \in 1 .. Len(s), Whole(device[c], name, s),
           g.name \in {<<>>, <<device[c]>>}, name = <<>> => g.name = <<>>
    PROVE  LET i == FlattenSeq(SubSeq(s, 1, k))
               o == ParseData(c, g, i)
           IN  /\ o.gps.name \in {<<>>, <<device[c]>>}
               /\ RoundDivides => Taken(c, o, i)
<1> DEFINE d == device[c]
           i == FlattenSeq(SubSeq(s, 1, k))
           o == ParseData(c, g, i)
           Good == /\ o.gps.name \in {<<>>, <<d>>}
                   /\ RoundDivides => Taken(c, o, i)
<1> SUFFICES Good
  OBVIOUS
<1>1. d \in Byte /\ 1 \in DOMAIN s
  <2>1. d \in Byte
    BY DeviceAssumption DEF DeviceAssumption
  <2> QED BY <2>1
<1>2. PICK r \in Seq(Byte) : /\ i = s[1] \o r
                             /\ k = 1 => r = <<>>
                             /\ k # 1 => \E t \in Seq(Byte) : r = s[2] \o t
  BY FirstRead
<1> HIDE DEF i
<1>3. CASE name = <<>> /\ s[1] = Login(d)
  <2>1. Login(d) \in Seq(Byte) /\ Login(d) \o <<>> = Login(d)
    <3>1. Login(d) \in Seq(Byte)
      BY <1>1, <1>2, LoginIs
    <3> QED BY <3>1
  <2>2. g.name = <<>>
    BY <1>3
  <2>3. CASE r = <<>>
    <3>1. i = Login(d)
      BY <1>2, <1>3, <2>1, <2>3
    <3>2. IsLogin(i) /\ SubSeq(i, 3, Len(i)) = <<d>>
      BY <1>1, <1>2, <3>1, LoginIs
    <3>3. o = LoggedIn(g, i)
      BY <2>2, <3>2 DEF ParseData
    <3>4. i \in Seq(Byte)
      BY <2>1, <3>1
    <3> HIDE DEF o
    <3>5. o.next = "set" /\ o.gps.name = <<d>>
      BY <3>2, <3>3, <3>4, LoginParsed
    <3> QED BY <3>1, <3>5 DEF Taken
  <2>4. CASE r # <<>>
    <3>1. ~IsLogin(i)
      BY <1>1, <1>2, <1>3, <2>4, LoginIs
    <3>2. o = Refused(g)
      BY <2>2, <3>1 DEF ParseData
    <3> HIDE DEF o
    <3> QED BY <2>2, <3>2, NothingToSave DEF Taken
  <2> QED BY <2>3, <2>4
<1>4. CASE \E p \in Sending : s[1] = Packet(p)
  <2>1. PICK p \in Sending : s[1] = Packet(p)
    BY <1>4
  <2>2. /\ i = Packet(p) \o r /\ i \in Seq(Byte)
        /\ HasHeader(i) /\ ~IsShort(i) /\ ~IsLogin(i)
    <3>1. i = Packet(p) \o r
      BY <1>2, <2>1
    <3> QED BY <3>1, PacketFound
  <2>3. CASE g.name = <<>>
    <3>1. o = Refused(g)
      BY <2>2, <2>3 DEF ParseData
    <3> HIDE DEF o
    <3> QED BY <2>3, <3>1, NothingToSave DEF Taken
  <2>4. CASE g.name # <<>>
    <3>1. o.gps.name = g.name
      BY <2>2, <2>4, Parsed
    <3>2. ASSUME RoundDivides, k = 1 PROVE Taken(c, o, i)
      <4>1. i = Packet(p)
        <5>1. Packet(p) \in Seq(Byte) /\ r = <<>>
          BY <1>2, <3>2, PacketType
        <5> QED BY <2>2, <5>1
      <4>2. \/ o.next = "set" /\ o.result = "bad"
            \/ o.next = "set" /\ p.fault = "count"
            \/ /\ o.next = "save" /\ p.fault = "none" /\ p.codec \in Codecs
               /\ o.gps.count = <<0, 0, 0, Len(p.recs)>>
               /\ Elements(p.recs) \subseteq RecordsOf(o.errs) \cup Filed(o.save)
        BY <2>4, <3>2, <4>1, PacketParsed
      <4> HIDE DEF o
      <4>3. p.fault = "count" => Miscounted(i)
        BY <4>1 DEF Miscounted
      <4>4. p.fault = "none" /\ p.codec \in Codecs => p \in Sound(i)
        BY <4>1 DEF Sound
      <4> QED BY <4>2, <4>3, <4>4 DEF Taken
    <3>3. ASSUME k # 1 PROVE Taken(c, o, i)
      <4>1. PICK t \in Seq(Byte) : r = s[2] \o t
        BY <1>2, <3>3
      <4>2. 2 \in DOMAIN s
        BY <3>3
      <4>3. PICK q \in Sending : s[2] = Packet(q)
        BY <4>2 DEF Whole
      <4>4. ~SumFits(i)
        <5>1. i = Packet(p) \o (Packet(q) \o t)
          BY <2>2, <4>1, <4>3
        <5> QED BY <5>1, TwoAreRefused
      <4>5. o = Refused(g)
        BY <2>2, <2>4, <4>4 DEF ParseData
      <4> HIDE DEF o
      <4> QED BY <4>5, NothingToSave DEF Taken
    <3> HIDE DEF o
    <3> QED BY <3>1, <3>2, <3>3
  <2> QED BY <2>3, <2>4
<1> QED BY <1>1, <1>3, <1>4 DEF Whole

-----------------------------------------------------------------------------
(* The inductive invariant.                                                *)

\* toSave is a map for every connection.
Shape == toSave = [c \in Conn |-> toSave[c]]

\* A connection that was accepted has its tracker; the others have no name yet.
Accepted(c) == IF pc[c] = "unused" THEN gps[c].name = <<>> ELSE device[c] \in Device

\* What is about to be saved is the tracker's, and has a name to be saved under.
SumsAreOwn(c) == pc[c] = "save" => gps[c].name # <<>> /\ toSave[c] \in Days(Own(c))

\* While Reads end where packets end, the handler's name is that of its tracker, or
\* the registry did not give it back.
StreamIsOwn(c) ==
    c \notin torn => /\ gps[c].name \in {<<>>, <<device[c]>>}
                     /\ Whole(device[c], gps[c].name, stream[c])

\* Where the records of a packet are that the answer acknowledges.
Stored(c) ==
    \E p \in Sound(input[c]) :
        /\ gps[c].count = <<0, 0, 0, Len(p.recs)>>
        /\ Elements(p.recs) \subseteq RecordsOf(errList[c]) \cup Filed(toSave[c])
Written(c) ==
    \E p \in Sound(input[c]) :
        /\ gps[c].count = <<0, 0, 0, Len(p.recs)>>
        /\ \/ parser = "Cargo" /\ c \in broken
           \/ DOMAIN toSave[c] = {} /\ Elements(p.recs) \subseteq wrote[c]
           \/ \E d \in DOMAIN toSave[c] :
                 Elements(p.recs) \subseteq wrote[c] \cup Skipped(c, d)
AccountedAt(c) ==
    RoundDivides /\ c \notin torn =>
        /\ pc[c] = "save" => Stored(c)
        /\ /\ pc[c] = "set" /\ result[c] = "ok"
           /\ input[c] # Login(device[c]) /\ ~Miscounted(input[c])
           => Written(c)

Handler(c) == Accepted(c) /\ SumsAreOwn(c) /\ StreamIsOwn(c) /\ AccountedAt(c)

Inv == TypeOK /\ Shape /\ (\A c \in Conn : Handler(c)) /\ TracksAreOwn

-----------------------------------------------------------------------------
(* Types.                                                                  *)

\* An entry of a connection is an entry.
LEMMA OwnIsEntry ==
    ASSUME NEW c \in Conn
    PROVE  /\ \A s \in Seq(Own(c)) : s \in Seq(Entry)
           /\ \A m \in Days(Own(c)) : \A d \in DOMAIN m :
                 d \in Nat /\ m[d] \in Seq(Entry) \ {<<>>}
<1>1. \A S \in SUBSET Entry : \A s \in Seq(S) : s \in Seq(Entry)
  OBVIOUS
<1>2. Own(c) \in SUBSET Entry
  BY DEF Own
<1>3. \A s \in Seq(Own(c)) : s \in Seq(Entry)
  BY <1>1, <1>2
<1>4. ASSUME NEW m \in Days(Own(c)), NEW d \in DOMAIN m
      PROVE  d \in Nat /\ m[d] \in Seq(Own(c)) \ {<<>>}
  BY DayEntries
<1> QED BY <1>3, <1>4

\* The records of entries are bytes.
LEMMA RecordsAreBytes == ASSUME NEW s \in Seq(Entry) PROVE RecordsOf(s) \subseteq Byte
<1> SUFFICES ASSUME NEW i \in DOMAIN s PROVE s[i].rec \in Byte
  BY DEF RecordsOf
<1>1. s[i] \in Entry
  OBVIOUS
<1> QED BY <1>1 DEF Entry

\* A file stays a list of entries.
LEMMA FileType ==
    ASSUME NEW K, NEW m, NEW k \in K, NEW s \in Seq(Entry),
           \A x \in DOMAIN m : x \in K /\ m[x] \in Seq(Entry)
    PROVE  \A x \in DOMAIN AppendTo(m, k, s) :
              x \in K /\ AppendTo(m, k, s)[x] \in Seq(Entry)
  BY AppendToType

\* What Receive reads, the GPSInfo it refreshes and what ParseData returns.
ReadOf(c, k, n) ==
    FlattenSeq(SubSeq(stream[c], 1, k))
      \o (IF n = 0 THEN <<>> ELSE SubSeq(stream[c][k + 1], 1, n))
InfoOf(c) == IF gps[c].name = <<>> THEN gps[c] ELSE GetGPS(gps[c].name)
RestOf(c, k, n) ==
    IF n = 0 THEN SubSeq(stream[c], k + 1, Len(stream[c]))
    ELSE <<SubSeq(stream[c][k + 1], n + 1, Len(stream[c][k + 1]))>>
           \o SubSeq(stream[c], k + 2, Len(stream[c]))

\* Their types.
LEMMA ReadType ==
    ASSUME NEW c \in Conn, NEW k \in 0 .. Len(stream[c]), NEW n \in Nat, TypeOK, Accepted(c),
           Receive(c, k, n)
    PROVE  /\ ReadOf(c, k, n) \in Seq(Byte) /\ RestOf(c, k, n) \in Seq(Seq(Byte))
           /\ InfoOf(c) \in Info /\ InfoOf(c).name \in {<<>>, gps[c].name}
           /\ ParseData(c, InfoOf(c), ReadOf(c, k, n)) \in Outcome(c)
<1> DEFINE s == stream[c]
           L == Len(s)
<1>1. s \in Seq(Seq(Byte)) /\ L \in Nat /\ k \in Nat /\ k <= L
  BY DEF TypeOK
<1>2. n # 0 => k < L /\ n < Len(s[k + 1])
  BY DEF Receive
<1>3. FlattenSeq(SubSeq(s, 1, k)) \in Seq(Byte)
  <2> DEFINE a == 1
  <2>1. a \in Nat /\ 1 <= a /\ a <= k + 1
    BY <1>1
  <2>2. SubSeq(s, a, k) \in Seq(Seq(Byte))
    <3> HIDE DEF a, s
    <3> QED BY <1>1, <2>1, SubSeqAt
  <2> QED BY <2>2, FlattenType
<1>4. ASSUME n # 0
      PROVE  /\ SubSeq(s[k + 1], 1, n) \in Seq(Byte)
             /\ SubSeq(s[k + 1], n + 1, Len(s[k + 1])) \in Seq(Byte)
             /\ SubSeq(s, k + 2, L) \in Seq(Seq(Byte))
  <2> DEFINE a == 1
             b == n + 1
             d == k + 2
             t == s[k + 1]
             m == Len(t)
  <2>1. t \in Seq(Byte)
    <3>1. k + 1 \in 1 .. L
      BY <1>1, <1>2, <1>4
    <3> QED BY <1>1, <3>1
  <2>2. /\ a \in Nat /\ b \in Nat /\ d \in Nat /\ m \in Nat
        /\ 1 <= a /\ a <= n + 1 /\ n <= Len(t) /\ 1 <= b /\ b <= m + 1 /\ m <= Len(t)
        /\ 1 <= d /\ d <= L + 1 /\ L <= Len(s)
    <3>1. m \in Nat
      BY <2>1
    <3>2. k < L /\ n < m
      BY <1>2, <1>4
    <3> HIDE DEF m, L
    <3>3. m <= Len(t) /\ L <= Len(s) /\ n <= Len(t)
      BY <1>1, <3>1, <3>2 DEF m, L
    <3> QED BY <1>1, <3>1, <3>2, <3>3
  <2> HIDE DEF a, b, d, t, m, L, s
  <2>3. SubSeq(t, a, n) \in Seq(Byte)
    BY <2>1, <2>2, SubSeqAt
  <2>4. SubSeq(t, b, m) \in Seq(Byte)
    BY <2>1, <2>2, SubSeqAt
  <2>5. SubSeq(s, d, L) \in Seq(Seq(Byte))
    BY <1>1, <2>2, SubSeqAt
  <2> QED BY <2>3, <2>4, <2>5 DEF a, b, d, t, m
<1>5. ReadOf(c, k, n) \in Seq(Byte)
  <2>1. CASE n = 0
    BY <1>3, <2>1 DEF ReadOf
  <2>2. CASE n # 0
    BY <1>3, <1>4, <2>2 DEF ReadOf
  <2> QED BY <2>1, <2>2
<1>6. RestOf(c, k, n) \in Seq(Seq(Byte))
  <2>1. CASE n = 0
    <3> DEFINE a == k + 1
    <3>1. a \in Nat /\ 1 <= a /\ a <= L + 1 /\ L <= Len(s)
      BY <1>1
    <3>2. SubSeq(s, a, L) \in Seq(Seq(Byte))
      <4> HIDE DEF a, s, L
      <4> QED BY <1>1, <3>1, SubSeqAt
    <3> QED BY <2>1, <3>2 DEF RestOf
  <2>2. CASE n # 0
    <3> DEFINE x == SubSeq(s[k + 1], n + 1, Len(s[k + 1]))
               y == SubSeq(s, k + 2, L)
    <3>1. RestOf(c, k, n) = <<x>> \o y
      BY <2>2 DEF RestOf
    <3>2. x \in Seq(Byte) /\ y \in Seq(Seq(Byte))
      BY <1>4, <2>2
    <3> HIDE DEF x, y
    <3> QED BY <3>1, <3>2
  <2> QED BY <2>1, <2>2
<1>7. InfoOf(c) \in Info /\ InfoOf(c).name \in {<<>>, gps[c].name}
  <2>1. gps[c] \in Info /\ \A x \in DOMAIN registry : registry[x] \in Info /\ registry[x].name = x
    BY DEF TypeOK
  <2>2. NewInfo \in Info /\ NewInfo.name = <<>>
    BY DEF NewInfo, Info
  <2> QED BY <2>1, <2>2 DEF InfoOf, GetGPS
<1>8. device[c] \in Device
  BY DEF Accepted, Receive
<1>9. ParseData(c, InfoOf(c), ReadOf(c, k, n)) \in Outcome(c)
  BY <1>5, <1>7, <1>8, Parsed
<1> QED BY <1>5, <1>6, <1>7, <1>9

\* What Receive does with them.
LEMMA ReceiveIs ==
    ASSUME NEW c \in Conn, NEW k \in 0 .. Len(stream[c]), NEW n \in Nat, TypeOK, Shape,
           Receive(c, k, n)
    PROVE  LET i == ReadOf(c, k, n)
               o == ParseData(c, InfoOf(c), i)
           IN  /\ stream' = [stream EXCEPT ![c] = RestOf(c, k, n)]
               /\ torn' = IF n = 0 THEN torn ELSE torn \cup {c}
               /\ input' = [input EXCEPT ![c] = i] /\ gps' = [gps EXCEPT ![c] = o.gps]
               /\ errList' = [errList EXCEPT ![c] = o.errs]
               /\ toSave' = [toSave EXCEPT ![c] = o.save]
               /\ pc' = [pc EXCEPT ![c] = o.next] /\ result' = [result EXCEPT ![c] = o.result]
  BY DEF Receive, ReadOf, RestOf, InfoOf

\* Every variable keeps its type.
LEMMA TypeNext == Inv /\ [Next]_vars => TypeOK' /\ Shape'
<1> SUFFICES ASSUME Inv, [Next]_vars PROVE TypeOK' /\ Shape'
  OBVIOUS
<1>0. TypeOK /\ Shape /\ \A c \in Conn : Accepted(c) /\ SumsAreOwn(c)
  BY DEF Inv, Handler
<1> USE DEF Goes, wire, work, reads, files
<1>1. ASSUME NEW c \in Conn, NEW d \in Device, Connect(c, d) PROVE TypeOK' /\ Shape'
  <2>1. Login(d) \in Seq(Byte)
    <3>1. d \in Byte /\ <<>> \in Seq(Byte)
      BY DeviceAssumption DEF DeviceAssumption
    <3> QED BY <3>1, LoginIs
  <2> DEFINE q == <<Login(d)>>
  <2>2. q \in Seq(Seq(Byte))
    BY <2>1
  <2>3. stream' = [stream EXCEPT ![c] = q]
    BY <1>1 DEF Connect
  <2> HIDE DEF q
  <2>4. stream' \in [Conn -> Seq(Seq(Byte))]
    BY <1>0, <2>2, <2>3 DEF TypeOK
  <2> QED BY <1>0, <1>1, <2>4 DEF Connect, TypeOK, Shape, Pcs
<1>2. ASSUME NEW c \in Conn, NEW p \in Sending, SendPacket(c, p) PROVE TypeOK' /\ Shape'
  <2>1. Packet(p) \in Seq(Byte) /\ p.recs \in Seq(Byte)
    BY PacketType, BodyType
  <2> DEFINE P == Packet(p)
             q == p.recs
  <2>2. stream' = [stream EXCEPT ![c] = Append(stream[c], P)]
    BY <1>0, <1>2 DEF SendPacket, TypeOK
  <2>3. sent' = [sent EXCEPT ![c] = sent[c] \o q] \/ sent' = sent
    BY <1>0, <1>2 DEF SendPacket, TypeOK
  <2> HIDE DEF P, q
  <2>4. P \in Seq(Byte) /\ q \in Seq(Byte)
    BY <2>1 DEF P, q
  <2>5. stream' \in [Conn -> Seq(Seq(Byte))]
    BY <1>0, <2>2, <2>4 DEF TypeOK
  <2>6. sent' \in [Conn -> Seq(Byte)]
    <3>1. sent \in [Conn -> Seq(Byte)] /\ sent[c] \in Seq(Byte)
      BY <1>0 DEF TypeOK
    <3>2. sent[c] \o q \in Seq(Byte)
      BY <2>4, <3>1
    <3> QED BY <2>3, <3>1, <3>2
  <2>7. packets' \in 0 .. MaxPackets
    BY <1>0, <1>2, NumberAssumption DEF SendPacket, TypeOK, NumberAssumption
  <2> QED BY <1>0, <1>2, <2>5, <2>6, <2>7 DEF SendPacket, TypeOK, Shape
<1>3. ASSUME NEW c \in Conn, NEW k \in 0 .. Len(stream[c]), NEW n \in Nat, Receive(c, k, n)
      PROVE  TypeOK' /\ Shape'
  <2> DEFINE i == ReadOf(c, k, n)
             o == ParseData(c, InfoOf(c), i)
             r == RestOf(c, k, n)
  <2>1. /\ stream' = [stream EXCEPT ![c] = r]
        /\ torn' = IF n = 0 THEN torn ELSE torn \cup {c}
        /\ input' = [input EXCEPT ![c] = i] /\ gps' = [gps EXCEPT ![c] = o.gps]
        /\ errList' = [errList EXCEPT ![c] = o.errs]
        /\ toSave' = [toSave EXCEPT ![c] = o.save]
        /\ pc' = [pc EXCEPT ![c] = o.next] /\ result' = [result EXCEPT ![c] = o.result]
    BY <1>0, <1>3, ReceiveIs
  <2>2. i \in Seq(Byte) /\ r \in Seq(Seq(Byte)) /\ o \in Outcome(c)
    BY <1>0, <1>3, ReadType
  <2> HIDE DEF i, r, o
  <2>3. /\ o.gps \in Info /\ o.errs \in Seq(Entry) /\ o.save \in Days(Own(c))
        /\ o.next \in Pcs /\ o.result \in {"ok", "bad"}
    <3>1. /\ o.gps \in Info /\ o.errs \in Seq(Own(c)) /\ o.save \in Days(Own(c))
          /\ o.next \in {"set", "save"} /\ o.result \in {"ok", "bad"}
      BY <2>2 DEF Outcome
    <3> QED BY <3>1, OwnIsEntry DEF Pcs
  <2>4. \A d \in DOMAIN o.save : d \in Nat /\ o.save[d] \in Seq(Entry) \ {<<>>}
    BY <2>3, OwnIsEntry
  <2>5. UNCHANGED <<parser, device, sent, packets, wrote, broken, registry, track, errors>>
    BY <1>3 DEF Receive
  <2>6. /\ toSave' = [x \in Conn |-> toSave'[x]]
        /\ \A x \in Conn : \A d \in DOMAIN toSave'[x] :
              d \in Nat /\ toSave'[x][d] \in Seq(Entry) \ {<<>>}
    BY <1>0, <2>1, <2>4 DEF TypeOK, Shape
  <2>7. stream' \in [Conn -> Seq(Seq(Byte))] /\ input' \in [Conn -> Seq(Byte)]
    BY <1>0, <2>1, <2>2 DEF TypeOK
  <2>8. /\ gps' \in [Conn -> Info] /\ errList' \in [Conn -> Seq(Entry)]
        /\ pc' \in [Conn -> Pcs] /\ result' \in [Conn -> {"ok", "bad"}]
    BY <1>0, <2>1, <2>3 DEF TypeOK
  <2>9. torn' \subseteq Conn
    BY <1>0, <2>1 DEF TypeOK
  <2> QED BY <1>0, <2>5, <2>6, <2>7, <2>8, <2>9 DEF TypeOK, Shape
\* the files
<1>4. ASSUME NEW c \in Conn, NEW d, NEW s \in Seq(Entry), d \in Nat
      PROVE  LET t == AppendTo(track, <<d, gps[c].name>>, s) IN
             \A k \in DOMAIN t : k \in Nat \X Seq(Byte) /\ t[k] \in Seq(Entry)
  <2> DEFINE key == <<d, gps[c].name>>
             K == Nat \X Seq(Byte)
  <2>1. key \in K /\ \A k \in DOMAIN track : k \in K /\ track[k] \in Seq(Entry)
    BY <1>0, <1>4 DEF TypeOK, Info
  <2> HIDE DEF key, K
  <2>2. \A k \in DOMAIN AppendTo(track, key, s) :
           k \in K /\ AppendTo(track, key, s)[k] \in Seq(Entry)
    BY <1>4, <2>1, FileType
  <2> QED BY <2>2 DEF key, K
<1>5. ASSUME NEW c \in Conn,
             \/ errors' = errors
             \/ errors' = AppendTo(errors, gps[c].name, errList[c])
      PROVE  \A n \in DOMAIN errors' : n \in Seq(Byte) /\ errors'[n] \in Seq(Entry)
  <2>1. /\ gps[c].name \in Seq(Byte) /\ errList[c] \in Seq(Entry)
        /\ \A n \in DOMAIN errors : n \in Seq(Byte) /\ errors[n] \in Seq(Entry)
    BY <1>0 DEF TypeOK, Info
  <2> DEFINE K == Seq(Byte)
  <2> HIDE DEF K
  <2>2. /\ gps[c].name \in K /\ \A n \in DOMAIN errors : n \in K /\ errors[n] \in Seq(Entry)
    BY <2>1 DEF K
  <2>3. \A n \in DOMAIN errors' : n \in K /\ errors'[n] \in Seq(Entry)
    BY <1>5, <2>1, <2>2, FileType
  <2> QED BY <2>3 DEF K
<1>6. ASSUME NEW c \in Conn, Save(c) PROVE TypeOK' /\ Shape'
  <2>1. errors' = errors \/ errors' = AppendTo(errors, gps[c].name, errList[c])
    BY <1>6 DEF Save, Saved
  <2>2. \A n \in DOMAIN errors' : n \in Seq(Byte) /\ errors'[n] \in Seq(Entry)
    BY <1>5, <2>1
  <2>3. RecordsOf(errList[c]) \subseteq Byte
    BY <1>0, RecordsAreBytes DEF TypeOK
  <2>4. /\ \A k \in DOMAIN track' : k \in Nat \X Seq(Byte) /\ track'[k] \in Seq(Entry)
        /\ wrote' \in [Conn -> SUBSET Byte]
    <3>1. CASE DOMAIN toSave[c] = {}
      <4>1. track' = track /\ wrote' = [wrote EXCEPT ![c] = RecordsOf(errList[c])]
        BY <1>6, <3>1 DEF Save, Saved
      <4> QED BY <1>0, <2>3, <4>1 DEF TypeOK
    <3>2. CASE DOMAIN toSave[c] # {}
      <4>1. PICK d \in DOMAIN toSave[c] :
              /\ track' = AppendTo(track, <<d, gps[c].name>>, toSave[c][d])
              /\ wrote' = [wrote EXCEPT
                             ![c] = RecordsOf(errList[c]) \cup RecordsOf(toSave[c][d])]
        BY <1>6, <3>2 DEF Save, Saved
      <4>2. d \in Nat /\ toSave[c][d] \in Seq(Entry)
        BY <1>0, <4>1 DEF TypeOK
      <4>3. RecordsOf(errList[c]) \cup RecordsOf(toSave[c][d]) \subseteq Byte
        BY <2>3, <4>2, RecordsAreBytes
      <4>4. wrote' \in [Conn -> SUBSET Byte]
        BY <1>0, <4>1, <4>3 DEF TypeOK
      <4> QED BY <1>4, <4>1, <4>2, <4>4
    <3> QED BY <3>1, <3>2
  <2>5. /\ pc' \in [Conn -> Pcs]
        /\ UNCHANGED <<parser, device, stream, sent, packets, gps, input, errList, toSave,
                       result, torn, broken, registry>>
    BY <1>0, <1>6 DEF Save, TypeOK, Pcs
  <2> QED BY <1>0, <2>2, <2>4, <2>5 DEF TypeOK, Shape
<1>7. ASSUME NEW c \in Conn, SaveFails(c) PROVE TypeOK' /\ Shape'
  <2>1. errors' = errors \/ errors' = AppendTo(errors, gps[c].name, errList[c])
    BY <1>7 DEF SaveFails
  <2>2. \A n \in DOMAIN errors' : n \in Seq(Byte) /\ errors'[n] \in Seq(Entry)
    BY <1>5, <2>1
  <2>3. RecordsOf(errList[c]) \subseteq Byte
    BY <1>0, RecordsAreBytes DEF TypeOK
  <2>4. wrote' \in [Conn -> SUBSET Byte]
    <3>1. wrote' = wrote \/ wrote' = [wrote EXCEPT ![c] = RecordsOf(errList[c])]
      BY <1>7 DEF SaveFails
    <3> QED BY <1>0, <2>3, <3>1 DEF TypeOK
  <2>5. /\ pc' \in [Conn -> Pcs] /\ result' \in [Conn -> {"ok", "bad"}] /\ broken' \subseteq Conn
        /\ UNCHANGED <<parser, device, stream, sent, packets, gps, input, errList, toSave,
                       torn, registry, track>>
    BY <1>0, <1>7 DEF SaveFails, TypeOK, Pcs
  <2> QED BY <1>0, <2>2, <2>4, <2>5 DEF TypeOK, Shape
<1>8. ASSUME NEW c \in Conn, SetAndReply(c) PROVE TypeOK' /\ Shape'
  <2>1. \A n \in DOMAIN registry' : registry'[n] \in Info /\ registry'[n].name = n
    <3>1. gps[c] \in Info /\ \A n \in DOMAIN registry : registry[n] \in Info /\ registry[n].name = n
      BY <1>0 DEF TypeOK
    <3>2. registry' = registry \/ registry' = Put(registry, gps[c].name, gps[c])
      BY <1>8 DEF SetAndReply
    <3> QED BY <3>1, <3>2 DEF Put
  <2>2. DOMAIN Empty = {}
    BY DEF Empty
  <2>3. /\ toSave' = [x \in Conn |-> toSave'[x]]
        /\ \A x \in Conn : \A k \in DOMAIN toSave'[x] :
              k \in Nat /\ toSave'[x][k] \in Seq(Entry) \ {<<>>}
    BY <1>0, <1>8, <2>2 DEF SetAndReply, TypeOK, Shape
  <2>4. /\ pc' \in [Conn -> Pcs] /\ input' \in [Conn -> Seq(Byte)]
        /\ errList' \in [Conn -> Seq(Entry)] /\ wrote' \in [Conn -> SUBSET Byte]
        /\ result' \in [Conn -> {"ok", "bad"}] /\ broken' \subseteq Conn
        /\ UNCHANGED <<parser, device, stream, sent, packets, gps, torn, track, errors>>
    BY <1>0, <1>8 DEF SetAndReply, TypeOK, Pcs
  <2> QED BY <1>0, <2>1, <2>3, <2>4 DEF TypeOK, Shape
<1>9. ASSUME NEW c \in Conn, Disconnect(c) PROVE TypeOK' /\ Shape'
  <2>1. stream' \in [Conn -> Seq(Seq(Byte))]
    BY <1>0, <1>9 DEF Disconnect, TypeOK
  <2> QED BY <1>0, <1>9, <2>1 DEF Disconnect, TypeOK, Shape, Pcs
<1>10. CASE ResetRegistry
  <2>1. DOMAIN Empty = {}
    BY DEF Empty
  <2> QED BY <1>0, <1>10, <2>1 DEF ResetRegistry, TypeOK, Shape
<1>11. CASE UNCHANGED vars
  BY <1>0, <1>11 DEF vars, TypeOK, Shape
<1>12. 0 \in Nat /\ \A n \in Cuts : n \in Nat
  BY NumberAssumption DEF NumberAssumption
<1> QED BY <1>1, <1>2, <1>3, <1>6, <1>7, <1>8, <1>9, <1>10, <1>11, <1>12
        DEF Next, HandlerStep, Exhausted

-----------------------------------------------------------------------------
(* Names, what is collected, and where the records of a packet are.        *)

\* A step of another connection, or of none, leaves a handler alone.
LEMMA Frame ==
    ASSUME NEW h \in Conn, Handler(h), parser' = parser, device'[h] = device[h],
           stream'[h] = stream[h], pc'[h] = pc[h], gps'[h] = gps[h], input'[h] = input[h],
           errList'[h] = errList[h], toSave'[h] = toSave[h], result'[h] = result[h],
           wrote'[h] = wrote[h], h \in torn' <=> h \in torn, h \in broken' <=> h \in broken
    PROVE  Handler(h)'
<1>1. Accepted(h)'
  BY DEF Handler, Accepted
<1>2. SumsAreOwn(h)'
  BY DEF Handler, SumsAreOwn, Own
<1>3. StreamIsOwn(h)'
  BY DEF Handler, StreamIsOwn, Whole
<1>4. Sound(input[h])' = Sound(input[h])
  BY DEF Sound, Codecs
<1>5. Miscounted(input[h])' = Miscounted(input[h])
  BY DEF Miscounted
<1>6. AccountedAt(h)'
  <2>1. \A d \in DOMAIN toSave[h] : Skipped(h, d)' = Skipped(h, d)
    BY DEF Skipped
  <2>2. Stored(h)' = Stored(h) /\ Written(h)' = Written(h)
    BY <1>4, <2>1 DEF Stored, Written
  <2> QED BY <1>5, <2>2 DEF Handler, AccountedAt
<1> QED BY <1>1, <1>2, <1>3, <1>6 DEF Handler

\* Every handler keeps its name, its sums and its records.
LEMMA HandlersNext == Inv /\ [Next]_vars => \A h \in Conn : Handler(h)'
<1> SUFFICES ASSUME Inv, [Next]_vars, NEW h \in Conn PROVE Handler(h)'
  OBVIOUS
<1> DEFINE Same == /\ parser' = parser /\ device'[h] = device[h] /\ stream'[h] = stream[h]
                   /\ pc'[h] = pc[h] /\ gps'[h] = gps[h] /\ input'[h] = input[h]
                   /\ errList'[h] = errList[h] /\ toSave'[h] = toSave[h]
                   /\ result'[h] = result[h] /\ wrote'[h] = wrote[h]
                   /\ (h \in torn' <=> h \in torn) /\ (h \in broken' <=> h \in broken)
<1>0. /\ TypeOK /\ Shape /\ Handler(h) /\ Accepted(h) /\ SumsAreOwn(h) /\ StreamIsOwn(h)
      /\ AccountedAt(h)
      /\ device \in [Conn -> Device \cup {NoDevice}] /\ stream \in [Conn -> Seq(Seq(Byte))]
      /\ pc \in [Conn -> Pcs] /\ gps \in [Conn -> Info] /\ input \in [Conn -> Seq(Byte)]
      /\ errList \in [Conn -> Seq(Entry)] /\ toSave = [c \in Conn |-> toSave[c]]
      /\ result \in [Conn -> {"ok", "bad"}] /\ wrote \in [Conn -> SUBSET Byte]
  BY DEF Inv, Handler, TypeOK, Shape
<1> USE DEF Goes, wire, work, reads, files
\* a step of another connection, or of none
<1>1. ASSUME Same PROVE Handler(h)'
  BY <1>0, <1>1, Frame
<1>2. ASSUME NEW c \in Conn, c # h,
             \/ Disconnect(c) \/ Save(c) \/ SaveFails(c) \/ SetAndReply(c)
             \/ (\E d \in Device : Connect(c, d)) \/ (\E p \in Sending : SendPacket(c, p))
      PROVE  Same
  <2>1. CASE Disconnect(c) \/ Save(c) \/ SaveFails(c) \/ SetAndReply(c)
    BY <1>0, <1>2, <2>1 DEF Disconnect, Save, Saved, SaveFails, SetAndReply
  <2>2. ASSUME NEW d \in Device, Connect(c, d) PROVE Same
    BY <1>0, <1>2, <2>2 DEF Connect
  <2>3. ASSUME NEW p \in Sending, SendPacket(c, p) PROVE Same
    BY <1>0, <1>2, <2>3 DEF SendPacket
  <2> QED BY <1>2, <2>1, <2>2, <2>3
<1>3. ASSUME NEW c \in Conn, c # h, NEW k \in 0 .. Len(stream[c]), NEW n \in Nat,
             Receive(c, k, n)
      PROVE  Same
  BY <1>0, <1>3 DEF Receive
<1>4. ASSUME ResetRegistry \/ UNCHANGED vars PROVE Same
  BY <1>4 DEF ResetRegistry, vars
\* what neither sums up nor acknowledges
<1>5. ASSUME pc'[h] \notin {"save", "set"} PROVE SumsAreOwn(h)' /\ AccountedAt(h)'
  BY <1>5 DEF SumsAreOwn, AccountedAt
\* a step of this one
<1>6. ASSUME NEW d \in Device, Connect(h, d) PROVE Handler(h)'
  <2> DEFINE l == Login(d)
             q == <<l>>
  <2>1. /\ pc[h] = "unused" /\ pc'[h] = "reading" /\ device'[h] = d /\ gps'[h] = gps[h]
        /\ stream'[h] = q
    BY <1>0, <1>6 DEF Connect
  <2>2. gps[h].name = <<>>
    BY <1>0, <2>1 DEF Accepted
  <2>3. Accepted(h)'
    BY <2>1 DEF Accepted
  <2>4. \A j \in DOMAIN q : j = 1 /\ q[j] = l
    <3> HIDE DEF l
    <3> QED OBVIOUS
  <2> HIDE DEF q
  <2>5. Whole(d, <<>>, q)
    BY <2>4 DEF Whole
  <2>6. StreamIsOwn(h)'
    BY <2>1, <2>2, <2>5 DEF StreamIsOwn, Whole
  <2> QED BY <1>5, <2>1, <2>3, <2>6 DEF Handler
<1>7. ASSUME NEW p \in Sending, SendPacket(h, p) PROVE Handler(h)'
  <2> DEFINE P == Packet(p)
             s == stream[h]
             t == Append(s, P)
  <2>1. /\ pc[h] = "reading" /\ pc'[h] = pc[h] /\ device'[h] = device[h] /\ gps'[h] = gps[h]
        /\ stream'[h] = t /\ torn' = torn
    BY <1>0, <1>7 DEF SendPacket
  <2>2. Accepted(h)'
    BY <1>0, <2>1 DEF Accepted
  <2>3. P \in Seq(Byte) /\ s \in Seq(Seq(Byte))
    BY <1>0, PacketType
  <2>4. \A j \in DOMAIN t : t[j] = P \/ (j \in DOMAIN s /\ t[j] = s[j])
    <3> HIDE DEF P, s
    <3> QED BY <2>3
  <2> HIDE DEF t
  <2>5. Whole(device[h], gps[h].name, s) => Whole(device[h], gps[h].name, t)
    BY <2>4 DEF Whole, P
  <2>6. StreamIsOwn(h)'
    BY <1>0, <2>1, <2>5 DEF StreamIsOwn, Whole
  <2> QED BY <1>5, <2>1, <2>2, <2>6 DEF Handler
<1>8. ASSUME NEW k \in 0 .. Len(stream[h]), NEW n \in Nat, Receive(h, k, n) PROVE Handler(h)'
  <2> DEFINE g == InfoOf(h)
             i == ReadOf(h, k, n)
             o == ParseData(h, g, i)
             r == RestOf(h, k, n)
  <2>1. /\ pc[h] = "reading" /\ pc'[h] = o.next /\ device'[h] = device[h] /\ gps'[h] = o.gps
        /\ stream'[h] = r /\ input'[h] = i /\ errList'[h] = o.errs /\ toSave'[h] = o.save
        /\ result'[h] = o.result /\ parser' = parser
        /\ (h \notin torn' => n = 0 /\ h \notin torn)
    <3>1. /\ stream' = [stream EXCEPT ![h] = r]
          /\ torn' = IF n = 0 THEN torn ELSE torn \cup {h}
          /\ input' = [input EXCEPT ![h] = i] /\ gps' = [gps EXCEPT ![h] = o.gps]
          /\ errList' = [errList EXCEPT ![h] = o.errs]
          /\ toSave' = [toSave EXCEPT ![h] = o.save]
          /\ pc' = [pc EXCEPT ![h] = o.next] /\ result' = [result EXCEPT ![h] = o.result]
      BY <1>0, <1>8, ReceiveIs
    <3>2. pc[h] = "reading" /\ UNCHANGED <<parser, device>>
      BY <1>8 DEF Receive
    <3> HIDE DEF g, i, o, r
    <3> QED BY <1>0, <3>1, <3>2
  <2>2. device[h] \in Device
    BY <1>0, <2>1 DEF Accepted
  <2>3. /\ i \in Seq(Byte) /\ g \in Info /\ g.name \in {<<>>, gps[h].name} /\ o \in Outcome(h)
    BY <1>0, <1>8, ReadType
  <2>4. o.next \in {"set", "save"} /\ o.save \in Days(Own(h))
        /\ (o.next = "save" => o.gps.name # <<>>)
    <3>1. o.next = "save" => g.name # <<>> /\ o.gps.name = g.name
      BY <2>2, <2>3, Parsed
    <3> HIDE DEF o
    <3> QED BY <2>3, <3>1 DEF Outcome
  <2>5. ASSUME h \notin torn'
        PROVE  /\ o.gps.name \in {<<>>, <<device[h]>>}
               /\ Whole(device[h], o.gps.name, r)
               /\ RoundDivides => Taken(h, o, i)
    <3> DEFINE s == stream[h]
               name == gps[h].name
    <3>1. /\ n = 0 /\ k \in 1 .. Len(s) /\ s \in Seq(Seq(Byte)) /\ name \in {<<>>, <<device[h]>>}
          /\ Whole(device[h], name, s)
      <4>1. n = 0 /\ h \notin torn
        BY <2>1, <2>5
      <4>2. k + n > 0
        BY <1>8 DEF Receive
      <4>3. k \in 1 .. Len(s) /\ s \in Seq(Seq(Byte))
        BY <1>0, <4>1, <4>2
      <4> QED BY <1>0, <4>1, <4>3 DEF StreamIsOwn
    <3>2. i = FlattenSeq(SubSeq(s, 1, k)) /\ r = SubSeq(s, k + 1, Len(s))
      <4>1. SubSeq(s, 1, k) \in Seq(Seq(Byte))
        <5> DEFINE a == 1
        <5>1. a \in Nat /\ 1 <= a /\ a <= k + 1 /\ k \in Nat /\ k <= Len(s)
          BY <3>1
        <5>2. SubSeq(s, a, k) \in Seq(Seq(Byte))
          <6> HIDE DEF a, s
          <6> QED BY <3>1, <5>1, SubSeqAt
        <5> QED BY <5>2
      <4> DEFINE f == FlattenSeq(SubSeq(s, 1, k))
      <4>2. f \in Seq(Byte)
        BY <4>1, FlattenType
      <4>3. i = f \o <<>> /\ r = SubSeq(s, k + 1, Len(s))
        BY <3>1 DEF ReadOf, RestOf
      <4> HIDE DEF f
      <4>4. f \o <<>> = f
        BY <4>2
      <4> QED BY <4>3, <4>4 DEF f
    <3>3. g.name \in {<<>>, <<device[h]>>} /\ (name = <<>> => g.name = <<>>)
      BY <2>3, <3>1
    <3> HIDE DEF g, s, name
    <3> DEFINE j == FlattenSeq(SubSeq(s, 1, k))
               x == ParseData(h, g, j)
    <3>6. x.gps.name \in {<<>>, <<device[h]>>} /\ (RoundDivides => Taken(h, x, j))
      BY <2>2, <2>3, <3>1, <3>3, WholeParsed
    <3>7. i = j /\ o = x
      BY <3>2
    <3> HIDE DEF i, j, o, x
    <3>4. o.gps.name \in {<<>>, <<device[h]>>} /\ (RoundDivides => Taken(h, o, i))
      BY <3>6, <3>7
    <3>5. Whole(device[h], o.gps.name, r)
      BY <3>1, <3>2, WholeRest
    <3> QED BY <3>4, <3>5
  <2> HIDE DEF g, i, o, r
  <2>6. Accepted(h)'
    BY <2>1, <2>2, <2>4 DEF Accepted
  <2>7. SumsAreOwn(h)'
    BY <2>1, <2>4 DEF SumsAreOwn, Own
  <2>8. StreamIsOwn(h)'
    BY <2>1, <2>5 DEF StreamIsOwn, Whole
  <2>9. AccountedAt(h)'
    <3>1. Sound(input[h])' = Sound(i) /\ Miscounted(input[h])' = Miscounted(i)
      BY <2>1 DEF Sound, Codecs, Miscounted
    <3>2. ASSUME RoundDivides, h \notin torn'
          PROVE  \/ /\ pc'[h] = "set"
                    /\ result'[h] = "bad" \/ input'[h] = Login(device[h]) \/ Miscounted(i)
                 \/ pc'[h] = "save" /\ Stored(h)'
      BY <2>1, <2>5, <3>1, <3>2 DEF Taken, Stored
    <3> QED BY <2>1, <3>1, <3>2 DEF AccountedAt
  <2> QED BY <2>6, <2>7, <2>8, <2>9 DEF Handler
<1>9. ASSUME NEW x, x \in {"save", "set"}, pc[h] = x, device'[h] = device[h],
             gps'[h] = gps[h], stream'[h] = stream[h], torn' = torn, pc'[h] # "save",
             pc'[h] # "unused"
      PROVE  Accepted(h)' /\ SumsAreOwn(h)' /\ StreamIsOwn(h)'
  BY <1>0, <1>9 DEF Accepted, SumsAreOwn, StreamIsOwn, Whole
<1>10. ASSUME Save(h) PROVE Handler(h)'
  <2>1. /\ pc[h] = "save" /\ pc'[h] = "set" /\ device'[h] = device[h] /\ gps'[h] = gps[h]
        /\ stream'[h] = stream[h] /\ torn' = torn /\ parser' = parser /\ broken' = broken
        /\ input'[h] = input[h] /\ toSave'[h] = toSave[h]
        /\ \/ DOMAIN toSave[h] = {} /\ wrote'[h] = RecordsOf(errList[h])
           \/ \E d \in DOMAIN toSave[h] :
                 wrote'[h] = RecordsOf(errList[h]) \cup RecordsOf(toSave[h][d])
    BY <1>0, <1>10 DEF Save, Saved
  <2>2. \/ DOMAIN toSave[h] = {} /\ RecordsOf(errList[h]) \cup Filed(toSave[h]) \subseteq wrote'[h]
        \/ \E d \in DOMAIN toSave[h] : RecordsOf(errList[h]) \cup Filed(toSave[h])
                                         \subseteq wrote'[h] \cup Skipped(h, d)
    BY <2>1 DEF Filed, Skipped
  <2>3. /\ Sound(input[h])' = Sound(input[h])
        /\ \A d \in DOMAIN toSave[h] : Skipped(h, d)' = Skipped(h, d)
    BY <2>1 DEF Sound, Codecs, Skipped
  <2>4. ASSUME RoundDivides, h \notin torn PROVE Written(h)'
    <3>1. Stored(h)
      BY <1>0, <2>1, <2>4 DEF AccountedAt
    <3> QED BY <2>1, <2>2, <2>3, <3>1 DEF Stored, Written
  <2>5. AccountedAt(h)'
    BY <2>1, <2>4 DEF AccountedAt
  <2> QED BY <1>9, <2>1, <2>5 DEF Handler
<1>11. ASSUME SaveFails(h) PROVE Handler(h)'
  <2>1. /\ pc[h] = "save" /\ pc'[h] = "set" /\ device'[h] = device[h] /\ gps'[h] = gps[h]
        /\ stream'[h] = stream[h] /\ torn' = torn /\ parser' = parser
        /\ input'[h] = input[h]
        /\ result'[h] = (IF parser = "Cargo" THEN "ok" ELSE "bad") /\ h \in broken'
    BY <1>0, <1>11 DEF SaveFails
  <2>2. Sound(input[h])' = Sound(input[h])
    BY <2>1 DEF Sound, Codecs
  <2>3. ASSUME RoundDivides, h \notin torn, parser = "Cargo" PROVE Written(h)'
    <3>1. Stored(h)
      BY <1>0, <2>1, <2>3 DEF AccountedAt
    <3> QED BY <2>1, <2>2, <2>3, <3>1 DEF Stored, Written
  <2>4. AccountedAt(h)'
    BY <2>1, <2>3 DEF AccountedAt
  <2> QED BY <1>9, <2>1, <2>4 DEF Handler
<1>12. ASSUME SetAndReply(h) PROVE Handler(h)'
  <2>1. /\ pc[h] = "set" /\ pc'[h] = "reading" /\ device'[h] = device[h] /\ gps'[h] = gps[h]
        /\ stream'[h] = stream[h] /\ torn' = torn
    BY <1>0, <1>12 DEF SetAndReply
  <2> QED BY <1>5, <1>9, <2>1 DEF Handler
<1>13. ASSUME Disconnect(h) PROVE Handler(h)'
  <2>1. /\ pc[h] = "reading" /\ pc'[h] = "gone" /\ device'[h] = device[h] /\ gps'[h] = gps[h]
        /\ stream'[h] = <<>> /\ torn' = torn
    BY <1>0, <1>13 DEF Disconnect
  <2>2. Accepted(h)'
    BY <1>0, <2>1 DEF Accepted
  <2>3. StreamIsOwn(h)'
    BY <1>0, <2>1 DEF StreamIsOwn, Whole
  <2> QED BY <1>5, <2>1, <2>2, <2>3 DEF Handler
<1>14. 0 \in Nat /\ \A n \in Cuts : n \in Nat
  BY NumberAssumption DEF NumberAssumption
<1>15. ASSUME NEW c \in Conn,
              \/ HandlerStep(c)
              \/ (\E d \in Device : Connect(c, d)) \/ (\E p \in Sending : SendPacket(c, p))
       PROVE  Handler(h)'
  <2>1. CASE c = h
    BY <1>6, <1>7, <1>8, <1>10, <1>11, <1>12, <1>13, <1>14, <1>15, <2>1 DEF HandlerStep
  <2>2. CASE c # h
    BY <1>1, <1>2, <1>3, <1>14, <1>15, <2>2 DEF HandlerStep
  <2> QED BY <2>1, <2>2
<1> QED BY <1>1, <1>4, <1>15 DEF Next, Exhausted

\* What is appended to a track is its tracker's.
LEMMA TracksNext == Inv /\ [Next]_vars => TracksAreOwn'
<1> SUFFICES ASSUME Inv, [Next]_vars PROVE TracksAreOwn'
  OBVIOUS
<1>0. /\ TypeOK /\ TracksAreOwn
      /\ \A c \in Conn : SumsAreOwn(c) /\ StreamIsOwn(c)
      /\ \A k \in DOMAIN track : track[k] \in Seq(Entry)
  BY DEF Inv, Handler, TypeOK
<1> USE DEF Goes, wire, work, reads, files
<1>1. ASSUME track' = track, torn \subseteq torn' PROVE TracksAreOwn'
  BY <1>0, <1>1 DEF TracksAreOwn
<1>2. ASSUME NEW c \in Conn, Save(c) PROVE TracksAreOwn'
  <2>1. torn' = torn /\ pc[c] = "save"
    BY <1>2 DEF Save
  <2>2. CASE track' = track
    BY <1>1, <2>1, <2>2
  <2>3. ASSUME NEW d \in DOMAIN toSave[c],
               track' = AppendTo(track, <<d, gps[c].name>>, toSave[c][d])
        PROVE  TracksAreOwn'
    <3> DEFINE key == <<d, gps[c].name>>
               s == toSave[c][d]
               old == Old(track, key)
               Owned(k, e) == e.via \notin torn => k[2] = <<e.dev>>
    <3>1. s \in Seq(Own(c)) /\ s \in Seq(Entry)
      <4>1. gps[c].name # <<>> /\ toSave[c] \in Days(Own(c))
        BY <1>0, <2>1 DEF SumsAreOwn
      <4>2. s \in Seq(Own(c))
        BY <4>1, DayEntries
      <4> QED BY <1>0, <4>2 DEF TypeOK
    <3>2. c \notin torn => key[2] = <<device[c]>>
      BY <1>0, <2>1 DEF SumsAreOwn, StreamIsOwn
    <3> HIDE DEF key, s
    <3>3. \A j \in DOMAIN s : Owned(key, s[j])
      <4>1. \A j \in DOMAIN s : s[j] \in Own(c)
        BY <3>1
      <4> QED BY <3>2, <4>1 DEF Own
    <3>4. track' = [k \in DOMAIN track \cup {key} |-> IF k = key THEN old \o s ELSE track[k]]
      BY <2>3 DEF AppendTo, Put, Old, key, s
    <3>5. old \in Seq(Entry) /\ \A j \in DOMAIN old : Owned(key, old[j])
      BY <1>0 DEF Old, TracksAreOwn
    <3> HIDE DEF old
    <3>6. \A j \in DOMAIN (old \o s) : Owned(key, (old \o s)[j])
      <4> HIDE DEF Owned
      <4> QED BY <3>1, <3>3, <3>5, ConcatElement
    <3>7. ASSUME NEW k \in DOMAIN track', NEW j \in DOMAIN track'[k]
          PROVE  Owned(k, track'[k][j])
      <4>1. CASE k = key
        <5>1. track'[k] = old \o s
          BY <3>4, <4>1
        <5> HIDE DEF Owned
        <5> QED BY <3>6, <3>7, <4>1, <5>1
      <4>2. CASE k # key
        <5>1. k \in DOMAIN track /\ track'[k] = track[k]
          BY <3>4, <4>2
        <5> QED BY <1>0, <3>7, <5>1 DEF TracksAreOwn
      <4> QED BY <4>1, <4>2
    <3> QED BY <2>1, <3>7 DEF TracksAreOwn
  <2> QED BY <1>2, <2>2, <2>3 DEF Save, Saved
<1>3. ASSUME NEW c \in Conn, SaveFails(c) \/ SetAndReply(c) \/ Disconnect(c)
      PROVE  TracksAreOwn'
  <2>1. track' = track /\ torn' = torn
    BY <1>3 DEF SaveFails, SetAndReply, Disconnect
  <2> QED BY <1>1, <2>1
<1>4. ASSUME NEW c \in Conn, NEW d \in Device, Connect(c, d) PROVE TracksAreOwn'
  BY <1>1, <1>4 DEF Connect
<1>5. ASSUME NEW c \in Conn, NEW p \in Sending, SendPacket(c, p) PROVE TracksAreOwn'
  BY <1>1, <1>5 DEF SendPacket
<1>6. ASSUME NEW c \in Conn, NEW k, NEW n, Receive(c, k, n) PROVE TracksAreOwn'
  <2>1. track' = track /\ torn \subseteq torn'
    BY <1>6 DEF Receive
  <2> QED BY <1>1, <2>1
<1>7. ASSUME ResetRegistry \/ UNCHANGED vars PROVE TracksAreOwn'
  <2>1. track' = track /\ torn' = torn
    BY <1>7 DEF ResetRegistry, vars
  <2> QED BY <1>1, <2>1
<1> QED BY <1>2, <1>3, <1>4, <1>5, <1>6, <1>7 DEF Next, HandlerStep, Exhausted

-----------------------------------------------------------------------------
(* The theorems.                                                           *)

\* No connection has been accepted, and nothing is stored.
LEMMA InitInv == Init => Inv
<1> SUFFICES ASSUME Init PROVE Inv
  OBVIOUS
<1>1. DOMAIN Empty = {} /\ NewInfo \in Info /\ NewInfo.name = <<>>
  BY DEF Empty, NewInfo, Info
<1>2. TypeOK
  <2>1. 0 \in 0 .. MaxPackets
    BY NumberAssumption DEF NumberAssumption
  <2> QED BY <1>1, <2>1 DEF Init, TypeOK, Pcs
<1>3. Shape
  BY DEF Init, Shape
<1>4. ASSUME NEW c \in Conn PROVE Handler(c)
  <2>1. pc[c] = "unused" /\ gps[c].name = <<>> /\ stream[c] = <<>>
    BY <1>1 DEF Init
  <2> QED BY <2>1 DEF Handler, Accepted, SumsAreOwn, StreamIsOwn, Whole, AccountedAt
<1>5. TracksAreOwn
  BY <1>1 DEF Init, TracksAreOwn
<1> QED BY <1>2, <1>3, <1>4, <1>5 DEF Inv

\* Inv holds in every reachable state.
THEOREM Invariance == Spec => []Inv
<1>1. Inv /\ [Next]_vars => Inv'
  BY TypeNext, HandlersNext, TracksNext DEF Inv
<1> QED BY <1>1, InitInv, PTL DEF Spec

\* Every variable keeps its type, whatever bytes a Read returns.
THEOREM TypeCorrect == Spec => []TypeOK
  BY Invariance, PTL DEF Inv

\* A track under a name holds records only of the tracker of that name, whatever the
\* registry gives back, as long as no Read ended inside a packet.
THEOREM TracksDoNotMix == Spec => []TracksAreOwn
  BY Invariance, PTL DEF Inv

\* If the table divides one step, then on a connection whose Reads all ended where
\* packets end, an acknowledgement that answers neither the login nor a packet with
\* fewer records than it counts gives the number of records of the one sound packet
\* it answers.  Each of them is in a file, unless the packet has records of two days
\* and this one is not of the day that was written, or the parser is Cargo and a
\* write failed.
THEOREM AcknowledgedIsStored == ASSUME RoundDivides PROVE Spec => []AckedIsStored
<1>1. Inv => AckedIsStored
  <2> SUFFICES ASSUME Inv, NEW c \in Conn \ torn,
                      pc[c] = "set", result[c] = "ok",
                      input[c] # Login(device[c]), ~Miscounted(input[c])
               PROVE  Written(c)
    BY DEF AckedIsStored, Written
  <2>1. AccountedAt(c)
    BY DEF Inv, Handler
  <2> QED BY <2>1 DEF AccountedAt
<1> QED BY <1>1, Invariance, PTL
=============================================================================
