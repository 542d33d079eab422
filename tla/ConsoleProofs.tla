--------------------------- MODULE ConsoleProofs ---------------------------
(***************************************************************************)
(* Proofs about Aes and Console: that the inverse cipher undoes the cipher *)
(* for every piece, key and number of rounds, and what the encrypted files *)
(* of the console therefore read back.                                     *)
(***************************************************************************)
EXTENDS Console, RecursionProofs

-----------------------------------------------------------------------------
(* Bytes *)

\* Two bytes are the same if their bits are.
LEMMA SameByte ==
    ASSUME NEW a \in Byte, NEW b \in Byte, \A k \in 0 .. 7 : k \in a <=> k \in b
    PROVE  a = b
BY DEF Byte

\* The sum of bytes is a byte, whose bits are those of one of the two.
LEMMA Added ==
    ASSUME NEW a \in Byte, NEW b \in Byte
    PROVE  /\ a ++ b \in Byte
           /\ \A k : k \in a ++ b <=> ~(k \in a <=> k \in b)
<1>1. a ++ b = (a \ b) \cup (b \ a)
  BY DEF ++, gadd
<1>2. QED
  BY <1>1 DEF Byte

\* What is added twice is taken away.
LEMMA AddedTwice ==
    ASSUME NEW a \in Byte, NEW b \in Byte
    PROVE  (a ++ b) ++ b = a
<1>1. (a ++ b) ++ b \in Byte
  BY Added
<1>2. QED
  BY <1>1, Added, SameByte

\* The factors in the two matrices and in Rcon, as sets of bits.
LEMMA Factors ==
    /\ Bits(1) = {0} /\ Bits(2) = {1} /\ Bits(3) = {0, 1} /\ Bits(9) = {0, 3}
    /\ Bits(11) = {0, 1, 3} /\ Bits(13) = {0, 2, 3} /\ Bits(14) = {1, 2, 3}
<1> DEFINE odd(n, k) == (n \div 2^k) % 2 = 1
<1>1. /\ 2^0 = 1 /\ 2^1 = 2 /\ 2^2 = 4 /\ 2^3 = 8
      /\ 2^4 = 16 /\ 2^5 = 32 /\ 2^6 = 64 /\ 2^7 = 128
  OBVIOUS
<1>2. \A n \in {1, 2, 3, 9, 11, 13, 14} : ~odd(n, 4) /\ ~odd(n, 5) /\ ~odd(n, 6) /\ ~odd(n, 7)
  BY <1>1
<1>3. /\ odd(1, 0) /\ ~odd(1, 1) /\ ~odd(1, 2) /\ ~odd(1, 3)
      /\ ~odd(2, 0) /\ odd(2, 1) /\ ~odd(2, 2) /\ ~odd(2, 3)
      /\ odd(3, 0) /\ odd(3, 1) /\ ~odd(3, 2) /\ ~odd(3, 3)
      /\ odd(9, 0) /\ ~odd(9, 1) /\ ~odd(9, 2) /\ odd(9, 3)
  BY <1>1
<1>4. /\ odd(11, 0) /\ odd(11, 1) /\ ~odd(11, 2) /\ odd(11, 3)
      /\ odd(13, 0) /\ ~odd(13, 1) /\ odd(13, 2) /\ odd(13, 3)
      /\ ~odd(14, 0) /\ odd(14, 1) /\ odd(14, 2) /\ odd(14, 3)
  BY <1>1
<1>5. \A n : Bits(n) = {k \in 0 .. 7 : odd(n, k)}
  BY DEF Bits
<1> HIDE DEF odd
<1>6. Bits(1) = {0} /\ Bits(2) = {1} /\ Bits(3) = {0, 1} /\ Bits(9) = {0, 3}
  BY <1>2, <1>3, <1>5
<1>7. Bits(11) = {0, 1, 3} /\ Bits(13) = {0, 2, 3} /\ Bits(14) = {1, 2, 3}
  BY <1>2, <1>4, <1>5
<1>8. QED
  BY <1>6, <1>7

\* The bits of what one turn of gmult makes of a byte.
LEMMA XTimeBits ==
    ASSUME NEW a \in Byte
    PROVE  /\ XTime(a) \in Byte
           /\ 0 \in XTime(a) <=> 7 \in a
           /\ 1 \in XTime(a) <=> ~(0 \in a <=> 7 \in a)
           /\ 2 \in XTime(a) <=> 1 \in a
           /\ 3 \in XTime(a) <=> ~(2 \in a <=> 7 \in a)
           /\ 4 \in XTime(a) <=> ~(3 \in a <=> 7 \in a)
           /\ 5 \in XTime(a) <=> 4 \in a
           /\ 6 \in XTime(a) <=> 5 \in a
           /\ 7 \in XTime(a) <=> 6 \in a
<1> DEFINE up == {n + 1 : n \in a \ {7}}
           carry == IF 7 \in a THEN {0, 1, 3, 4} ELSE {}
<1>1. up \in Byte /\ carry \in Byte
  BY DEF Byte
<1>2. \A k \in 0 .. 7 : k \in up <=> k - 1 \in a \ {7}
  BY DEF Byte
<1>3. \A k : k \in carry <=> 7 \in a /\ k \in {0, 1, 3, 4}
  OBVIOUS
<1>4. XTime(a) = up ++ carry
  BY DEF XTime
<1>5. -1 \notin a
  BY DEF Byte
<1> HIDE DEF up, carry
<1>6. \A k \in 0 .. 7 : k \in XTime(a) <=> ~(k - 1 \in a \ {7} <=> (7 \in a /\ k \in {0, 1, 3, 4}))
  BY <1>1, <1>2, <1>3, <1>4, Added
<1>7. XTime(a) \in Byte
  BY <1>1, <1>4, Added
<1>8. QED
  BY <1>5, <1>6, <1>7

\* The turn of a sum is the sum of the turns.
LEMMA XTimeSum ==
    ASSUME NEW a \in Byte, NEW b \in Byte
    PROVE  XTime(a ++ b) = XTime(a) ++ XTime(b)
<1>1. a ++ b \in Byte /\ XTime(a ++ b) \in Byte /\ XTime(a) ++ XTime(b) \in Byte
  BY Added, XTimeBits
<1>2. \A k \in 0 .. 7 : k \in XTime(a ++ b) <=> k \in XTime(a) ++ XTime(b)
  <2> TAKE k \in 0 .. 7
  <2>1. k \in XTime(a) ++ XTime(b) <=> ~(k \in XTime(a) <=> k \in XTime(b))
    BY XTimeBits, Added
  <2>2. \A n : n \in a ++ b <=> ~(n \in a <=> n \in b)
    BY Added
  <2>3. k = 0 \/ k = 1 \/ k = 2 \/ k = 3 \/ k = 4 \/ k = 5 \/ k = 6 \/ k = 7
    OBVIOUS
  <2>4. QED
    BY <1>1, <2>1, <2>2, <2>3, XTimeBits
<1>3. QED
  BY <1>1, <1>2, SameByte

\* x and p go on as gmult(a, b) does.
Turns(x, p, a, b) ==
    /\ x \in [0 .. 8 -> Byte] /\ p \in [0 .. 8 -> Byte]
    /\ x[0] = a /\ p[0] = {}
    /\ \A k \in 1 .. 8 :
          /\ x[k] = XTime(x[k - 1])
          /\ p[k] = IF k - 1 \in b THEN p[k - 1] ++ x[k - 1] ELSE p[k - 1]

\* gmult is the sum after its eight turns.
LEMMA GmultTurns ==
    ASSUME NEW a \in Byte, NEW b \in Byte
    PROVE  \E x, p : Turns(x, p, a, b) /\ gmult(a, b) = p[8]
<1> DEFINE V == Byte \X Byte
           start == <<a, {}>>
           After(k, t) == <<XTime(t[1]), IF k - 1 \in b THEN t[2] ++ t[1] ELSE t[2]>>
           step == [k \in Nat |-> [t \in V |-> After(k, t)]]
           Body(f) == [k \in 0 .. 8 |-> IF k = 0 THEN start ELSE After(k, f[k - 1])]
           turn[k \in 0 .. 8] ==
               IF k = 0 THEN <<a, {}>>
               ELSE LET t == turn[k - 1]
                    IN <<XTime(t[1]), IF k - 1 \in b THEN t[2] ++ t[1] ELSE t[2]>>
<1>1. start \in V
  BY DEF Byte
<1>2. \A k \in Nat, t \in V : After(k, t) \in V
  <2> TAKE k \in Nat, t \in V
  <2>1. t[1] \in Byte /\ t[2] \in Byte
    OBVIOUS
  <2>2. XTime(t[1]) \in Byte /\ t[2] ++ t[1] \in Byte
    BY <2>1, XTimeBits, Added
  <2>3. QED
    BY <2>1, <2>2
<1>3. PICK f \in [0 .. 8 -> V] : Follows(f, 8, start, step)
  <2>1. step \in [Nat -> [V -> V]]
    <3> HIDE DEF V, After
    <3>1. QED
      BY <1>2
  <2>2. 8 \in Nat
    OBVIOUS
  <2> HIDE DEF V, start, step
  <2>3. QED
    BY <1>1, <2>1, <2>2, Recursion
<1>4. f[0] = start /\ \A k \in 1 .. 8 : f[k] = After(k, f[k - 1])
  <2>1. ASSUME NEW k \in 1 .. 8
        PROVE  f[k] = After(k, f[k - 1])
    <3>1. f[k - 1] \in V /\ k \in Nat
      <4> HIDE DEF V
      <4>1. QED
        BY <1>3
    <3>2. step[k][f[k - 1]] = After(k, f[k - 1])
      <4> HIDE DEF V, After
      <4>1. QED
        BY <3>1
    <3> HIDE DEF V, step, After, start
    <3>3. QED
      BY <1>3, <3>2 DEF Follows
  <2> HIDE DEF V, step, After, start
  <2>2. QED
    BY <1>3, <2>1 DEF Follows
<1>5. turn = Body(turn)
  <2>1. f = Body(f)
    <3>1. f = [k \in 0 .. 8 |-> f[k]]
      <4> HIDE DEF V
      <4>1. QED
        BY <1>3
    <3>2. \A k \in 0 .. 8 : f[k] = IF k = 0 THEN start ELSE After(k, f[k - 1])
      <4> HIDE DEF After, start
      <4>1. QED
        BY <1>4
    <3> HIDE DEF After, start
    <3>3. QED
      BY <3>1, <3>2
  <2>2. turn = CHOOSE g : g = Body(g)
    OBVIOUS
  <2> HIDE DEF Body, turn
  <2>3. QED
    BY <2>1, <2>2
<1>6. turn = f
  <2>1. turn[0] = f[0] /\ turn = [k \in 0 .. 8 |-> turn[k]]
    <3> HIDE DEF turn, After, start
    <3>1. QED
      BY <1>4, <1>5
  <2>2. f = [k \in 0 .. 8 |-> f[k]]
    <3> HIDE DEF V
    <3>1. QED
      BY <1>3
  <2>3. ASSUME NEW k \in 1 .. 8, turn[k - 1] = f[k - 1]
        PROVE  turn[k] = f[k]
    <3>1. turn[k] = After(k, turn[k - 1])
      <4> HIDE DEF turn, After, start
      <4>1. QED
        BY <1>5
    <3> HIDE DEF turn, After
    <3>2. QED
      BY <1>4, <2>3, <3>1
  <2>4. Alike(turn, f, 8)
    <3> HIDE DEF turn
    <3>1. QED
      BY <2>1, <2>2, <2>3 DEF Alike
  <2> HIDE DEF turn
  <2>5. QED
    BY <2>4, Agreement
<1>7. gmult(a, b) = f[8][2]
  <2>1. gmult(a, b) = turn[8][2]
    BY DEF gmult
  <2> HIDE DEF turn
  <2>2. QED
    BY <1>6, <2>1
<1> DEFINE x == [k \in 0 .. 8 |-> f[k][1]]
           p == [k \in 0 .. 8 |-> f[k][2]]
<1>8. Turns(x, p, a, b)
  <2>1. x \in [0 .. 8 -> Byte] /\ p \in [0 .. 8 -> Byte]
    BY <1>3
  <2>2. x[0] = a /\ p[0] = {}
    BY <1>4
  <2>3. ASSUME NEW k \in 1 .. 8
        PROVE  /\ x[k] = XTime(x[k - 1])
               /\ p[k] = IF k - 1 \in b THEN p[k - 1] ++ x[k - 1] ELSE p[k - 1]
    BY <1>4
  <2> HIDE DEF x, p
  <2>4. QED
    BY <2>1, <2>2, <2>3 DEF Turns
<1>9. p[8] = f[8][2]
  OBVIOUS
<1> HIDE DEF x, p
<1>10. QED
  BY <1>7, <1>8, <1>9

\* Induction over the eight turns.
LEMMA EightTurns ==
    ASSUME NEW P, 0 \in P, \A k \in 1 .. 8 : k - 1 \in P => k \in P
    PROVE  8 \in P
<1>1. 1 \in P /\ 2 \in P
  <2>1. 1 - 1 = 0 /\ 2 - 1 = 1 /\ 1 \in 1 .. 8 /\ 2 \in 1 .. 8
    OBVIOUS
  <2>2. QED
    BY <2>1
<1>2. 3 \in P /\ 4 \in P
  <2>1. 3 - 1 = 2 /\ 4 - 1 = 3 /\ 3 \in 1 .. 8 /\ 4 \in 1 .. 8
    OBVIOUS
  <2>2. QED
    BY <1>1, <2>1
<1>3. 5 \in P /\ 6 \in P
  <2>1. 5 - 1 = 4 /\ 6 - 1 = 5 /\ 5 \in 1 .. 8 /\ 6 \in 1 .. 8
    OBVIOUS
  <2>2. QED
    BY <1>2, <2>1
<1>4. QED
  <2>1. 7 - 1 = 6 /\ 8 - 1 = 7 /\ 7 \in 1 .. 8 /\ 8 \in 1 .. 8
    OBVIOUS
  <2>2. QED
    BY <1>3, <2>1

\* A product is a byte.
LEMMA GmultType ==
    ASSUME NEW a \in Byte, NEW b \in Byte
    PROVE  gmult(a, b) \in Byte
<1>1. PICK x, p : Turns(x, p, a, b) /\ gmult(a, b) = p[8]
  BY GmultTurns
<1>2. QED
  BY <1>1 DEF Turns

\* A rearrangement of sums.
LEMMA AddedFour ==
    ASSUME NEW a \in Byte, NEW b \in Byte, NEW c \in Byte, NEW d \in Byte
    PROVE  /\ (a ++ b) ++ (c ++ d) = (a ++ c) ++ (b ++ d)
           /\ (a ++ b) ++ c = (a ++ c) ++ b
           /\ a ++ (b ++ c) = (a ++ b) ++ c
           /\ a ++ {} = a /\ {} ++ a = a /\ a ++ a = {}
<1>1. {} \in Byte
  BY DEF Byte
<1>2. /\ a ++ b \in Byte /\ c ++ d \in Byte /\ a ++ c \in Byte /\ b ++ d \in Byte /\ b ++ c \in Byte
      /\ a ++ {} \in Byte /\ {} ++ a \in Byte /\ a ++ a \in Byte
  BY <1>1, Added
<1>3. (a ++ b) ++ (c ++ d) = (a ++ c) ++ (b ++ d)
  <2>1. (a ++ b) ++ (c ++ d) \in Byte /\ (a ++ c) ++ (b ++ d) \in Byte
    BY <1>2, Added
  <2>2. QED
    BY <1>2, <2>1, Added, SameByte
<1>4. (a ++ b) ++ c = (a ++ c) ++ b /\ a ++ (b ++ c) = (a ++ b) ++ c
  <2>1. (a ++ b) ++ c \in Byte /\ (a ++ c) ++ b \in Byte /\ a ++ (b ++ c) \in Byte
    BY <1>2, Added
  <2>2. QED
    BY <1>2, <2>1, Added, SameByte
<1>5. a ++ {} = a /\ {} ++ a = a /\ a ++ a = {}
  BY <1>1, <1>2, Added, SameByte
<1>6. QED
  BY <1>3, <1>4, <1>5

\* The product of a sum is the sum of the products, on the left.
LEMMA GmultSumLeft ==
    ASSUME NEW a \in Byte, NEW c \in Byte, NEW b \in Byte
    PROVE  gmult(a ++ c, b) = gmult(a, b) ++ gmult(c, b)
<1>1. PICK x, p : Turns(x, p, a, b) /\ gmult(a, b) = p[8]
  BY GmultTurns
<1>2. PICK y, q : Turns(y, q, c, b) /\ gmult(c, b) = q[8]
  BY GmultTurns
<1>3. PICK z, r : Turns(z, r, a ++ c, b) /\ gmult(a ++ c, b) = r[8]
  BY GmultTurns, Added
<1> DEFINE P == {k \in 0 .. 8 : z[k] = x[k] ++ y[k] /\ r[k] = p[k] ++ q[k]}
<1>4. 0 \in P
  <2>1. {} ++ {} = {}
    BY AddedFour DEF Byte
  <2>2. QED
    BY <1>1, <1>2, <1>3, <2>1 DEF Turns
<1>5. ASSUME NEW k \in 1 .. 8, k - 1 \in P
      PROVE  k \in P
  <2>1. /\ x[k - 1] \in Byte /\ y[k - 1] \in Byte /\ p[k - 1] \in Byte /\ q[k - 1] \in Byte
        /\ z[k - 1] = x[k - 1] ++ y[k - 1] /\ r[k - 1] = p[k - 1] ++ q[k - 1]
    BY <1>1, <1>2, <1>5 DEF Turns
  <2>2. z[k] = x[k] ++ y[k]
    BY <1>1, <1>2, <1>3, <2>1, XTimeSum DEF Turns
  <2>3. r[k] = p[k] ++ q[k]
    <3>1. (p[k - 1] ++ q[k - 1]) ++ (x[k - 1] ++ y[k - 1])
              = (p[k - 1] ++ x[k - 1]) ++ (q[k - 1] ++ y[k - 1])
      BY ONLY <2>1, AddedFour, SMTT(30)
    <3>2. QED
      BY <1>1, <1>2, <1>3, <2>1, <3>1 DEF Turns
  <2>4. QED
    BY <2>2, <2>3
<1>6. 8 \in P
  <2> HIDE DEF P
  <2>1. QED
    BY <1>4, <1>5, EightTurns
<1>7. QED
  BY <1>1, <1>2, <1>3, <1>6

\* And on the right.
LEMMA GmultSumRight ==
    ASSUME NEW a \in Byte, NEW b \in Byte, NEW c \in Byte
    PROVE  gmult(a, b ++ c) = gmult(a, b) ++ gmult(a, c)
<1>1. PICK x, p : Turns(x, p, a, b) /\ gmult(a, b) = p[8]
  BY GmultTurns
<1>2. PICK y, q : Turns(y, q, a, c) /\ gmult(a, c) = q[8]
  BY GmultTurns
<1>3. PICK z, r : Turns(z, r, a, b ++ c) /\ gmult(a, b ++ c) = r[8]
  BY GmultTurns, Added
<1> DEFINE P == {k \in 0 .. 8 : z[k] = x[k] /\ y[k] = x[k] /\ r[k] = p[k] ++ q[k]}
<1>4. 0 \in P
  <2>1. {} ++ {} = {}
    BY AddedFour DEF Byte
  <2>2. QED
    BY <1>1, <1>2, <1>3, <2>1 DEF Turns
<1>5. ASSUME NEW k \in 1 .. 8, k - 1 \in P
      PROVE  k \in P
  <2> DEFINE v == x[k - 1]
             i == p[k - 1]
             j == q[k - 1]
  <2>1. /\ v \in Byte /\ i \in Byte /\ j \in Byte
        /\ z[k - 1] = v /\ y[k - 1] = v /\ r[k - 1] = i ++ j
    BY <1>1, <1>2, <1>5 DEF Turns
  <2>2. z[k] = x[k] /\ y[k] = x[k]
    BY <1>1, <1>2, <1>3, <2>1 DEF Turns
  <2>3. /\ p[k] = IF k - 1 \in b THEN i ++ v ELSE i
        /\ q[k] = IF k - 1 \in c THEN j ++ v ELSE j
        /\ r[k] = IF k - 1 \in b ++ c THEN (i ++ j) ++ v ELSE i ++ j
    BY <1>1, <1>2, <1>3, <2>1 DEF Turns
  <2>4. k - 1 \in b ++ c <=> ~(k - 1 \in b <=> k - 1 \in c)
    BY Added
  <2>5. /\ (i ++ v) ++ (j ++ v) = i ++ j
        /\ (i ++ v) ++ j = (i ++ j) ++ v
        /\ i ++ (j ++ v) = (i ++ j) ++ v
    <3> HIDE DEF v, i, j
    <3>1. (i ++ v) ++ (j ++ v) = (i ++ j) ++ (v ++ v)
      BY <2>1, AddedFour
    <3>2. v ++ v = {}
      BY <2>1, AddedFour
    <3>3. i ++ j \in Byte
      BY <2>1, Added
    <3>4. (i ++ j) ++ {} = i ++ j
      BY <3>3, AddedFour
    <3>5. (i ++ v) ++ j = (i ++ j) ++ v
      BY <2>1, AddedFour
    <3>6. i ++ (j ++ v) = (i ++ j) ++ v
      BY <2>1, AddedFour
    <3>7. QED
      BY <3>1, <3>2, <3>4, <3>5, <3>6
  <2> HIDE DEF v, i, j
  <2>6. r[k] = p[k] ++ q[k]
    BY <2>3, <2>4, <2>5
  <2>7. QED
    BY <2>2, <2>6
<1>6. 8 \in P
  <2> HIDE DEF P
  <2>1. QED
    BY <1>4, <1>5, EightTurns
<1>7. QED
  BY <1>1, <1>2, <1>3, <1>6

\* A turn more on the left is a turn of the product.
LEMMA GmultXTime ==
    ASSUME NEW a \in Byte, NEW b \in Byte
    PROVE  gmult(XTime(a), b) = XTime(gmult(a, b))
<1>1. PICK x, p : Turns(x, p, a, b) /\ gmult(a, b) = p[8]
  BY GmultTurns
<1>2. PICK z, r : Turns(z, r, XTime(a), b) /\ gmult(XTime(a), b) = r[8]
  BY GmultTurns, XTimeBits
<1> DEFINE P == {k \in 0 .. 8 : z[k] = XTime(x[k]) /\ r[k] = XTime(p[k])}
<1>3. 0 \in P
  <2>1. {} \in Byte /\ XTime({}) \in Byte
    BY XTimeBits DEF Byte
  <2>2. XTime({}) = {}
    BY <2>1, XTimeBits, SameByte
  <2>3. QED
    BY <1>1, <1>2, <2>2 DEF Turns
<1>4. ASSUME NEW k \in 1 .. 8, k - 1 \in P
      PROVE  k \in P
  <2>1. /\ x[k - 1] \in Byte /\ p[k - 1] \in Byte
        /\ z[k - 1] = XTime(x[k - 1]) /\ r[k - 1] = XTime(p[k - 1])
    BY <1>1, <1>4 DEF Turns
  <2>2. XTime(p[k - 1] ++ x[k - 1]) = XTime(p[k - 1]) ++ XTime(x[k - 1])
    BY <2>1, XTimeSum
  <2>3. z[k] = XTime(x[k]) /\ r[k] = XTime(p[k])
    BY <1>1, <1>2, <2>1, <2>2 DEF Turns
  <2>4. QED
    BY <2>3
<1>5. 8 \in P
  <2> HIDE DEF P
  <2>1. QED
    BY <1>3, <1>4, EightTurns
<1>6. QED
  BY <1>1, <1>2, <1>5

\* One times a byte is the byte.
LEMMA GmultOne ==
    ASSUME NEW b \in Byte
    PROVE  gmult({0}, b) = b
<1>1. {0} \in Byte
  BY DEF Byte
<1>2. PICK x, p : Turns(x, p, {0}, b) /\ gmult({0}, b) = p[8]
  BY <1>1, GmultTurns
<1> DEFINE P == {k \in 0 .. 8 : (k < 8 => x[k] = {k}) /\ p[k] = b \cap (0 .. k - 1)}
<1>3. 0 \in P
  <2>1. b \cap (0 .. 0 - 1) = {}
    OBVIOUS
  <2>2. QED
    BY <1>2, <2>1 DEF Turns
<1>4. ASSUME NEW k \in 1 .. 8, k - 1 \in P
      PROVE  k \in P
  <2>1. /\ x[k - 1] = {k - 1} /\ p[k - 1] = b \cap (0 .. k - 2) /\ {k - 1} \in Byte
        /\ p[k - 1] \in Byte
    BY <1>4 DEF Byte
  <2>2. k < 8 => x[k] = {k}
    <3>1. SUFFICES ASSUME k < 8
                   PROVE  XTime({k - 1}) = {k}
      BY <1>2, <2>1 DEF Turns
    <3>2. {k} \in Byte /\ XTime({k - 1}) \in Byte
      BY <2>1, <3>1, XTimeBits DEF Byte
    <3>3. \A n : n \in {k - 1} <=> n = k - 1
      OBVIOUS
    <3>4. \A n \in 0 .. 7 : n \in XTime({k - 1}) <=> n = k
      BY <2>1, <3>1, <3>3, XTimeBits
    <3>5. QED
      BY <3>2, <3>4, SameByte
  <2>3. p[k] = b \cap (0 .. k - 1)
    <3>1. p[k] = IF k - 1 \in b THEN p[k - 1] ++ {k - 1} ELSE p[k - 1]
      BY <1>2, <2>1 DEF Turns
    <3>2. p[k - 1] ++ {k - 1} = p[k - 1] \cup {k - 1}
      BY <2>1 DEF ++, gadd
    <3>3. \A n : n \in 0 .. k - 1 <=> n \in 0 .. k - 2 \/ n = k - 1
      OBVIOUS
    <3>4. b \cap (0 .. k - 1) = IF k - 1 \in b THEN (b \cap (0 .. k - 2)) \cup {k - 1}
                                              ELSE b \cap (0 .. k - 2)
      BY <3>3
    <3>5. QED
      BY <2>1, <3>1, <3>2, <3>4
  <2>4. QED
    BY <2>2, <2>3
<1>5. 8 \in P
  <2> HIDE DEF P
  <2>1. QED
    BY <1>3, <1>4, EightTurns
<1>6. b \cap (0 .. 8 - 1) = b
  <2>1. \A n \in b : n \in 0 .. 8 - 1
    BY DEF Byte
  <2>2. QED
    BY <2>1
<1>7. QED
  BY <1>2, <1>5, <1>6

-----------------------------------------------------------------------------
(* The columns *)

\* The products with the factors of the two matrices, by turns.
LEMMA Products ==
    ASSUME NEW b \in Byte,
           NEW x, x = XTime(b), NEW y, y = XTime(x), NEW z, z = XTime(y)
    PROVE  /\ x \in Byte /\ y \in Byte /\ z \in Byte
           /\ gmult(Bits(1), b) = b
           /\ gmult(Bits(2), b) = x
           /\ gmult(Bits(3), b) = b ++ x
           /\ gmult(Bits(9), b) = b ++ z
           /\ gmult(Bits(11), b) = (b ++ x) ++ z
           /\ gmult(Bits(13), b) = (b ++ y) ++ z
           /\ gmult(Bits(14), b) = (x ++ y) ++ z
<1>1. x \in Byte /\ y \in Byte /\ z \in Byte
  BY XTimeBits
<1>2. {0} \in Byte /\ {1} \in Byte /\ {2} \in Byte /\ {3} \in Byte
  BY DEF Byte
<1>3. XTime({0}) = {1} /\ XTime({1}) = {2} /\ XTime({2}) = {3}
  <2>1. XTime({0}) \in Byte /\ XTime({1}) \in Byte /\ XTime({2}) \in Byte
    BY <1>2, XTimeBits
  <2>2. \A m, n : n \in {m} <=> n = m
    OBVIOUS
  <2>3. \A n \in 0 .. 7 : n = 0 \/ n = 1 \/ n = 2 \/ n = 3 \/ n = 4 \/ n = 5 \/ n = 6 \/ n = 7
    OBVIOUS
  <2>4. \A n \in 0 .. 7 : n \in XTime({0}) <=> n = 1
    BY <1>2, <2>2, <2>3, XTimeBits
  <2>5. \A n \in 0 .. 7 : n \in XTime({1}) <=> n = 2
    BY <1>2, <2>2, <2>3, XTimeBits
  <2>6. \A n \in 0 .. 7 : n \in XTime({2}) <=> n = 3
    BY <1>2, <2>2, <2>3, XTimeBits
  <2>7. QED
    BY <1>2, <2>1, <2>4, <2>5, <2>6, SameByte
<1>4. /\ gmult({0}, b) = b /\ gmult({1}, b) = x
      /\ gmult({2}, b) = y /\ gmult({3}, b) = z
  <2>1. gmult({0}, b) = b
    BY GmultOne
  <2>2. gmult({1}, b) = x
    BY <1>2, <1>3, <2>1, GmultXTime, SMTT(30)
  <2>3. gmult({2}, b) = y
    BY <1>2, <1>3, <2>2, GmultXTime
  <2>4. gmult({3}, b) = z
    BY <1>2, <1>3, <2>3, GmultXTime
  <2>5. QED
    BY <2>1, <2>2, <2>3, <2>4
<1>5. /\ {0, 1} = {0} ++ {1} /\ {0, 3} = {0} ++ {3} /\ {0, 2} = {0} ++ {2} /\ {1, 2} = {1} ++ {2}
      /\ {0, 1, 3} = {0, 1} ++ {3} /\ {0, 2, 3} = {0, 2} ++ {3} /\ {1, 2, 3} = {1, 2} ++ {3}
  BY DEF ++, gadd
<1>6. {0, 1} \in Byte /\ {0, 2} \in Byte /\ {1, 2} \in Byte
  BY DEF Byte
<1>7. /\ gmult({0} ++ {1}, b) = b ++ x /\ gmult({0} ++ {3}, b) = b ++ z
      /\ gmult({0} ++ {2}, b) = b ++ y /\ gmult({1} ++ {2}, b) = x ++ y
  <2>1. gmult({0} ++ {1}, b) = gmult({0}, b) ++ gmult({1}, b)
    BY <1>2, GmultSumLeft
  <2>2. gmult({0} ++ {3}, b) = gmult({0}, b) ++ gmult({3}, b)
    BY <1>2, GmultSumLeft
  <2>3. gmult({0} ++ {2}, b) = gmult({0}, b) ++ gmult({2}, b)
    BY <1>2, GmultSumLeft
  <2>4. gmult({1} ++ {2}, b) = gmult({1}, b) ++ gmult({2}, b)
    BY <1>2, GmultSumLeft
  <2>5. QED
    BY <1>4, <2>1, <2>2, <2>3, <2>4
<1>8. /\ gmult({0, 1} ++ {3}, b) = (b ++ x) ++ z
      /\ gmult({0, 2} ++ {3}, b) = (b ++ y) ++ z
      /\ gmult({1, 2} ++ {3}, b) = (x ++ y) ++ z
  <2>1. gmult({0, 1} ++ {3}, b) = gmult({0, 1}, b) ++ gmult({3}, b)
    BY <1>2, <1>6, GmultSumLeft
  <2>2. gmult({0, 2} ++ {3}, b) = gmult({0, 2}, b) ++ gmult({3}, b)
    BY <1>2, <1>6, GmultSumLeft
  <2>3. gmult({1, 2} ++ {3}, b) = gmult({1, 2}, b) ++ gmult({3}, b)
    BY <1>2, <1>6, GmultSumLeft
  <2>4. gmult({0, 1}, b) = b ++ x /\ gmult({0, 2}, b) = b ++ y /\ gmult({1, 2}, b) = x ++ y
    BY <1>5, <1>7
  <2>5. QED
    BY <1>4, <2>1, <2>2, <2>3, <2>4
<1>9. QED
  BY <1>1, <1>4, <1>5, <1>7, <1>8, Factors

\* Multiplied by f, then by c.
Through(c, f, b) == gmult(Bits(c), gmult(Bits(f), b))

\* Four bytes added, as coef_mult adds them.
AddFour(a, b, c, d) == ((a ++ b) ++ c) ++ d

\* Four bytes added are a byte, whose bits those of an odd number of them are.
LEMMA AddFourBits ==
    ASSUME NEW a \in Byte, NEW b \in Byte, NEW c \in Byte, NEW d \in Byte
    PROVE  /\ AddFour(a, b, c, d) \in Byte
           /\ \A k : k \in AddFour(a, b, c, d) <=>
                         ((k \in a <=> k \in b) <=> (k \in c <=> ~(k \in d)))
<1>1. a ++ b \in Byte /\ (a ++ b) ++ c \in Byte
  BY Added
<1>2. ((a ++ b) ++ c) ++ d \in Byte
  BY <1>1, Added
<1>3. \A k : k \in ((a ++ b) ++ c) ++ d <=> ~(k \in (a ++ b) ++ c <=> k \in d)
  BY <1>1, Added
<1>4. \A k : k \in (a ++ b) ++ c <=> ~(k \in a ++ b <=> k \in c)
  BY <1>1, Added
<1>5. \A k : k \in a ++ b <=> ~(k \in a <=> k \in b)
  BY Added
<1>6. QED
  BY <1>2, <1>3, <1>4, <1>5 DEF AddFour

\* The product of the two matrices, entry by entry: one where it should be,
\* zero elsewhere.
LEMMA MatricesInverse ==
    ASSUME NEW b \in Byte
    PROVE  /\ AddFour(Through(14, 2, b), Through(11, 1, b), Through(13, 1, b), Through(9, 3, b)) = b
           /\ AddFour(Through(9, 2, b), Through(14, 1, b), Through(11, 1, b), Through(13, 3, b)) = {}
           /\ AddFour(Through(13, 2, b), Through(9, 1, b), Through(14, 1, b), Through(11, 3, b)) = {}
           /\ AddFour(Through(11, 2, b), Through(13, 1, b), Through(9, 1, b), Through(14, 3, b)) = {}
<1> DEFINE x == XTime(b)
           y == XTime(x)
           z == XTime(y)
           u == XTime(z)
           w == b ++ x
<1>1. x \in Byte /\ y \in Byte /\ z \in Byte /\ u \in Byte /\ w \in Byte
  BY XTimeBits, Added
<1>2. gmult(Bits(1), b) = b /\ gmult(Bits(2), b) = x /\ gmult(Bits(3), b) = w
  BY Products
<1>3. XTime(w) = x ++ y /\ XTime(x ++ y) = y ++ z /\ XTime(y ++ z) = z ++ u
  BY <1>1, XTimeSum
<1>4. /\ Through(9, 1, b) = b ++ z
      /\ Through(11, 1, b) = (b ++ x) ++ z
      /\ Through(13, 1, b) = (b ++ y) ++ z
      /\ Through(14, 1, b) = (x ++ y) ++ z
  BY <1>2, Products DEF Through
<1>5. /\ Through(9, 2, b) = x ++ u
      /\ Through(11, 2, b) = (x ++ y) ++ u
      /\ Through(13, 2, b) = (x ++ z) ++ u
      /\ Through(14, 2, b) = (y ++ z) ++ u
  BY <1>1, <1>2, Products DEF Through
<1>6. /\ Through(9, 3, b) = w ++ (z ++ u)
      /\ Through(11, 3, b) = (w ++ (x ++ y)) ++ (z ++ u)
      /\ Through(13, 3, b) = (w ++ (y ++ z)) ++ (z ++ u)
      /\ Through(14, 3, b) = ((x ++ y) ++ (y ++ z)) ++ (z ++ u)
  BY <1>1, <1>2, <1>3, Products DEF Through
<1>7. \A k : k \in w <=> ~(k \in b <=> k \in x)
  BY <1>1, Added
<1> HIDE DEF x, y, z, u, w
<1>8. \A c \in {9, 11, 13, 14}, f \in {1, 2, 3} : Through(c, f, b) \in Byte
  <2>1. \A n \in {1, 2, 3, 9, 11, 13, 14} : Bits(n) \in Byte
    BY DEF Bits, Byte
  <2>2. QED
    BY <2>1, GmultType DEF Through
<1>9. /\ x ++ y \in Byte /\ y ++ z \in Byte /\ z ++ u \in Byte /\ b ++ x \in Byte /\ b ++ y \in Byte
      /\ x ++ z \in Byte
      /\ w ++ (x ++ y) \in Byte /\ w ++ (y ++ z) \in Byte /\ (x ++ y) ++ (y ++ z) \in Byte
  <2>1. /\ x ++ y \in Byte /\ y ++ z \in Byte /\ z ++ u \in Byte /\ b ++ x \in Byte
        /\ b ++ y \in Byte /\ x ++ z \in Byte
    BY <1>1, Added
  <2>2. QED
    BY <1>1, <2>1, Added
<1>10. \A k : /\ k \in x ++ y <=> ~(k \in x <=> k \in y)
              /\ k \in y ++ z <=> ~(k \in y <=> k \in z)
              /\ k \in z ++ u <=> ~(k \in z <=> k \in u)
              /\ k \in b ++ x <=> ~(k \in b <=> k \in x)
              /\ k \in b ++ y <=> ~(k \in b <=> k \in y)
              /\ k \in x ++ z <=> ~(k \in x <=> k \in z)
  BY <1>1, Added
<1>11. \A k : /\ k \in Through(9, 1, b) <=> ~(k \in b <=> k \in z)
              /\ k \in Through(11, 1, b) <=> ((k \in b <=> k \in x) <=> k \in z)
              /\ k \in Through(13, 1, b) <=> ((k \in b <=> k \in y) <=> k \in z)
              /\ k \in Through(14, 1, b) <=> ((k \in x <=> k \in y) <=> k \in z)
  BY <1>1, <1>4, <1>9, <1>10, Added
<1>12. \A k : /\ k \in Through(9, 2, b) <=> ~(k \in x <=> k \in u)
              /\ k \in Through(11, 2, b) <=> ((k \in x <=> k \in y) <=> k \in u)
              /\ k \in Through(13, 2, b) <=> ((k \in x <=> k \in z) <=> k \in u)
              /\ k \in Through(14, 2, b) <=> ((k \in y <=> k \in z) <=> k \in u)
  BY <1>1, <1>5, <1>9, <1>10, Added
<1>13. \A k : /\ k \in Through(9, 3, b) <=> ((k \in b <=> k \in x) <=> ~(k \in z <=> k \in u))
              /\ k \in Through(11, 3, b) <=> ((k \in b <=> k \in y) <=> ~(k \in z <=> k \in u))
              /\ k \in Through(13, 3, b)
                     <=> ((k \in b <=> k \in x) <=> ~(k \in y <=> k \in u))
              /\ k \in Through(14, 3, b) <=> ~(k \in x <=> k \in u)
  <2>1. \A k : /\ k \in w ++ (x ++ y) <=> ~(k \in w <=> k \in x ++ y)
               /\ k \in w ++ (y ++ z) <=> ~(k \in w <=> k \in y ++ z)
               /\ k \in (x ++ y) ++ (y ++ z) <=> ~(k \in x ++ y <=> k \in y ++ z)
    BY <1>1, <1>9, Added
  <2>2. \A k : /\ k \in Through(9, 3, b) <=> ~(k \in w <=> k \in z ++ u)
               /\ k \in Through(11, 3, b) <=> ~(k \in w ++ (x ++ y) <=> k \in z ++ u)
               /\ k \in Through(13, 3, b) <=> ~(k \in w ++ (y ++ z) <=> k \in z ++ u)
               /\ k \in Through(14, 3, b) <=> ~(k \in (x ++ y) ++ (y ++ z) <=> k \in z ++ u)
    BY <1>1, <1>6, <1>9, Added
  <2>3. QED
    BY <1>7, <1>10, <2>1, <2>2
<1>14. AddFour(Through(14, 2, b), Through(11, 1, b), Through(13, 1, b), Through(9, 3, b)) = b
  BY <1>8, <1>11, <1>12, <1>13, AddFourBits, SameByte
<1>15. {} \in Byte
  BY DEF Byte
<1>16. AddFour(Through(9, 2, b), Through(14, 1, b), Through(11, 1, b), Through(13, 3, b)) = {}
  BY <1>8, <1>11, <1>12, <1>13, <1>15, AddFourBits, SameByte
<1>17. AddFour(Through(13, 2, b), Through(9, 1, b), Through(14, 1, b), Through(11, 3, b)) = {}
  BY <1>8, <1>11, <1>12, <1>13, <1>15, AddFourBits, SameByte
<1>18. AddFour(Through(11, 2, b), Through(13, 1, b), Through(9, 1, b), Through(14, 3, b)) = {}
  BY <1>8, <1>11, <1>12, <1>13, <1>15, AddFourBits, SameByte
<1>19. QED
  BY <1>14, <1>16, <1>17, <1>18

\* The order of four bytes added does not matter.
LEMMA AddFourOrder ==
    ASSUME NEW a \in Byte, NEW b \in Byte, NEW c \in Byte, NEW d \in Byte,
           NEW e, AddFour(a, b, c, d) = e
    PROVE  AddFour(b, c, d, a) = e /\ AddFour(c, d, a, b) = e /\ AddFour(d, a, b, c) = e
<1>1. /\ AddFour(b, c, d, a) \in Byte /\ AddFour(c, d, a, b) \in Byte
      /\ AddFour(d, a, b, c) \in Byte /\ e \in Byte
  BY AddFourBits
<1>2. QED
  BY <1>1, AddFourBits, SameByte

\* Nor does that of four times four.
LEMMA AddFourRows ==
    ASSUME NEW a \in [Index -> [Index -> Byte]]
    PROVE  LET row(i) == AddFour(a[i][0], a[i][1], a[i][2], a[i][3])
               column(j) == AddFour(a[0][j], a[1][j], a[2][j], a[3][j])
           IN AddFour(row(0), row(1), row(2), row(3))
                  = AddFour(column(0), column(1), column(2), column(3))
<1> DEFINE row(i) == AddFour(a[i][0], a[i][1], a[i][2], a[i][3])
           column(j) == AddFour(a[0][j], a[1][j], a[2][j], a[3][j])
<1>1. 0 \in Index /\ 1 \in Index /\ 2 \in Index /\ 3 \in Index
  BY DEF Index, Nb
<1>2. \A i, j \in Index : a[i][j] \in Byte
  OBVIOUS
<1>3. \A i \in Index :
          /\ row(i) \in Byte
          /\ \A k : k \in row(i) <=> ((k \in a[i][0] <=> k \in a[i][1])
                                          <=> (k \in a[i][2] <=> ~(k \in a[i][3])))
  BY <1>1, <1>2, AddFourBits
<1>4. \A j \in Index :
          /\ column(j) \in Byte
          /\ \A k : k \in column(j) <=> ((k \in a[0][j] <=> k \in a[1][j])
                                             <=> (k \in a[2][j] <=> ~(k \in a[3][j])))
  BY <1>1, <1>2, AddFourBits
<1> HIDE DEF row, column
<1>5. /\ AddFour(row(0), row(1), row(2), row(3)) \in Byte
      /\ \A k : k \in AddFour(row(0), row(1), row(2), row(3))
                    <=> ((k \in row(0) <=> k \in row(1)) <=> (k \in row(2) <=> ~(k \in row(3))))
  BY <1>1, <1>3, AddFourBits
<1>6. /\ AddFour(column(0), column(1), column(2), column(3)) \in Byte
      /\ \A k : k \in AddFour(column(0), column(1), column(2), column(3))
                    <=> ((k \in column(0) <=> k \in column(1))
                             <=> (k \in column(2) <=> ~(k \in column(3))))
  BY <1>1, <1>4, AddFourBits
<1>7. \A k : k \in AddFour(row(0), row(1), row(2), row(3))
                 <=> k \in AddFour(column(0), column(1), column(2), column(3))
  BY <1>1, <1>3, <1>4, <1>5, <1>6
<1>8. AddFour(row(0), row(1), row(2), row(3)) = AddFour(column(0), column(1), column(2), column(3))
  BY <1>5, <1>6, <1>7, SameByte
<1>9. QED
  BY <1>8 DEF row, column

\* The product of four bytes added.
LEMMA GmultAddFour ==
    ASSUME NEW f \in Byte,
           NEW a \in Byte, NEW b \in Byte, NEW c \in Byte, NEW d \in Byte
    PROVE  gmult(f, AddFour(a, b, c, d)) = AddFour(gmult(f, a), gmult(f, b), gmult(f, c), gmult(f, d))
<1>1. a ++ b \in Byte /\ (a ++ b) ++ c \in Byte
  BY Added
<1>2. gmult(f, ((a ++ b) ++ c) ++ d) = gmult(f, (a ++ b) ++ c) ++ gmult(f, d)
  BY <1>1, GmultSumRight
<1>3. gmult(f, (a ++ b) ++ c) = gmult(f, a ++ b) ++ gmult(f, c)
  BY <1>1, GmultSumRight
<1>4. gmult(f, a ++ b) = gmult(f, a) ++ gmult(f, b)
  BY GmultSumRight
<1>5. QED
  BY <1>2, <1>3, <1>4 DEF AddFour

\* Row i of the product of a column b by the matrix of the factors c.
RowOf(c0, c1, c2, c3, b) ==
    AddFour(gmult(Bits(c0), b[0]), gmult(Bits(c1), b[1]), gmult(Bits(c2), b[2]), gmult(Bits(c3), b[3]))

\* A row of the second product, term by term.
LEMMA RowThrough ==
    ASSUME NEW b \in Word, NEW m \in Word,
           NEW c0, NEW c1, NEW c2, NEW c3,
           m[0] = RowOf(2, 3, 1, 1, b), m[1] = RowOf(1, 2, 3, 1, b),
           m[2] = RowOf(1, 1, 2, 3, b), m[3] = RowOf(3, 1, 1, 2, b)
    PROVE  RowOf(c0, c1, c2, c3, m)
               = AddFour(AddFour(Through(c0, 2, b[0]), Through(c1, 1, b[0]),
                                 Through(c2, 1, b[0]), Through(c3, 3, b[0])),
                         AddFour(Through(c0, 3, b[1]), Through(c1, 2, b[1]),
                                 Through(c2, 1, b[1]), Through(c3, 1, b[1])),
                         AddFour(Through(c0, 1, b[2]), Through(c1, 3, b[2]),
                                 Through(c2, 2, b[2]), Through(c3, 1, b[2])),
                         AddFour(Through(c0, 1, b[3]), Through(c1, 1, b[3]),
                                 Through(c2, 3, b[3]), Through(c3, 2, b[3])))
<1>1. b[0] \in Byte /\ b[1] \in Byte /\ b[2] \in Byte /\ b[3] \in Byte
  BY DEF Word, Index, Nb
<1>2. \A n : Bits(n) \in Byte
  BY DEF Bits, Byte
<1>3. \A c, f, j : j \in Index => gmult(Bits(f), b[j]) \in Byte /\ Through(c, f, b[j]) \in Byte
  BY <1>2, GmultType DEF Through, Word
<1> DEFINE T(c, f, j) == Through(c, f, b[j])
           A == [i \in Index |-> [j \in Index |->
                   CASE i = 0 -> (CASE j = 0 -> T(c0, 2, 0) [] j = 1 -> T(c0, 3, 1)
                                    [] j = 2 -> T(c0, 1, 2) [] OTHER -> T(c0, 1, 3))
                     [] i = 1 -> (CASE j = 0 -> T(c1, 1, 0) [] j = 1 -> T(c1, 2, 1)
                                    [] j = 2 -> T(c1, 3, 2) [] OTHER -> T(c1, 1, 3))
                     [] i = 2 -> (CASE j = 0 -> T(c2, 1, 0) [] j = 1 -> T(c2, 1, 1)
                                    [] j = 2 -> T(c2, 2, 2) [] OTHER -> T(c2, 3, 3))
                     [] OTHER -> (CASE j = 0 -> T(c3, 3, 0) [] j = 1 -> T(c3, 1, 1)
                                    [] j = 2 -> T(c3, 1, 2) [] OTHER -> T(c3, 2, 3))]]
<1>4. 0 \in Index /\ 1 \in Index /\ 2 \in Index /\ 3 \in Index
  BY DEF Index, Nb
<1>5. \A c, f : /\ T(c, f, 0) \in Byte /\ T(c, f, 1) \in Byte
                /\ T(c, f, 2) \in Byte /\ T(c, f, 3) \in Byte
  BY <1>3, <1>4
<1>6. /\ gmult(Bits(c0), m[0]) = AddFour(T(c0, 2, 0), T(c0, 3, 1), T(c0, 1, 2), T(c0, 1, 3))
      /\ gmult(Bits(c1), m[1]) = AddFour(T(c1, 1, 0), T(c1, 2, 1), T(c1, 3, 2), T(c1, 1, 3))
      /\ gmult(Bits(c2), m[2]) = AddFour(T(c2, 1, 0), T(c2, 1, 1), T(c2, 2, 2), T(c2, 3, 3))
      /\ gmult(Bits(c3), m[3]) = AddFour(T(c3, 3, 0), T(c3, 1, 1), T(c3, 1, 2), T(c3, 2, 3))
  <2>1. ASSUME NEW c, NEW f0, NEW f1, NEW f2, NEW f3
        PROVE  gmult(Bits(c), RowOf(f0, f1, f2, f3, b))
                   = AddFour(T(c, f0, 0), T(c, f1, 1), T(c, f2, 2), T(c, f3, 3))
    <3>1. /\ gmult(Bits(f0), b[0]) \in Byte /\ gmult(Bits(f1), b[1]) \in Byte
          /\ gmult(Bits(f2), b[2]) \in Byte /\ gmult(Bits(f3), b[3]) \in Byte
          /\ Bits(c) \in Byte
      BY <1>2, <1>3, <1>4
    <3>2. QED
      BY <3>1, GmultAddFour DEF Through, RowOf
  <2>2. QED
    BY <2>1
<1> HIDE DEF T
<1>7. A \in [Index -> [Index -> Byte]]
  BY <1>5
<1>8. /\ A[0][0] = T(c0, 2, 0) /\ A[0][1] = T(c0, 3, 1) /\ A[0][2] = T(c0, 1, 2) /\ A[0][3] = T(c0, 1, 3)
      /\ A[1][0] = T(c1, 1, 0) /\ A[1][1] = T(c1, 2, 1) /\ A[1][2] = T(c1, 3, 2) /\ A[1][3] = T(c1, 1, 3)
      /\ A[2][0] = T(c2, 1, 0) /\ A[2][1] = T(c2, 1, 1) /\ A[2][2] = T(c2, 2, 2) /\ A[2][3] = T(c2, 3, 3)
      /\ A[3][0] = T(c3, 3, 0) /\ A[3][1] = T(c3, 1, 1) /\ A[3][2] = T(c3, 1, 2) /\ A[3][3] = T(c3, 2, 3)
  BY <1>4
<1> HIDE DEF A
<1>9. AddFour(AddFour(A[0][0], A[0][1], A[0][2], A[0][3]), AddFour(A[1][0], A[1][1], A[1][2], A[1][3]),
              AddFour(A[2][0], A[2][1], A[2][2], A[2][3]), AddFour(A[3][0], A[3][1], A[3][2], A[3][3]))
        = AddFour(AddFour(A[0][0], A[1][0], A[2][0], A[3][0]), AddFour(A[0][1], A[1][1], A[2][1], A[3][1]),
                  AddFour(A[0][2], A[1][2], A[2][2], A[3][2]), AddFour(A[0][3], A[1][3], A[2][3], A[3][3]))
  BY <1>7, AddFourRows
<1>10. QED
  BY <1>6, <1>8, <1>9 DEF T, RowOf

\* The product of the two matrices again, the rows and columns in any turn.
Undone(v) ==
    /\ AddFour(Through(14, 2, v), Through(11, 1, v), Through(13, 1, v), Through(9, 3, v)) = v
    /\ AddFour(Through(11, 1, v), Through(13, 1, v), Through(9, 3, v), Through(14, 2, v)) = v
    /\ AddFour(Through(13, 1, v), Through(9, 3, v), Through(14, 2, v), Through(11, 1, v)) = v
    /\ AddFour(Through(9, 3, v), Through(14, 2, v), Through(11, 1, v), Through(13, 1, v)) = v
    /\ AddFour(Through(9, 2, v), Through(14, 1, v), Through(11, 1, v), Through(13, 3, v)) = {}
    /\ AddFour(Through(14, 1, v), Through(11, 1, v), Through(13, 3, v), Through(9, 2, v)) = {}
    /\ AddFour(Through(11, 1, v), Through(13, 3, v), Through(9, 2, v), Through(14, 1, v)) = {}
    /\ AddFour(Through(13, 3, v), Through(9, 2, v), Through(14, 1, v), Through(11, 1, v)) = {}
    /\ AddFour(Through(13, 2, v), Through(9, 1, v), Through(14, 1, v), Through(11, 3, v)) = {}
    /\ AddFour(Through(9, 1, v), Through(14, 1, v), Through(11, 3, v), Through(13, 2, v)) = {}
    /\ AddFour(Through(14, 1, v), Through(11, 3, v), Through(13, 2, v), Through(9, 1, v)) = {}
    /\ AddFour(Through(11, 3, v), Through(13, 2, v), Through(9, 1, v), Through(14, 1, v)) = {}
    /\ AddFour(Through(11, 2, v), Through(13, 1, v), Through(9, 1, v), Through(14, 3, v)) = {}
    /\ AddFour(Through(13, 1, v), Through(9, 1, v), Through(14, 3, v), Through(11, 2, v)) = {}
    /\ AddFour(Through(9, 1, v), Through(14, 3, v), Through(11, 2, v), Through(13, 1, v)) = {}
    /\ AddFour(Through(14, 3, v), Through(11, 2, v), Through(13, 1, v), Through(9, 1, v)) = {}

\* So it is for every byte.
LEMMA BytesUndone ==
    ASSUME NEW v \in Byte
    PROVE  Undone(v)
<1>1. \A c, f : Through(c, f, v) \in Byte
  <2>1. \A n : Bits(n) \in Byte
    BY DEF Bits, Byte
  <2>2. QED
    BY <2>1, GmultType DEF Through
<1>2. /\ AddFour(Through(14, 2, v), Through(11, 1, v), Through(13, 1, v), Through(9, 3, v)) = v
      /\ AddFour(Through(9, 2, v), Through(14, 1, v), Through(11, 1, v), Through(13, 3, v)) = {}
      /\ AddFour(Through(13, 2, v), Through(9, 1, v), Through(14, 1, v), Through(11, 3, v)) = {}
      /\ AddFour(Through(11, 2, v), Through(13, 1, v), Through(9, 1, v), Through(14, 3, v)) = {}
  BY MatricesInverse
<1>3. /\ AddFour(Through(14, 2, v), Through(11, 1, v), Through(13, 1, v), Through(9, 3, v)) = v
      /\ AddFour(Through(11, 1, v), Through(13, 1, v), Through(9, 3, v), Through(14, 2, v)) = v
      /\ AddFour(Through(13, 1, v), Through(9, 3, v), Through(14, 2, v), Through(11, 1, v)) = v
      /\ AddFour(Through(9, 3, v), Through(14, 2, v), Through(11, 1, v), Through(13, 1, v)) = v
  BY <1>1, <1>2, AddFourOrder
<1>4. /\ AddFour(Through(9, 2, v), Through(14, 1, v), Through(11, 1, v), Through(13, 3, v)) = {}
      /\ AddFour(Through(14, 1, v), Through(11, 1, v), Through(13, 3, v), Through(9, 2, v)) = {}
      /\ AddFour(Through(11, 1, v), Through(13, 3, v), Through(9, 2, v), Through(14, 1, v)) = {}
      /\ AddFour(Through(13, 3, v), Through(9, 2, v), Through(14, 1, v), Through(11, 1, v)) = {}
  BY <1>1, <1>2, AddFourOrder
<1>5. /\ AddFour(Through(13, 2, v), Through(9, 1, v), Through(14, 1, v), Through(11, 3, v)) = {}
      /\ AddFour(Through(9, 1, v), Through(14, 1, v), Through(11, 3, v), Through(13, 2, v)) = {}
      /\ AddFour(Through(14, 1, v), Through(11, 3, v), Through(13, 2, v), Through(9, 1, v)) = {}
      /\ AddFour(Through(11, 3, v), Through(13, 2, v), Through(9, 1, v), Through(14, 1, v)) = {}
  BY <1>1, <1>2, AddFourOrder
<1>6. /\ AddFour(Through(11, 2, v), Through(13, 1, v), Through(9, 1, v), Through(14, 3, v)) = {}
      /\ AddFour(Through(13, 1, v), Through(9, 1, v), Through(14, 3, v), Through(11, 2, v)) = {}
      /\ AddFour(Through(9, 1, v), Through(14, 3, v), Through(11, 2, v), Through(13, 1, v)) = {}
      /\ AddFour(Through(14, 3, v), Through(11, 2, v), Through(13, 1, v), Through(9, 1, v)) = {}
  BY <1>1, <1>2, AddFourOrder
<1>7. QED
  BY <1>3, <1>4, <1>5, <1>6 DEF Undone

\* inv_mix_columns undoes mix_columns on a column.
LEMMA ColumnBack ==
    ASSUME NEW b \in Word, NEW m \in Word,
           m[0] = RowOf(2, 3, 1, 1, b), m[1] = RowOf(1, 2, 3, 1, b),
           m[2] = RowOf(1, 1, 2, 3, b), m[3] = RowOf(3, 1, 1, 2, b)
    PROVE  /\ RowOf(14, 11, 13, 9, m) = b[0] /\ RowOf(9, 14, 11, 13, m) = b[1]
           /\ RowOf(13, 9, 14, 11, m) = b[2] /\ RowOf(11, 13, 9, 14, m) = b[3]
<1>1. b[0] \in Byte /\ b[1] \in Byte /\ b[2] \in Byte /\ b[3] \in Byte /\ {} \in Byte
  BY DEF Word, Index, Nb, Byte
<1>2. \A v \in Byte : /\ AddFour(v, {}, {}, {}) = v /\ AddFour({}, v, {}, {}) = v
                      /\ AddFour({}, {}, v, {}) = v /\ AddFour({}, {}, {}, v) = v
  <2> TAKE v \in Byte
  <2>1. AddFour(v, {}, {}, {}) = v
    <3>1. AddFour(v, {}, {}, {}) \in Byte
      BY <1>1, AddFourBits
    <3>2. QED
      BY <1>1, <3>1, AddFourBits, SameByte
  <2>2. QED
    BY <1>1, <2>1, AddFourOrder
<1>3. Undone(b[0]) /\ Undone(b[1]) /\ Undone(b[2]) /\ Undone(b[3])
  BY <1>1, BytesUndone
<1>4. RowOf(14, 11, 13, 9, m) = AddFour(b[0], {}, {}, {})
  <2>1. AddFour(Through(14, 2, b[0]), Through(11, 1, b[0]), Through(13, 1, b[0]), Through(9, 3, b[0])) = b[0]
    BY <1>3 DEF Undone
  <2>2. AddFour(Through(14, 3, b[1]), Through(11, 2, b[1]), Through(13, 1, b[1]), Through(9, 1, b[1])) = {}
    BY <1>3 DEF Undone
  <2>3. AddFour(Through(14, 1, b[2]), Through(11, 3, b[2]), Through(13, 2, b[2]), Through(9, 1, b[2])) = {}
    BY <1>3 DEF Undone
  <2>4. AddFour(Through(14, 1, b[3]), Through(11, 1, b[3]), Through(13, 3, b[3]), Through(9, 2, b[3])) = {}
    BY <1>3 DEF Undone
  <2>5. QED
    BY <2>1, <2>2, <2>3, <2>4, RowThrough
<1>5. RowOf(9, 14, 11, 13, m) = AddFour({}, b[1], {}, {})
  <2>1. AddFour(Through(9, 2, b[0]), Through(14, 1, b[0]), Through(11, 1, b[0]), Through(13, 3, b[0])) = {}
    BY <1>3 DEF Undone
  <2>2. AddFour(Through(9, 3, b[1]), Through(14, 2, b[1]), Through(11, 1, b[1]), Through(13, 1, b[1])) = b[1]
    BY <1>3 DEF Undone
  <2>3. AddFour(Through(9, 1, b[2]), Through(14, 3, b[2]), Through(11, 2, b[2]), Through(13, 1, b[2])) = {}
    BY <1>3 DEF Undone
  <2>4. AddFour(Through(9, 1, b[3]), Through(14, 1, b[3]), Through(11, 3, b[3]), Through(13, 2, b[3])) = {}
    BY <1>3 DEF Undone
  <2>5. QED
    BY <2>1, <2>2, <2>3, <2>4, RowThrough
<1>6. RowOf(13, 9, 14, 11, m) = AddFour({}, {}, b[2], {})
  <2>1. AddFour(Through(13, 2, b[0]), Through(9, 1, b[0]), Through(14, 1, b[0]), Through(11, 3, b[0])) = {}
    BY <1>3 DEF Undone
  <2>2. AddFour(Through(13, 3, b[1]), Through(9, 2, b[1]), Through(14, 1, b[1]), Through(11, 1, b[1])) = {}
    BY <1>3 DEF Undone
  <2>3. AddFour(Through(13, 1, b[2]), Through(9, 3, b[2]), Through(14, 2, b[2]), Through(11, 1, b[2])) = b[2]
    BY <1>3 DEF Undone
  <2>4. AddFour(Through(13, 1, b[3]), Through(9, 1, b[3]), Through(14, 3, b[3]), Through(11, 2, b[3])) = {}
    BY <1>3 DEF Undone
  <2>5. QED
    BY <2>1, <2>2, <2>3, <2>4, RowThrough
<1>7. RowOf(11, 13, 9, 14, m) = AddFour({}, {}, {}, b[3])
  <2>1. AddFour(Through(11, 2, b[0]), Through(13, 1, b[0]), Through(9, 1, b[0]), Through(14, 3, b[0])) = {}
    BY <1>3 DEF Undone
  <2>2. AddFour(Through(11, 3, b[1]), Through(13, 2, b[1]), Through(9, 1, b[1]), Through(14, 1, b[1])) = {}
    BY <1>3 DEF Undone
  <2>3. AddFour(Through(11, 1, b[2]), Through(13, 3, b[2]), Through(9, 2, b[2]), Through(14, 1, b[2])) = {}
    BY <1>3 DEF Undone
  <2>4. AddFour(Through(11, 1, b[3]), Through(13, 1, b[3]), Through(9, 3, b[3]), Through(14, 2, b[3])) = b[3]
    BY <1>3 DEF Undone
  <2>5. QED
    BY <2>1, <2>2, <2>3, <2>4, RowThrough
<1>8. QED
  BY <1>1, <1>2, <1>4, <1>5, <1>6, <1>7

-----------------------------------------------------------------------------
(* The state *)

\* Column j of a state.
Column(s, j) == [i \in Index |-> s[<<i, j>>]]

\* What MixWith gives at column j of a state.
LEMMA MixRows ==
    ASSUME NEW s \in State, NEW c0, NEW c1, NEW c2, NEW c3,
           NEW m, m = MixWith(Coefficients(<<c0, c1, c2, c3>>), s)
    PROVE  /\ m \in State
           /\ \A j \in Index :
                 /\ m[<<0, j>>] = RowOf(c0, c3, c2, c1, Column(s, j))
                 /\ m[<<1, j>>] = RowOf(c1, c0, c3, c2, Column(s, j))
                 /\ m[<<2, j>>] = RowOf(c2, c1, c0, c3, Column(s, j))
                 /\ m[<<3, j>>] = RowOf(c3, c2, c1, c0, Column(s, j))
<1> DEFINE b(j) == [i \in Index |-> s[<<i, j>>]]
           a == Coefficients(<<c0, c1, c2, c3>>)
<1>1. 0 \in Index /\ 1 \in Index /\ 2 \in Index /\ 3 \in Index
  BY DEF Index, Nb
<1>2. /\ a[0] = Bits(c0) /\ a[1] = Bits(c1) /\ a[2] = Bits(c2) /\ a[3] = Bits(c3)
  BY <1>1 DEF Coefficients
<1>3. \A n : Bits(n) \in Byte
  BY DEF Bits, Byte
<1>4. \A j \in Index : b(j) \in Word
  BY DEF State, Cells, Word
<1> HIDE DEF a
<1>5. /\ (0 - 1) % 4 = 3 /\ (0 - 2) % 4 = 2 /\ (0 - 3) % 4 = 1
      /\ (1 - 1) % 4 = 0 /\ (1 - 2) % 4 = 3 /\ (1 - 3) % 4 = 2
      /\ (2 - 1) % 4 = 1 /\ (2 - 2) % 4 = 0 /\ (2 - 3) % 4 = 3
      /\ (3 - 1) % 4 = 2 /\ (3 - 2) % 4 = 1 /\ (3 - 3) % 4 = 0
  <2>1. \A i \in 0 .. 3, k \in 1 .. 3 : (i - k) % 4 = IF i >= k THEN i - k ELSE (i - k) + 4
    OBVIOUS
  <2>2. QED
    BY <2>1
<1>6. ASSUME NEW j \in Index
      PROVE  /\ coef_mult(a, b(j))[0] = RowOf(c0, c3, c2, c1, b(j))
             /\ coef_mult(a, b(j))[1] = RowOf(c1, c0, c3, c2, b(j))
             /\ coef_mult(a, b(j))[2] = RowOf(c2, c1, c0, c3, b(j))
             /\ coef_mult(a, b(j))[3] = RowOf(c3, c2, c1, c0, b(j))
  <2> HIDE DEF b
  <2>1. \A i \in Index : coef_mult(a, b(j))[i]
            = AddFour(gmult(a[i], b(j)[0]), gmult(a[(i - 1) % 4], b(j)[1]),
                      gmult(a[(i - 2) % 4], b(j)[2]), gmult(a[(i - 3) % 4], b(j)[3]))
    BY DEF coef_mult, AddFour
  <2>2. QED
    BY <1>1, <1>2, <1>5, <2>1 DEF RowOf
<1>7. \A p \in Cells : p[1] \in Index /\ p[2] \in Index /\ p = <<p[1], p[2]>>
  BY DEF Cells
<1>8. m = [p \in Cells |-> coef_mult(a, b(p[2]))[p[1]]]
  <2>1. m = [p \in Cells |-> [j \in Index |-> coef_mult(a, b(j))][p[2]][p[1]]]
    BY DEF MixWith, a
  <2> HIDE DEF b
  <2>2. QED
    BY <1>7, <2>1
<1> HIDE DEF b
<1>9. \A i, j \in Index : m[<<i, j>>] = coef_mult(a, b(j))[i]
  BY <1>8 DEF Cells
<1>10. \A d0, d1, d2, d3 : \A j \in Index : RowOf(d0, d1, d2, d3, b(j)) \in Byte
  <2>1. \A j \in Index : b(j)[0] \in Byte /\ b(j)[1] \in Byte /\ b(j)[2] \in Byte /\ b(j)[3] \in Byte
    BY <1>1, <1>4 DEF Word
  <2>2. \A n : \A v \in Byte : gmult(Bits(n), v) \in Byte
    BY <1>3, GmultType
  <2>3. \A u0, u1, u2, u3 \in Byte : AddFour(u0, u1, u2, u3) \in Byte
    BY AddFourBits
  <2>4. QED
    BY <2>1, <2>2, <2>3 DEF RowOf
<1>11. \A i \in Index : i = 0 \/ i = 1 \/ i = 2 \/ i = 3
  BY DEF Index, Nb
<1>12. m \in State
  <2>1. \A i, j \in Index : coef_mult(a, b(j))[i] \in Byte
    BY <1>6, <1>10, <1>11
  <2>2. QED
    BY <1>7, <1>8, <2>1 DEF State
<1>13. \A j \in Index : /\ m[<<0, j>>] = RowOf(c0, c3, c2, c1, b(j)) /\ m[<<1, j>>] = RowOf(c1, c0, c3, c2, b(j))
                        /\ m[<<2, j>>] = RowOf(c2, c1, c0, c3, b(j)) /\ m[<<3, j>>] = RowOf(c3, c2, c1, c0, b(j))
  BY <1>1, <1>6, <1>9
<1>14. QED
  BY <1>12, <1>13 DEF b, Column

\* Two states are the same if their entries are.
LEMMA SameState ==
    ASSUME NEW s \in State, NEW t \in State,
           \A i, j \in Index : s[<<i, j>>] = t[<<i, j>>]
    PROVE  s = t
<1>1. \A p \in Cells : s[p] = t[p]
  <2>1. \A p \in Cells : p = <<p[1], p[2]>> /\ p[1] \in Index /\ p[2] \in Index
    BY DEF Cells
  <2>2. QED
    BY <2>1
<1>2. QED
  BY <1>1 DEF State

\* inv_mix_columns undoes mix_columns.
LEMMA MixBack ==
    ASSUME NEW s \in State
    PROVE  mix_columns[s] \in State /\ inv_mix_columns[mix_columns[s]] = s
<1> DEFINE m == MixWith(Coefficients(<<2, 1, 1, 3>>), s)
           e == MixWith(Coefficients(<<14, 9, 13, 11>>), m)
           b(j) == Column(s, j)
           d(j) == Column(m, j)
<1>1. mix_columns[s] = m
  BY DEF mix_columns
<1>2. /\ m \in State
      /\ \A j \in Index :
            /\ m[<<0, j>>] = RowOf(2, 3, 1, 1, b(j)) /\ m[<<1, j>>] = RowOf(1, 2, 3, 1, b(j))
            /\ m[<<2, j>>] = RowOf(1, 1, 2, 3, b(j)) /\ m[<<3, j>>] = RowOf(3, 1, 1, 2, b(j))
  <2> HIDE DEF m
  <2>1. QED
    BY MixRows DEF m
<1> HIDE DEF m
<1>3. inv_mix_columns[m] = e
  BY <1>2 DEF inv_mix_columns
<1>4. /\ e \in State
      /\ \A j \in Index :
            /\ e[<<0, j>>] = RowOf(14, 11, 13, 9, d(j)) /\ e[<<1, j>>] = RowOf(9, 14, 11, 13, d(j))
            /\ e[<<2, j>>] = RowOf(13, 9, 14, 11, d(j)) /\ e[<<3, j>>] = RowOf(11, 13, 9, 14, d(j))
  <2>1. m \in State
    BY <1>2
  <2>2. e = MixWith(Coefficients(<<14, 9, 13, 11>>), m)
    OBVIOUS
  <2> HIDE DEF e
  <2>3. QED
    BY <2>1, <2>2, MixRows
<1> HIDE DEF e
<1>5. 0 \in Index /\ 1 \in Index /\ 2 \in Index /\ 3 \in Index
      /\ \A i \in Index : i = 0 \/ i = 1 \/ i = 2 \/ i = 3
  BY DEF Index, Nb
<1>6. ASSUME NEW j \in Index
      PROVE  \A i \in Index : e[<<i, j>>] = s[<<i, j>>]
  <2>1. b(j) \in Word /\ d(j) \in Word
    BY <1>2 DEF State, Cells, Word, Column
  <2>2. /\ b(j)[0] = s[<<0, j>>] /\ b(j)[1] = s[<<1, j>>]
        /\ b(j)[2] = s[<<2, j>>] /\ b(j)[3] = s[<<3, j>>]
        /\ d(j)[0] = m[<<0, j>>] /\ d(j)[1] = m[<<1, j>>]
        /\ d(j)[2] = m[<<2, j>>] /\ d(j)[3] = m[<<3, j>>]
    BY <1>5 DEF Column
  <2> HIDE DEF b, d
  <2>3. /\ RowOf(14, 11, 13, 9, d(j)) = b(j)[0] /\ RowOf(9, 14, 11, 13, d(j)) = b(j)[1]
        /\ RowOf(13, 9, 14, 11, d(j)) = b(j)[2] /\ RowOf(11, 13, 9, 14, d(j)) = b(j)[3]
    BY <1>2, <2>1, <2>2, ColumnBack
  <2>4. QED
    BY <1>4, <1>5, <2>2, <2>3
<1>7. e = s
  BY <1>4, <1>6, SameState
<1>8. QED
  BY <1>1, <1>2, <1>3, <1>7

\* inv_shift_rows undoes shift_rows.
LEMMA ShiftBack ==
    ASSUME NEW s \in State
    PROVE  shift_rows[s] \in State /\ inv_shift_rows[shift_rows[s]] = s
<1> DEFINE t == [p \in Cells |-> s[<<p[1], (p[2] + p[1]) % Nb>>]]
           u == [p \in Cells |-> t[<<p[1], (p[2] - p[1]) % Nb>>]]
<1>1. \A i, j \in Index : /\ (j + i) % Nb \in Index /\ (j - i) % Nb \in Index
                          /\ (((j - i) % Nb) + i) % Nb = j
  BY DEF Index, Nb
<1>2. \A p \in Cells : p[1] \in Index /\ p[2] \in Index
  BY DEF Cells
<1>3. shift_rows[s] = t
  BY DEF shift_rows
<1>4. t \in State
  <2>1. \A p \in Cells : <<p[1], (p[2] + p[1]) % Nb>> \in Cells
    BY <1>1, <1>2 DEF Cells
  <2>2. QED
    BY <2>1 DEF State
<1>5. u \in State /\ inv_shift_rows[t] = u
  <2>1. \A p \in Cells : <<p[1], (p[2] - p[1]) % Nb>> \in Cells
    BY <1>1, <1>2 DEF Cells
  <2>2. inv_shift_rows[t] = u
    <3> HIDE DEF t
    <3>1. QED
      BY <1>4 DEF inv_shift_rows
  <2> HIDE DEF t
  <2>3. QED
    BY <1>4, <2>1, <2>2 DEF State
<1>6. ASSUME NEW i \in Index, NEW j \in Index
      PROVE  u[<<i, j>>] = s[<<i, j>>]
  <2> DEFINE k == (j - i) % Nb
  <2>1. k \in Index /\ (k + i) % Nb = j
    BY <1>1
  <2> HIDE DEF k
  <2>2. u[<<i, j>>] = t[<<i, k>>]
    <3> HIDE DEF t
    <3>1. QED
      BY DEF Cells, k
  <2>3. t[<<i, k>>] = s[<<i, (k + i) % Nb>>]
    BY <2>1 DEF Cells
  <2> HIDE DEF u, t
  <2>4. QED
    BY <2>1, <2>2, <2>3
<1> HIDE DEF u, t
<1>7. u = s
  BY <1>5, <1>6, SameState
<1>8. QED
  BY <1>3, <1>4, <1>5, <1>7

\* inv_sub_bytes undoes sub_bytes, if the one table is the inverse of the other.
LEMMA SubBack ==
    ASSUME NEW s \in State
    PROVE  sub_bytes[s] \in State /\ (BoxesInverse => inv_sub_bytes[sub_bytes[s]] = s)
<1> DEFINE t == [p \in Cells |-> s_box[s[p]]]
           u == [p \in Cells |-> inv_s_box[t[p]]]
<1>1. \A b \in Byte : s_box[b] \in Byte
  <2>1. \A n : Bits(n) \in Byte
    BY DEF Bits, Byte
  <2>2. QED
    BY <2>1 DEF s_box
<1>2. sub_bytes[s] = t
  BY DEF sub_bytes
<1>3. \A p \in Cells : s[p] \in Byte
  BY DEF State
<1>4. t \in State
  BY <1>1, <1>3 DEF State
<1>5. inv_sub_bytes[t] = u
  <2> HIDE DEF t
  <2>1. QED
    BY <1>4 DEF inv_sub_bytes
<1>6. ASSUME BoxesInverse
      PROVE  u = s
  <2>1. \A p \in Cells : inv_s_box[s_box[s[p]]] = s[p]
    BY <1>3, <1>6 DEF BoxesInverse
  <2>2. u = [p \in Cells |-> s[p]]
    BY <2>1
  <2>3. s = [p \in Cells |-> s[p]]
    BY DEF State
  <2>4. QED
    BY <2>2, <2>3
<1>7. QED
  BY <1>2, <1>4, <1>5, <1>6

\* An expanded key for nr rounds.
KeyFor(w, nr) == w \in [1 .. Nb * (nr + 1) -> Word]

\* Adding a round's key twice changes nothing.
LEMMA KeyTwice ==
    ASSUME NEW nr \in Nat, NEW w, KeyFor(w, nr), NEW r \in 0 .. nr, NEW s \in State
    PROVE  /\ add_round_key(s, w, r) \in State
           /\ add_round_key(add_round_key(s, w, r), w, r) = s
<1> DEFINE k(p) == w[Nb * r + p[2] + 1][p[1]]
           t == [p \in Cells |-> s[p] ++ k(p)]
<1>1. \A p \in Cells : k(p) \in Byte
  <2> TAKE p \in Cells
  <2>1. p[1] \in Index /\ p[2] \in 0 .. 3
    BY DEF Cells, Index, Nb
  <2>2. Nb * r + p[2] + 1 \in 1 .. Nb * (nr + 1)
    BY <2>1 DEF Nb
  <2>3. w[Nb * r + p[2] + 1] \in Word
    BY <2>2 DEF KeyFor
  <2>4. QED
    BY <2>1, <2>3 DEF Word
<1>2. add_round_key(s, w, r) = t /\ add_round_key(t, w, r) = [p \in Cells |-> t[p] ++ k(p)]
  BY DEF add_round_key
<1> HIDE DEF k
<1>3. \A p \in Cells : s[p] \in Byte /\ s[p] ++ k(p) \in Byte /\ (s[p] ++ k(p)) ++ k(p) = s[p]
  BY <1>1, Added, AddedTwice DEF State
<1>4. t \in State
  BY <1>3 DEF State
<1>5. [p \in Cells |-> t[p] ++ k(p)] = s
  <2>1. [p \in Cells |-> t[p] ++ k(p)] = [p \in Cells |-> s[p]]
    BY <1>3
  <2>2. QED
    BY <2>1 DEF State
<1>6. QED
  BY <1>2, <1>4, <1>5

\* A piece of a file.
Piece == [1 .. 16 -> Byte]

\* Loading and storing undo each other.
LEMMA LoadStore ==
    /\ \A in \in Piece : Load(in) \in State /\ Store(Load(in)) = in
    /\ \A s \in State : Store(s) \in Piece /\ Load(Store(s)) = s
<1>1. \A i, j \in Index : /\ i + 4 * j + 1 \in 1 .. 16
                          /\ ((i + 4 * j + 1) - 1) % 4 = i /\ ((i + 4 * j + 1) - 1) \div 4 = j
  BY DEF Index, Nb
<1>2. \A n \in 1 .. 16 : /\ (n - 1) % 4 \in Index /\ (n - 1) \div 4 \in Index
                         /\ ((n - 1) % 4) + 4 * ((n - 1) \div 4) + 1 = n
  BY DEF Index, Nb
<1>3. ASSUME NEW in \in Piece
      PROVE  Load(in) \in State /\ \A i, j \in Index : Load(in)[<<i, j>>] = in[i + 4 * j + 1]
  <2>1. \A p \in Cells : p[1] \in Index /\ p[2] \in Index
    BY DEF Cells
  <2>2. Load(in) \in State
    BY <1>1, <2>1 DEF Load, State, Piece
  <2>3. \A i, j \in Index : Load(in)[<<i, j>>] = in[i + 4 * j + 1]
    BY DEF Load, Cells
  <2>4. QED
    BY <2>2, <2>3
<1>4. ASSUME NEW s \in State
      PROVE  Store(s) \in Piece /\ \A n \in 1 .. 16 : Store(s)[n] = s[<<(n - 1) % 4, (n - 1) \div 4>>]
  BY <1>2 DEF Store, State, Piece, Cells
<1>5. ASSUME NEW in \in Piece
      PROVE  Store(Load(in)) = in
  <2>1. Store(Load(in)) \in Piece /\ \A n \in 1 .. 16 : Store(Load(in))[n] = in[n]
    BY <1>2, <1>3, <1>4
  <2>2. QED
    BY <2>1 DEF Piece
<1>6. ASSUME NEW s \in State
      PROVE  Load(Store(s)) = s
  <2>1. Load(Store(s)) \in State
    BY <1>3, <1>4
  <2>2. \A i, j \in Index : Load(Store(s))[<<i, j>>] = s[<<i, j>>]
    <3> TAKE i, j \in Index
    <3>1. Store(s) \in Piece
      BY <1>4
    <3>2. Load(Store(s))[<<i, j>>] = Store(s)[i + 4 * j + 1]
      BY <1>3, <3>1
    <3>3. Store(s)[i + 4 * j + 1] = s[<<((i + 4 * j + 1) - 1) % 4, ((i + 4 * j + 1) - 1) \div 4>>]
      BY <1>1, <1>4
    <3>4. QED
      BY <1>1, <3>2, <3>3
  <2>3. QED
    BY <2>1, <2>2, SameState
<1>7. QED
  BY <1>3, <1>4, <1>5, <1>6

-----------------------------------------------------------------------------
(* The rounds *)

\* Round r of the cipher.
Round(s, w, nr, r) ==
    add_round_key(IF r < nr THEN mix_columns[shift_rows[sub_bytes[s]]] ELSE shift_rows[sub_bytes[s]], w, r)

\* The n-th round undone.
RoundBack(s, w, nr, n) ==
    LET back == add_round_key(inv_sub_bytes[inv_shift_rows[s]], w, nr - n)
    IN IF n < nr THEN inv_mix_columns[back] ELSE back

\* What the inverses make of a state is a state.
LEMMA InverseTypes ==
    ASSUME NEW s \in State
    PROVE  /\ inv_shift_rows[s] \in State
           /\ inv_sub_bytes[s] \in State
           /\ inv_mix_columns[s] \in State
<1>1. inv_shift_rows[s] \in State
  <2>1. inv_shift_rows[s] = [p \in Cells |-> s[<<p[1], (p[2] - p[1]) % Nb>>]]
    BY DEF inv_shift_rows
  <2>2. \A p \in Cells : <<p[1], (p[2] - p[1]) % Nb>> \in Cells
    BY DEF Cells, Index, Nb
  <2>3. QED
    BY <2>1, <2>2 DEF State
<1>2. inv_sub_bytes[s] \in State
  <2>1. inv_sub_bytes[s] = [p \in Cells |-> inv_s_box[s[p]]]
    BY DEF inv_sub_bytes
  <2>2. \A n : Bits(n) \in Byte
    BY DEF Bits, Byte
  <2>3. \A b \in Byte : inv_s_box[b] \in Byte
    BY <2>2 DEF inv_s_box
  <2>4. QED
    BY <2>1, <2>3 DEF State
<1>3. inv_mix_columns[s] \in State
  <2>1. inv_mix_columns[s] = MixWith(Coefficients(<<14, 9, 13, 11>>), s)
    BY DEF inv_mix_columns
  <2>2. QED
    BY <2>1, MixRows
<1>4. QED
  BY <1>1, <1>2, <1>3

\* c goes on as the state of the cipher.
Forward(c, in, w, nr) ==
    /\ c \in [0 .. nr -> State]
    /\ c[0] = add_round_key(Load(in), w, 0)
    /\ \A r \in 1 .. nr : c[r] = Round(c[r - 1], w, nr, r)

\* Its state is so.
LEMMA CipherRounds ==
    ASSUME NEW nr \in Nat \ {0}, NEW w, KeyFor(w, nr), NEW in \in Piece
    PROVE  \E c : Forward(c, in, w, nr) /\ aes_cipher(in, w, nr) = Store(c[nr])
<1> DEFINE start == add_round_key(Load(in), w, 0)
           step == [r \in Nat |-> [s \in State |-> IF r \in 1 .. nr THEN Round(s, w, nr, r) ELSE s]]
           Body(f) == [r \in 0 .. nr |-> IF r = 0 THEN start ELSE Round(f[r - 1], w, nr, r)]
           state[r \in 0 .. nr] ==
               IF r = 0 THEN add_round_key(Load(in), w, 0)
               ELSE LET s == shift_rows[sub_bytes[state[r - 1]]]
                    IN add_round_key(IF r < nr THEN mix_columns[s] ELSE s, w, r)
<1>1. start \in State
  BY LoadStore, KeyTwice
<1>2. ASSUME NEW r \in 1 .. nr, NEW s \in State
      PROVE  Round(s, w, nr, r) \in State
  <2>1. shift_rows[sub_bytes[s]] \in State
    BY SubBack, ShiftBack
  <2>2. mix_columns[shift_rows[sub_bytes[s]]] \in State
    BY <2>1, MixBack
  <2>3. QED
    BY <2>1, <2>2, KeyTwice DEF Round
<1>3. PICK f \in [0 .. nr -> State] : Follows(f, nr, start, step)
  <2>1. step \in [Nat -> [State -> State]]
    BY <1>2
  <2> HIDE DEF start, step
  <2>2. QED
    BY <1>1, <2>1, Recursion
<1>4. f[0] = start /\ \A r \in 1 .. nr : f[r] = Round(f[r - 1], w, nr, r)
  <2>1. ASSUME NEW r \in 1 .. nr
        PROVE  f[r] = Round(f[r - 1], w, nr, r)
    <3>1. f[r - 1] \in State /\ r \in Nat
      BY <1>3
    <3>2. step[r][f[r - 1]] = Round(f[r - 1], w, nr, r)
      BY <3>1
    <3> HIDE DEF step, start
    <3>3. QED
      BY <1>3, <3>2 DEF Follows
  <2> HIDE DEF step, start
  <2>2. QED
    BY <1>3, <2>1 DEF Follows
<1>5. state = Body(state)
  <2>1. f = Body(f)
    <3>1. f = [r \in 0 .. nr |-> f[r]]
      BY <1>3
    <3>2. \A r \in 0 .. nr : f[r] = IF r = 0 THEN start ELSE Round(f[r - 1], w, nr, r)
      <4> HIDE DEF start
      <4>1. QED
        BY <1>4
    <3> HIDE DEF start
    <3>3. QED
      BY <3>1, <3>2
  <2>2. state = CHOOSE g : g = Body(g)
    BY DEF Round
  <2> HIDE DEF Body, state
  <2>3. QED
    BY <2>1, <2>2
<1>6. state = f
  <2>1. state[0] = f[0] /\ state = [r \in 0 .. nr |-> state[r]]
    <3> HIDE DEF state, start
    <3>1. QED
      BY <1>4, <1>5
  <2>2. f = [r \in 0 .. nr |-> f[r]]
    BY <1>3
  <2>3. ASSUME NEW r \in 1 .. nr, state[r - 1] = f[r - 1]
        PROVE  state[r] = f[r]
    <3>1. state[r] = Round(state[r - 1], w, nr, r)
      <4> HIDE DEF state, start
      <4>1. QED
        BY <1>5
    <3> HIDE DEF state
    <3>2. QED
      BY <1>4, <2>3, <3>1
  <2>4. Alike(state, f, nr)
    <3> HIDE DEF state
    <3>1. QED
      BY <2>1, <2>2, <2>3 DEF Alike
  <2> HIDE DEF state
  <2>5. QED
    BY <2>4, Agreement
<1>7. aes_cipher(in, w, nr) = Store(f[nr])
  <2>1. aes_cipher(in, w, nr) = Store(state[nr])
    BY DEF aes_cipher
  <2> HIDE DEF state
  <2>2. QED
    BY <1>6, <2>1
<1>8. Forward(f, in, w, nr)
  BY <1>3, <1>4 DEF Forward
<1>9. QED
  BY <1>7, <1>8

\* c goes on as the state of the inverse cipher.
Backward(c, in, w, nr) ==
    /\ c \in [0 .. nr -> State]
    /\ c[0] = add_round_key(Load(in), w, nr)
    /\ \A r \in 1 .. nr : c[r] = RoundBack(c[r - 1], w, nr, r)

\* Its state is so.
LEMMA InverseRounds ==
    ASSUME NEW nr \in Nat \ {0}, NEW w, KeyFor(w, nr), NEW in \in Piece
    PROVE  \E c : Backward(c, in, w, nr) /\ aes_inv_cipher(in, w, nr) = Store(c[nr])
<1> DEFINE start == add_round_key(Load(in), w, nr)
           step == [r \in Nat |-> [s \in State |-> IF r \in 1 .. nr THEN RoundBack(s, w, nr, r) ELSE s]]
           Body(f) == [r \in 0 .. nr |-> IF r = 0 THEN start ELSE RoundBack(f[r - 1], w, nr, r)]
           state[n \in 0 .. nr] ==
               IF n = 0 THEN add_round_key(Load(in), w, nr)
               ELSE LET s == add_round_key(inv_sub_bytes[inv_shift_rows[state[n - 1]]], w, nr - n)
                    IN IF n < nr THEN inv_mix_columns[s] ELSE s
<1>1. start \in State
  BY LoadStore, KeyTwice
<1>2. ASSUME NEW r \in 1 .. nr, NEW s \in State
      PROVE  RoundBack(s, w, nr, r) \in State
  <2>1. inv_sub_bytes[inv_shift_rows[s]] \in State
    BY InverseTypes
  <2>2. nr - r \in 0 .. nr
    OBVIOUS
  <2>3. add_round_key(inv_sub_bytes[inv_shift_rows[s]], w, nr - r) \in State
    BY <2>1, <2>2, KeyTwice
  <2>4. inv_mix_columns[add_round_key(inv_sub_bytes[inv_shift_rows[s]], w, nr - r)] \in State
    BY <2>3, InverseTypes
  <2>5. QED
    BY <2>3, <2>4 DEF RoundBack
<1>3. PICK f \in [0 .. nr -> State] : Follows(f, nr, start, step)
  <2>1. step \in [Nat -> [State -> State]]
    BY <1>2
  <2> HIDE DEF start, step
  <2>2. QED
    BY <1>1, <2>1, Recursion
<1>4. f[0] = start /\ \A r \in 1 .. nr : f[r] = RoundBack(f[r - 1], w, nr, r)
  <2>1. ASSUME NEW r \in 1 .. nr
        PROVE  f[r] = RoundBack(f[r - 1], w, nr, r)
    <3>1. f[r - 1] \in State /\ r \in Nat
      BY <1>3
    <3>2. step[r][f[r - 1]] = RoundBack(f[r - 1], w, nr, r)
      BY <3>1
    <3> HIDE DEF step, start
    <3>3. QED
      BY <1>3, <3>2 DEF Follows
  <2> HIDE DEF step, start
  <2>2. QED
    BY <1>3, <2>1 DEF Follows
<1>5. state = Body(state)
  <2>1. f = Body(f)
    <3>1. f = [r \in 0 .. nr |-> f[r]]
      BY <1>3
    <3>2. \A r \in 0 .. nr : f[r] = IF r = 0 THEN start ELSE RoundBack(f[r - 1], w, nr, r)
      <4> HIDE DEF start
      <4>1. QED
        BY <1>4
    <3> HIDE DEF start
    <3>3. QED
      BY <3>1, <3>2
  <2>2. state = CHOOSE g : g = Body(g)
    BY DEF RoundBack
  <2> HIDE DEF Body, state
  <2>3. QED
    BY <2>1, <2>2
<1>6. state = f
  <2>1. state[0] = f[0] /\ state = [r \in 0 .. nr |-> state[r]]
    <3> HIDE DEF state, start
    <3>1. QED
      BY <1>4, <1>5
  <2>2. f = [r \in 0 .. nr |-> f[r]]
    BY <1>3
  <2>3. ASSUME NEW r \in 1 .. nr, state[r - 1] = f[r - 1]
        PROVE  state[r] = f[r]
    <3>1. state[r] = RoundBack(state[r - 1], w, nr, r)
      <4> HIDE DEF state, start
      <4>1. QED
        BY <1>5
    <3> HIDE DEF state
    <3>2. QED
      BY <1>4, <2>3, <3>1
  <2>4. Alike(state, f, nr)
    <3> HIDE DEF state
    <3>1. QED
      BY <2>1, <2>2, <2>3 DEF Alike
  <2> HIDE DEF state
  <2>5. QED
    BY <2>4, Agreement
<1>7. aes_inv_cipher(in, w, nr) = Store(f[nr])
  <2>1. aes_inv_cipher(in, w, nr) = Store(state[nr])
    BY DEF aes_inv_cipher
  <2> HIDE DEF state
  <2>2. QED
    BY <1>6, <2>1
<1>8. Backward(f, in, w, nr)
  BY <1>3, <1>4 DEF Backward
<1>9. QED
  BY <1>7, <1>8

\* The inverse cipher undoes the cipher (aes_inv_cipher, aes_cipher) for every
\* number of rounds, every expanded key and every piece, where the one box is
\* the inverse of the other.  After n rounds are undone the state is what
\* shift_rows left of the state n rounds before the end.
THEOREM CipherBack ==
    ASSUME BoxesInverse,
           NEW nr \in Nat \ {0}, NEW w, KeyFor(w, nr), NEW in \in Piece
    PROVE  /\ aes_cipher(in, w, nr) \in Piece
           /\ aes_inv_cipher(aes_cipher(in, w, nr), w, nr) = in
<1> DEFINE out == aes_cipher(in, w, nr)
           Half(s) == shift_rows[sub_bytes[s]]
<1>1. PICK c : Forward(c, in, w, nr) /\ out = Store(c[nr])
  BY CipherRounds
<1>2. c[nr] \in State /\ out \in Piece /\ Load(out) = c[nr]
  BY <1>1, LoadStore DEF Forward
<1>3. PICK d : Backward(d, out, w, nr) /\ aes_inv_cipher(out, w, nr) = Store(d[nr])
  <2> HIDE DEF out
  <2>1. QED
    BY <1>2, InverseRounds
<1> HIDE DEF out
<1>4. \A s \in State : Half(s) \in State /\ inv_sub_bytes[inv_shift_rows[Half(s)]] = s
  BY SubBack, ShiftBack
<1> HIDE DEF Half
<1>5. \A r \in 0 .. nr : c[r] \in State
  BY <1>1 DEF Forward
<1>6. \A r \in 1 .. nr :
          c[r] = add_round_key(IF r < nr THEN mix_columns[Half(c[r - 1])] ELSE Half(c[r - 1]), w, r)
  BY <1>1 DEF Forward, Round, Half
<1> DEFINE P == {n \in Nat : n \in 0 .. nr - 1 => d[n] = Half(c[nr - 1 - n])}
<1>7. 0 \in P
  <2>1. nr \in 1 .. nr /\ nr \in 0 .. nr /\ nr - 1 \in 0 .. nr
    OBVIOUS
  <2>2. c[nr] = add_round_key(Half(c[nr - 1]), w, nr)
    BY <1>6, <2>1
  <2>3. Half(c[nr - 1]) \in State
    BY <1>4, <1>5, <2>1
  <2>4. d[0] = add_round_key(c[nr], w, nr)
    BY <1>2, <1>3 DEF Backward
  <2>5. d[0] = Half(c[nr - 1])
    BY <2>1, <2>2, <2>3, <2>4, KeyTwice
  <2>6. nr - 1 - 0 = nr - 1
    OBVIOUS
  <2>7. QED
    BY <2>5, <2>6
<1>8. ASSUME NEW n \in 0 .. nr - 1, d[n] = Half(c[nr - 1 - n])
      PROVE  inv_sub_bytes[inv_shift_rows[d[n]]] = c[nr - (n + 1)]
  <2>1. nr - 1 - n = nr - (n + 1) /\ nr - (n + 1) \in 0 .. nr
    OBVIOUS
  <2>2. QED
    BY <1>4, <1>5, <1>8, <2>1
<1>9. ASSUME NEW n \in Nat, n \in P
      PROVE  n + 1 \in P
  <2>1. SUFFICES ASSUME n + 1 \in 0 .. nr - 1
                 PROVE  d[n + 1] = Half(c[nr - 1 - (n + 1)])
    OBVIOUS
  <2> DEFINE r == nr - (n + 1)
  <2>2. /\ n \in 0 .. nr - 1 /\ n + 1 \in 1 .. nr /\ (n + 1) - 1 = n /\ n + 1 < nr
        /\ r \in 1 .. nr /\ r < nr /\ r \in 0 .. nr /\ r - 1 \in 0 .. nr
        /\ nr - 1 - (n + 1) = r - 1
    BY <2>1
  <2> HIDE DEF r
  <2>3. inv_sub_bytes[inv_shift_rows[d[n]]] = c[r]
    BY <1>8, <1>9, <2>2 DEF r
  <2>4. d[n + 1] = inv_mix_columns[add_round_key(c[r], w, r)]
    BY <1>3, <2>2, <2>3 DEF Backward, RoundBack, r
  <2>5. Half(c[r - 1]) \in State
    BY <1>4, <1>5, <2>2
  <2>6. mix_columns[Half(c[r - 1])] \in State /\ inv_mix_columns[mix_columns[Half(c[r - 1])]] = Half(c[r - 1])
    BY <2>5, MixBack
  <2>7. c[r] = add_round_key(mix_columns[Half(c[r - 1])], w, r)
    BY <1>6, <2>2
  <2>8. add_round_key(c[r], w, r) = mix_columns[Half(c[r - 1])]
    BY <2>2, <2>6, <2>7, KeyTwice
  <2>9. QED
    BY <2>2, <2>4, <2>6, <2>8
<1>10. \A n \in Nat : n \in P
  <2> HIDE DEF P
  <2>1. QED
    BY <1>7, <1>9, Induction
<1>11. d[nr] = Load(in)
  <2>1. nr - 1 \in Nat /\ nr - 1 \in 0 .. nr - 1 /\ nr \in 1 .. nr /\ nr - nr = 0 /\ (nr - 1) + 1 = nr
    OBVIOUS
  <2>2. d[nr - 1] = Half(c[nr - 1 - (nr - 1)])
    BY <1>10, <2>1
  <2>3. inv_sub_bytes[inv_shift_rows[d[nr - 1]]] = c[0]
    BY <1>8, <2>1, <2>2
  <2>4. d[nr] = add_round_key(c[0], w, 0)
    BY <1>3, <2>1, <2>3 DEF Backward, RoundBack
  <2>5. c[0] = add_round_key(Load(in), w, 0) /\ Load(in) \in State
    BY <1>1, LoadStore DEF Forward
  <2>6. QED
    BY <2>4, <2>5, KeyTwice
<1>12. aes_inv_cipher(out, w, nr) = in
  BY <1>3, <1>11, LoadStore
<1>13. QED
  BY <1>2, <1>12 DEF out

-----------------------------------------------------------------------------
(* The key *)

\* Rcon is a word.
LEMMA RconType ==
    ASSUME NEW i \in Nat \ {0}
    PROVE  Rcon(i) \in Word
<1> DEFINE double == [b \in Byte |-> gmult(b, Bits(2))]
           Body(f) == [n \in 1 .. i |-> IF n = 1 THEN Bits(1) ELSE double[f[n - 1]]]
           power[n \in 1 .. i] == IF n = 1 THEN Bits(1) ELSE double[power[n - 1]]
           start == Bits(1)
           step == [n \in Nat |-> double]
           m == i - 1
<1>1. start \in Byte /\ m \in Nat /\ step \in [Nat -> [Byte -> Byte]] /\ double \in [Byte -> Byte]
  <2>1. \A n : Bits(n) \in Byte
    BY DEF Bits, Byte
  <2>2. double \in [Byte -> Byte]
    BY <2>1, GmultType
  <2> HIDE DEF double
  <2>3. QED
    BY <2>1, <2>2
<1>2. PICK f \in [0 .. m -> Byte] : Follows(f, m, start, step)
  <2> HIDE DEF start, step, m
  <2>1. QED
    BY <1>1, Recursion
<1>3. f[0] = start /\ \A n \in 1 .. m : f[n] = double[f[n - 1]]
  <2>1. \A n \in 1 .. m : step[n] = double
    <3> HIDE DEF double
    <3>1. QED
      BY <1>1
  <2> HIDE DEF start, double, step
  <2>2. QED
    BY <1>2, <2>1 DEF Follows
<1> DEFINE h == [n \in 1 .. i |-> f[n - 1]]
<1>4. h = Body(h)
  <2>1. ASSUME NEW n \in 1 .. i
        PROVE  f[n - 1] = IF n = 1 THEN Bits(1) ELSE double[h[n - 1]]
    <3>1. CASE n = 1
      BY <1>3, <3>1
    <3>2. CASE n # 1
      <4>1. n - 1 \in 1 .. m /\ n - 1 \in 1 .. i
        BY <3>2
      <4>2. h[n - 1] = f[(n - 1) - 1]
        BY <4>1
      <4> HIDE DEF h, double, m
      <4>3. QED
        BY <1>3, <3>2, <4>1, <4>2
    <3>3. QED
      BY <3>1, <3>2
  <2> HIDE DEF double
  <2>2. QED
    BY <2>1
<1>5. power = Body(power)
  <2>1. power = CHOOSE g : g = Body(g)
    OBVIOUS
  <2> HIDE DEF Body, power, h
  <2>2. QED
    BY <1>4, <2>1
<1> DEFINE P == {n \in Nat : n + 1 \in 1 .. i => power[n + 1] \in Byte}
<1>6. 0 \in P
  <2>1. power[1] = Bits(1)
    <3> HIDE DEF power, double
    <3>1. QED
      BY <1>5
  <2> HIDE DEF power
  <2>2. QED
    BY <1>1, <2>1
<1>7. ASSUME NEW n \in Nat, n \in P
      PROVE  n + 1 \in P
  <2>1. SUFFICES ASSUME n + 2 \in 1 .. i
                 PROVE  power[n + 2] \in Byte
    <3> HIDE DEF power
    <3>1. QED
      OBVIOUS
  <2>2. n + 1 \in 1 .. i /\ (n + 2) - 1 = n + 1 /\ n + 2 # 1
    BY <2>1
  <2>3. power[n + 2] = double[power[n + 1]]
    <3> HIDE DEF power, double
    <3>1. QED
      BY <1>5, <2>1, <2>2
  <2>4. power[n + 1] \in Byte
    <3> HIDE DEF power
    <3>1. QED
      BY <1>7, <2>2
  <2> HIDE DEF power, double
  <2>5. QED
    BY <1>1, <2>3, <2>4
<1>8. power[i] \in Byte
  <2>1. i - 1 \in P
    <3> HIDE DEF P
    <3>1. QED
      BY <1>6, <1>7, Induction
  <2> HIDE DEF power
  <2>2. QED
    BY <2>1
<1>9. Rcon(i) = [k \in Index |-> IF k = 0 THEN power[i] ELSE {}]
  BY DEF Rcon
<1>10. {} \in Byte
  BY DEF Byte
<1> HIDE DEF power
<1>11. QED
  BY <1>8, <1>9, <1>10 DEF Word

\* What is added to a word of the key is a word.
LEMMA TmpType ==
    ASSUME NEW nk \in Nat \ {0}, NEW i \in Nat, nk <= i, NEW tmp \in Word
    PROVE  Tmp(tmp, i, nk) \in Word
<1>1. \A v \in Word : sub_word(v) \in Word /\ rot_word(v) \in Word
  <2>1. \A n : Bits(n) \in Byte
    BY DEF Bits, Byte
  <2>2. \A b \in Byte : s_box[b] \in Byte
    BY <2>1 DEF s_box
  <2>3. \A k \in Index : (k + 1) % 4 \in Index
    BY DEF Index, Nb
  <2>4. QED
    BY <2>2, <2>3 DEF sub_word, rot_word, Word
<1>2. ASSUME i % nk = 0
      PROVE  Rcon(i \div nk) \in Word
  <2>1. i \div nk \in Nat \ {0}
    BY <1>2
  <2>2. QED
    BY <2>1, RconType
<1>3. \A u, v \in Word : coef_add(u, v) \in Word
  BY Added DEF coef_add, Word
<1>4. QED
  BY <1>1, <1>2, <1>3 DEF Tmp

\* The key is expanded to the words that the rounds take.
LEMMA KeyExpanded ==
    ASSUME NEW nk \in Nat \ {0}, NEW nr \in Nat, nk <= Nb * (nr + 1),
           NEW k \in [1 .. 4 * nk -> Byte]
    PROVE  KeyFor(aes_key_expansion(k, nk, nr), nr)
<1> DEFINE L == Nb * (nr + 1)
           V == {w \in Seq(Word) : Len(w) >= nk}
           More(w) == Append(w, coef_add(w[Len(w) - nk + 1], Tmp(Last(w), Len(w), nk)))
           next == [w \in Seq(Word) |-> More(w)]
           start == [i \in 1 .. nk |-> [j \in Index |-> k[4 * (i - 1) + j + 1]]]
           step == [n \in Nat |-> [w \in V |-> next[w]]]
           m == L - nk
           Body(f) == [n \in nk .. L |-> IF n = nk THEN start ELSE next[f[n - 1]]]
           words[n \in nk .. L] ==
               IF n = nk THEN [i \in 1 .. nk |-> [j \in Index |-> k[4 * (i - 1) + j + 1]]]
               ELSE next[words[n - 1]]
<1>1. L \in Nat /\ m \in Nat /\ nk <= L
  BY DEF Nb
<1>2. start \in Seq(Word) /\ Len(start) = nk /\ start \in V
  <2>1. \A i \in 1 .. nk, j \in Index : 4 * (i - 1) + j + 1 \in 1 .. 4 * nk
    BY DEF Index, Nb
  <2>2. start \in [1 .. nk -> Word]
    BY <2>1 DEF Word
  <2>3. start \in Seq(Word) /\ Len(start) = nk
    <3> HIDE DEF start
    <3>1. QED
      BY <2>2
  <2> HIDE DEF start
  <2>4. QED
    BY <2>3
<1>3. ASSUME NEW w \in Seq(Word), Len(w) >= nk
      PROVE  next[w] \in Seq(Word) /\ Len(next[w]) = Len(w) + 1
  <2>1. Len(w) \in Nat /\ Len(w) - nk + 1 \in 1 .. Len(w) /\ Len(w) \in 1 .. Len(w)
    BY <1>3
  <2>2. w[Len(w) - nk + 1] \in Word /\ Last(w) \in Word
    BY <2>1 DEF Last
  <2>3. Tmp(Last(w), Len(w), nk) \in Word
    BY <1>3, <2>1, <2>2, TmpType
  <2>4. coef_add(w[Len(w) - nk + 1], Tmp(Last(w), Len(w), nk)) \in Word
    <3>1. \A u, v \in Word : coef_add(u, v) \in Word
      BY Added DEF coef_add, Word
    <3>2. QED
      BY <2>2, <2>3, <3>1
  <2>5. next[w] = More(w)
    OBVIOUS
  <2>6. More(w) \in Seq(Word) /\ Len(More(w)) = Len(w) + 1
    BY <2>4, AppendProperties
  <2> HIDE DEF next, More
  <2>7. QED
    BY <2>5, <2>6
<1> HIDE DEF next
<1>4. PICK f \in [0 .. m -> V] : Follows(f, m, start, step)
  <2>1. step \in [Nat -> [V -> V]]
    <3>1. \A w \in V : next[w] \in V
      BY <1>3
    <3> HIDE DEF V
    <3>2. QED
      BY <3>1
  <2> HIDE DEF start, step, m, V
  <2>2. QED
    BY <1>1, <1>2, <2>1, Recursion
<1>5. f[0] = start /\ \A n \in 1 .. m : f[n] = next[f[n - 1]]
  <2>1. ASSUME NEW n \in 1 .. m
        PROVE  f[n] = next[f[n - 1]]
    <3>1. f[n - 1] \in V /\ n \in Nat
      <4> HIDE DEF V, L, m
      <4>1. QED
        BY <1>1, <1>4
    <3>2. step[n][f[n - 1]] = next[f[n - 1]]
      <4> HIDE DEF V
      <4>1. QED
        BY <3>1
    <3> HIDE DEF step, start, V
    <3>3. QED
      BY <1>4, <3>2 DEF Follows
  <2> HIDE DEF step, start, V
  <2>2. QED
    BY <1>4, <2>1 DEF Follows
<1> DEFINE h == [n \in nk .. L |-> f[n - nk]]
<1>6. h = Body(h)
  <2>1. ASSUME NEW n \in nk .. L
        PROVE  f[n - nk] = IF n = nk THEN start ELSE next[h[n - 1]]
    <3>1. CASE n = nk
      <4>1. n - nk = 0
        BY <3>1
      <4> HIDE DEF start
      <4>2. QED
        BY <1>5, <3>1, <4>1
    <3>2. CASE n # nk
      <4>1. n - nk \in 1 .. m /\ n - 1 \in nk .. L /\ (n - 1) - nk = (n - nk) - 1
        BY <1>1, <3>2
      <4>2. h[n - 1] = f[(n - nk) - 1]
        <5> HIDE DEF L, m
        <5>1. QED
          BY <4>1
      <4> HIDE DEF h, m, start
      <4>3. QED
        BY <1>5, <3>2, <4>1, <4>2
    <3>3. QED
      BY <3>1, <3>2
  <2> HIDE DEF start, L
  <2>2. QED
    BY <2>1
<1>7. words = Body(words)
  <2>1. words = CHOOSE g : g = Body(g)
    OBVIOUS
  <2> HIDE DEF Body, words, h
  <2>2. QED
    BY <1>6, <2>1
<1> DEFINE P == {n \in Nat : nk + n <= L => words[nk + n] \in Seq(Word) /\ Len(words[nk + n]) = nk + n}
<1>8. 0 \in P
  <2>1. nk \in nk .. L /\ nk + 0 = nk
    BY <1>1
  <2>2. words[nk] = start
    <3> HIDE DEF words, start, L
    <3>1. QED
      BY <1>7, <2>1
  <2> HIDE DEF words, start, L
  <2>3. QED
    BY <1>2, <2>1, <2>2
<1>9. ASSUME NEW n \in Nat, n \in P
      PROVE  n + 1 \in P
  <2>1. SUFFICES ASSUME nk + (n + 1) <= L
                 PROVE  /\ words[nk + (n + 1)] \in Seq(Word)
                        /\ Len(words[nk + (n + 1)]) = nk + (n + 1)
    <3> HIDE DEF words, L
    <3>1. QED
      OBVIOUS
  <2>2. /\ nk + (n + 1) \in nk .. L /\ (nk + (n + 1)) - 1 = nk + n /\ nk + (n + 1) # nk
        /\ nk + n <= L /\ nk + n >= nk /\ (nk + n) + 1 = nk + (n + 1)
    <3> HIDE DEF L
    <3>1. QED
      BY <1>1, <2>1
  <2> HIDE DEF words, start, L
  <2>3. words[nk + (n + 1)] = next[words[nk + n]]
    BY <1>7, <2>2
  <2>4. words[nk + n] \in Seq(Word) /\ Len(words[nk + n]) = nk + n
    BY <1>9, <2>2
  <2>5. QED
    BY <1>3, <2>2, <2>3, <2>4
<1>10. words[L] \in Seq(Word) /\ Len(words[L]) = L
  <2>1. \A n \in Nat : n \in P
    <3> HIDE DEF P
    <3>1. QED
      BY <1>8, <1>9, Induction
  <2>2. L - nk \in Nat /\ nk + (L - nk) = L /\ nk + (L - nk) <= L
    <3> HIDE DEF L
    <3>1. QED
      BY <1>1
  <2> HIDE DEF words, L
  <2>3. QED
    BY <2>1, <2>2
<1>11. aes_key_expansion(k, nk, nr) = words[L]
  BY DEF aes_key_expansion, next
<1>12. words[L] \in [1 .. L -> Word]
  <2> HIDE DEF words, L
  <2>1. QED
    BY <1>10, LenProperties
<1>13. QED
  <2> HIDE DEF words
  <2>1. QED
    BY <1>11, <1>12 DEF KeyFor

-----------------------------------------------------------------------------
(* Blocks *)

\* What a slot leads to.
Block == [1 .. BlockPieces -> Piece]

\* Typed for a block, as it is recorded.
Told == {Text(b) : b \in Block} \cup {FlattenSeq(b) : b \in Block}

\* A block of a file whose encryption is e, as it is read.
ClearOf(e, block) == IF e THEN aes_decrypt(block) ELSE block

\* A block gives back the text that was typed for it, and nothing behind it if
\* that is shorter, unless it is that of an encrypted file and was typed whole.
Holds(e, block, text) ==
    \/ e /\ Len(text) = 16 * BlockPieces
    \/ /\ Text(ClearOf(e, block)) = text
       /\ Ended(ClearOf(e, block)) \/ Len(text) = 16 * BlockPieces

\* The key that is written out is expanded for the 14 rounds.
LEMMA ExpandedKey == Nr(32) = 14 /\ KeyFor(exp_key, 14)
<1>1. Nr(32) = 14 /\ Nk(32) = 8
  BY DEF Nr, Nk
<1>2. key \in [1 .. 4 * 8 -> Byte]
  <2>1. \A n : Bits(n) \in Byte
    BY DEF Bits, Byte
  <2>2. 4 * 8 = 32
    OBVIOUS
  <2>3. QED
    BY <2>1, <2>2 DEF key
<1>3. 8 <= Nb * (14 + 1)
  BY DEF Nb
<1>4. KeyFor(aes_key_expansion(key, 8, 14), 14)
  <2> DEFINE nk == 8
             nr == 14
  <2>1. nk \in Nat \ {0} /\ nr \in Nat /\ nk <= Nb * (nr + 1) /\ key \in [1 .. 4 * nk -> Byte]
    BY <1>2, <1>3
  <2> HIDE DEF nk, nr
  <2>2. KeyFor(aes_key_expansion(key, nk, nr), nr)
    BY <2>1, KeyExpanded
  <2>3. QED
    BY <2>2 DEF nk, nr
<1>5. QED
  BY <1>1, <1>4 DEF exp_key

\* Zero is a piece, and so are what is typed and padded.
LEMMA PiecesType ==
    /\ Zero \in Piece /\ Pieces \subseteq Piece /\ Tails \subseteq Piece
    /\ Pieces \subseteq Seq(Byte \ {{}}) /\ Piece \subseteq Seq(Byte)
    /\ \A p \in Piece : Len(p) = 16
<1>1. Zero \in Piece
  BY DEF Zero, Piece, Byte
<1>2. Pieces \subseteq Piece /\ Tails \subseteq Piece
  BY TypedAssumption DEF Piece
<1>3. ASSUME NEW C, NEW p \in [1 .. 16 -> C]
      PROVE  p \in Seq(C) /\ Len(p) = 16
  <2>1. 16 \in Nat
    OBVIOUS
  <2>2. p \in Seq(C)
    BY <2>1, SeqDef
  <2>3. DOMAIN p = 1 .. 16
    OBVIOUS
  <2>4. QED
    BY <2>1, <2>2, <2>3, LenProperties
<1>4. Pieces \subseteq Seq(Byte \ {{}}) /\ Piece \subseteq Seq(Byte) /\ \A p \in Piece : Len(p) = 16
  <2> DEFINE C == Byte \ {{}}
  <2>1. Pieces \subseteq [1 .. 16 -> C]
    BY TypedAssumption
  <2> HIDE DEF C
  <2>2. Pieces \subseteq Seq(C)
    BY <1>3, <2>1
  <2>3. QED
    BY <1>3, <2>2 DEF C, Piece
<1>5. QED
  BY <1>1, <1>2, <1>4

\* What the inverse cipher makes of a piece is a piece.
LEMMA InverseType ==
    ASSUME NEW p \in Piece
    PROVE  aes_inv_cipher(p, exp_key, Nr(32)) \in Piece
<1>1. PICK d : Backward(d, p, exp_key, 14) /\ aes_inv_cipher(p, exp_key, 14) = Store(d[14])
  BY ExpandedKey, InverseRounds
<1>2. d[14] \in State
  BY <1>1 DEF Backward
<1>3. QED
  BY <1>1, <1>2, LoadStore, ExpandedKey

\* What is encrypted is decrypted.
LEMMA BlockBack ==
    ASSUME BoxesInverse, NEW b \in Block
    PROVE  aes_encrypt(b) \in Block /\ aes_decrypt(aes_encrypt(b)) = b
<1> DEFINE w == exp_key
           c == [k \in 1 .. BlockPieces |-> aes_cipher(b[k], w, 14)]
<1>1. KeyFor(w, 14) /\ Nr(32) = 14
  BY ExpandedKey
<1> HIDE DEF w
<1>2. \A k \in 1 .. BlockPieces : b[k] \in Piece
  BY DEF Block
<1>3. \A k \in 1 .. BlockPieces :
          aes_cipher(b[k], w, 14) \in Piece /\ aes_inv_cipher(aes_cipher(b[k], w, 14), w, 14) = b[k]
  <2>1. 14 \in Nat \ {0}
    OBVIOUS
  <2>2. QED
    BY <1>1, <1>2, <2>1, CipherBack
<1>4. aes_encrypt(b) = c
  BY <1>1 DEF aes_encrypt, Block, w
<1>5. c \in Block
  BY <1>3 DEF Block
<1>6. aes_decrypt(c) = [k \in 1 .. BlockPieces |-> aes_inv_cipher(c[k], w, 14)]
  <2>1. DOMAIN c = 1 .. BlockPieces
    OBVIOUS
  <2> HIDE DEF c
  <2>2. QED
    BY <1>1, <2>1 DEF aes_decrypt, w
<1>7. aes_decrypt(c) = [k \in 1 .. BlockPieces |-> b[k]]
  BY <1>3, <1>6
<1>8. QED
  BY <1>4, <1>5, <1>7 DEF Block

\* Of pieces without a zero byte all is printed, 16 characters of each.
LEMMA WholeText ==
    ASSUME NEW s \in Seq(Pieces), Len(s) = BlockPieces
    PROVE  /\ s \in Block
           /\ Text(s) = FlattenSeq(s)
           /\ Len(FlattenSeq(s)) = 16 * BlockPieces
<1> DEFINE C == Byte \ {{}}
           N == BlockPieces
<1>1. N \in Nat \ {0}
  BY SizesAssumption
<1>2. \A k \in 1 .. N : s[k] \in Pieces /\ s[k] \in Piece /\ s[k] \in Seq(C) /\ Len(s[k]) = 16
  BY PiecesType
<1>3. s \in Block
  <2>1. s = [k \in 1 .. N |-> s[k]]
    OBVIOUS
  <2>2. QED
    BY <1>2, <2>1 DEF Block
<1>4. s \in Seq(Seq(C))
  <2>1. Pieces \subseteq Seq(C)
    BY PiecesType
  <2> HIDE DEF C
  <2>2. QED
    BY <2>1
<1> HIDE DEF C
<1>5. FlattenSeq(s) \in Seq(C)
  BY <1>4, FlattenType
<1>6. Text(s) = FlattenSeq(s)
  <2> DEFINE bytes == FlattenSeq(s)
             zeros == {n \in DOMAIN bytes : bytes[n] = {}}
  <2>1. \A n \in DOMAIN bytes : bytes[n] \in C
    <3> HIDE DEF bytes
    <3>1. bytes \in Seq(C)
      BY <1>5 DEF bytes
    <3>2. QED
      BY <3>1
  <2>2. zeros = {}
    <3>1. \A c \in C : c # {}
      BY DEF C
    <3> HIDE DEF bytes
    <3>2. QED
      BY <2>1, <3>1
  <2>3. Text(s) = IF zeros = {} THEN bytes ELSE SubSeq(bytes, 1, Min(zeros) - 1)
    BY DEF Text
  <2>4. QED
    BY <2>2, <2>3
<1>7. PICK f \in [1 .. Len(s) -> Seq(C)] : Joins(f, s) /\ FlattenSeq(s) = f[Len(s)]
  <2>1. Len(s) > 0
    BY <1>1
  <2> HIDE DEF N
  <2>2. QED
    BY ONLY <1>4, <2>1, FlattenRecursion
<1> DEFINE P == {n \in Nat : n + 1 \in 1 .. N => Len(f[n + 1]) = 16 * (n + 1)}
<1>8. 0 \in P
  BY <1>1, <1>2, <1>7 DEF Joins
<1>9. ASSUME NEW n \in Nat, n \in P
      PROVE  n + 1 \in P
  <2>1. SUFFICES ASSUME n + 2 \in 1 .. N
                 PROVE  Len(f[n + 2]) = 16 * (n + 2)
    OBVIOUS
  <2>2. n + 1 \in 1 .. N /\ n + 2 \in 2 .. Len(s) /\ (n + 2) - 1 = n + 1
    BY <1>1, <2>1
  <2>3. f[n + 2] = f[n + 1] \o s[n + 2]
    BY <1>7, <2>2 DEF Joins
  <2>4. f[n + 1] \in Seq(C) /\ s[n + 2] \in Seq(C) /\ Len(s[n + 2]) = 16
    BY <1>2, <1>7, <2>1, <2>2
  <2>5. Len(f[n + 2]) = Len(f[n + 1]) + 16
    <3>1. Len(f[n + 1] \o s[n + 2]) = Len(f[n + 1]) + Len(s[n + 2])
      BY ONLY <2>4, ConcatProperties
    <3>2. QED
      BY <2>3, <2>4, <3>1
  <2>6. Len(f[n + 1]) = 16 * (n + 1)
    BY <1>9, <2>2
  <2>7. QED
    BY <2>5, <2>6
<1>10. Len(FlattenSeq(s)) = 16 * N
  <2>1. \A n \in Nat : n \in P
    <3> HIDE DEF P
    <3>1. QED
      BY <1>8, <1>9, Induction
  <2>2. N - 1 \in Nat /\ (N - 1) + 1 = N /\ N \in 1 .. N
    BY <1>1
  <2>3. Len(f[N]) = 16 * N
    BY <2>1, <2>2
  <2>4. QED
    BY <1>7, <2>3
<1>11. QED
  BY <1>3, <1>6, <1>10

-----------------------------------------------------------------------------
(* Writing and reading *)

\* The types; the buffer never holds a whole block.
TypeOK ==
    /\ enc \in BOOLEAN /\ free \in Nat
    /\ mode \in {"menu", "typing", "shown", "crashed"}
    /\ blocks \in Seq(Block) /\ object \in Seq(Block) /\ typed \in Seq(Told)
    /\ block_index \in Nat \ {0}
    /\ data \in Seq(Pieces) /\ Len(data) < BlockPieces

\* Every block holds what was typed for it, the ones of s apart from skip, which
\* may be new.
AllHold(e, s, t, skip) ==
    /\ Len(t) = Len(s) \/ (Len(s) = skip /\ Len(t) = skip - 1)
    /\ \A n \in 1 .. Len(t) : n # skip => Holds(e, s[n], t[n])

\* The file as it is stored.
Stored == mode \in {"menu", "shown"} => AllHold(enc, blocks, typed, 0)

\* The copy of it while it is written.
Going == mode = "typing" => block_index \in 1 .. Len(object) /\ AllHold(enc, object, typed, block_index)

\* What read_file prints is what it has made of the stored blocks.
ReadOut ==
    mode = "shown" =>
        \E more \in [DOMAIN blocks -> Behind] :
            shown = [s \in DOMAIN blocks |-> Printed(ClearOf(enc, blocks[s]), more[s])]

\* The inductive invariant.
CInv == TypeOK /\ Stored /\ Going /\ ReadOut

\* One slot is given a value.
LEMMA WithSlotType ==
    ASSUME NEW S, NEW s \in Seq(S), NEW v \in S, NEW n \in 1 .. Len(s) + 1
    PROVE  /\ WithSlot(s, n, v) \in Seq(S)
           /\ Len(WithSlot(s, n, v)) = IF n <= Len(s) THEN Len(s) ELSE n
           /\ WithSlot(s, n, v)[n] = v
           /\ \A i \in 1 .. Len(s) : i # n => WithSlot(s, n, v)[i] = s[i]
<1>1. CASE n <= Len(s)
  <2>1. WithSlot(s, n, v) = [s EXCEPT ![n] = v]
    BY <1>1 DEF WithSlot
  <2>2. n \in 1 .. Len(s)
    BY <1>1
  <2>3. [s EXCEPT ![n] = v] \in Seq(S) /\ Len([s EXCEPT ![n] = v]) = Len(s)
    BY <2>2, ExceptSeq
  <2>4. QED
    BY <1>1, <2>1, <2>2, <2>3
<1>2. CASE ~(n <= Len(s))
  <2>1. WithSlot(s, n, v) = Append(s, v) /\ n = Len(s) + 1
    BY <1>2 DEF WithSlot
  <2>2. QED
    BY <1>2, <2>1, AppendProperties
<1>3. QED
  BY <1>1, <1>2

\* With one slot written, and its text recorded, all hold again.
LEMMA SlotWritten ==
    ASSUME NEW e, NEW s \in Seq(Block), NEW t \in Seq(Told), NEW n \in 1 .. Len(s),
           AllHold(e, s, t, n),
           NEW b \in Block, NEW x \in Told, Holds(e, b, x)
    PROVE  /\ [s EXCEPT ![n] = b] \in Seq(Block) /\ Len([s EXCEPT ![n] = b]) = Len(s)
           /\ WithSlot(t, n, x) \in Seq(Told)
           /\ AllHold(e, [s EXCEPT ![n] = b], WithSlot(t, n, x), 0)
           /\ Len(WithSlot(t, n, x)) = Len(s)
<1> DEFINE r == [s EXCEPT ![n] = b]
           u == WithSlot(t, n, x)
<1>1. r \in Seq(Block) /\ Len(r) = Len(s) /\ r[n] = b /\ \A i \in 1 .. Len(s) : i # n => r[i] = s[i]
  BY ExceptSeq
<1>2. Len(s) \in Nat /\ Len(t) \in Nat /\ n \in 1 .. Len(t) + 1
  BY DEF AllHold
<1>3. /\ u \in Seq(Told) /\ Len(u) = (IF n <= Len(t) THEN Len(t) ELSE n) /\ u[n] = x
      /\ \A i \in 1 .. Len(t) : i # n => u[i] = t[i]
  <2> HIDE DEF u
  <2>1. QED
    BY <1>2, WithSlotType DEF u
<1> HIDE DEF r, u
<1>4. Len(u) = Len(r)
  BY <1>1, <1>2, <1>3 DEF AllHold
<1>5. ASSUME NEW i \in 1 .. Len(u)
      PROVE  Holds(e, r[i], u[i])
  <2>1. CASE i = n
    BY <1>1, <1>3, <2>1
  <2>2. CASE i # n
    <3>1. i \in 1 .. Len(s) /\ i \in 1 .. Len(t)
      BY <1>1, <1>2, <1>3, <1>4, <1>5, <2>2 DEF AllHold
    <3>2. Holds(e, s[i], t[i])
      BY <2>2, <3>1 DEF AllHold
    <3>3. QED
      BY <1>1, <1>3, <2>2, <3>1, <3>2
  <2>3. QED
    BY <2>1, <2>2
<1>6. AllHold(e, r, u, 0)
  BY <1>4, <1>5 DEF AllHold
<1>7. QED
  BY <1>1, <1>3, <1>4, <1>6 DEF r, u

\* The next slot is begun with an empty block.
LEMMA SlotBegun ==
    ASSUME NEW e, NEW s \in Seq(Block), NEW t \in Seq(Told), AllHold(e, s, t, 0), Len(t) = Len(s),
           NEW n \in 1 .. Len(s) + 1, NEW b \in Block
    PROVE  /\ WithSlot(s, n, b) \in Seq(Block)
           /\ n \in 1 .. Len(WithSlot(s, n, b))
           /\ AllHold(e, WithSlot(s, n, b), t, n)
<1> DEFINE r == WithSlot(s, n, b)
<1>1. /\ r \in Seq(Block) /\ Len(r) = (IF n <= Len(s) THEN Len(s) ELSE n)
      /\ \A i \in 1 .. Len(s) : i # n => r[i] = s[i]
  <2> HIDE DEF r
  <2>1. QED
    BY WithSlotType DEF r
<1> HIDE DEF r
<1>2. Len(s) \in Nat
  OBVIOUS
<1>3. n \in 1 .. Len(r) /\ (Len(t) = Len(r) \/ (Len(r) = n /\ Len(t) = n - 1))
  BY <1>1, <1>2
<1>4. ASSUME NEW i \in 1 .. Len(t), i # n
      PROVE  Holds(e, r[i], t[i])
  <2>1. i # 0 /\ i \in 1 .. Len(s) /\ r[i] = s[i]
    BY <1>1, <1>4
  <2>2. QED
    BY <2>1 DEF AllHold
<1>5. AllHold(e, r, t, n)
  BY <1>3, <1>4 DEF AllHold
<1>6. QED
  BY <1>1, <1>3, <1>5 DEF r

\* Padding with zeros makes a block.
LEMMA PaddedType ==
    /\ \A s \in Seq(Piece) : Padded(s) \in Block
    /\ Padded(<<>>) \in Block
<1>1. ASSUME NEW s \in Seq(Piece)
      PROVE  Padded(s) \in Block
  <2>1. \A k \in 1 .. BlockPieces : k <= Len(s) => s[k] \in Piece
    BY SizesAssumption
  <2>2. QED
    BY <2>1, PiecesType DEF Padded, Block
<1>2. <<>> \in Seq(Piece)
  OBVIOUS
<1>3. QED
  BY <1>1, <1>2

\* What is stored of a block that was typed whole, and of a last one, holds it.
LEMMA WholeHolds ==
    ASSUME NEW e \in BOOLEAN, NEW s \in Seq(Pieces), Len(s) = BlockPieces
    PROVE  /\ (IF e THEN Spoil(s) ELSE s) \in Block /\ FlattenSeq(s) \in Told
           /\ Holds(e, IF e THEN Spoil(s) ELSE s, FlattenSeq(s))
<1>1. /\ s \in Block /\ Text(s) = FlattenSeq(s) /\ Len(FlattenSeq(s)) = 16 * BlockPieces
  BY WholeText
<1>2. Spoil(s) \in Block
  <2>1. aes_inv_cipher(Zero, exp_key, Nr(32)) \in Piece
    BY InverseType, PiecesType
  <2>2. QED
    BY <1>1, <2>1 DEF Spoil, Block
<1>3. FlattenSeq(s) \in Told
  BY <1>1 DEF Told
<1>4. CASE e
  BY <1>1, <1>2, <1>3, <1>4 DEF Holds
<1>5. CASE ~e
  <2>1. Text(ClearOf(e, s)) = FlattenSeq(s)
    BY <1>1, <1>5 DEF ClearOf
  <2>2. Holds(e, s, FlattenSeq(s))
    BY <2>1, <1>1 DEF Holds
  <2>3. QED
    BY <1>1, <1>3, <1>5, <2>2
<1>6. QED
  BY <1>4, <1>5

\* The last block, padded and encrypted as a whole, gives back what was typed, and
\* ends with it.
LEMMA LastHolds ==
    ASSUME BoxesInverse, NEW e \in BOOLEAN,
           NEW s \in Seq(Pieces), Len(s) < BlockPieces, NEW tail \in Tails,
           NEW b, b = Padded(Append(s, tail))
    PROVE  /\ (IF e THEN aes_encrypt(b) ELSE b) \in Block /\ Text(b) \in Told
           /\ Holds(e, IF e THEN aes_encrypt(b) ELSE b, Text(b))
<1> DEFINE c == IF e THEN aes_encrypt(b) ELSE b
           PT == Pieces \cup Tails
<1>1. Append(s, tail) \in Seq(PT) /\ PT \subseteq Piece
  <2>1. s \in Seq(PT)
    BY SeqMonotonic
  <2>2. PT \subseteq Piece
    BY PiecesType
  <2> HIDE DEF PT
  <2>3. tail \in PT
    BY DEF PT
  <2>4. QED
    BY <2>1, <2>2, <2>3, AppendProperties
<1>2. b \in Block
  <2> DEFINE a == Append(s, tail)
  <2>1. b = [k \in 1 .. BlockPieces |-> IF k <= Len(a) THEN a[k] ELSE Zero]
    BY DEF Padded
  <2> HIDE DEF a
  <2>2. Zero \in PT
    BY TypedAssumption
  <2>3. a \in Seq(PT)
    BY <1>1 DEF a
  <2> HIDE DEF PT
  <2>4. \A k \in 1 .. BlockPieces : k <= Len(a) => a[k] \in PT
    BY <2>3, SizesAssumption
  <2>5. \A k \in 1 .. BlockPieces : b[k] \in PT
    BY <2>1, <2>2, <2>4
  <2>6. QED
    BY <1>1, <2>1, <2>5 DEF Block
<1>5. Ended(b)
  <2> DEFINE n == Len(s) + 1
  <2>1. n \in 1 .. BlockPieces /\ n <= Len(Append(s, tail)) /\ Append(s, tail)[n] = tail
    BY SizesAssumption
  <2>2. b[n] = tail
    BY <2>1 DEF Padded
  <2>3. tail[16] = {} /\ 16 \in 1 .. 16 /\ n \in DOMAIN b
    BY <1>2, <2>1, TypedAssumption DEF Block
  <2> HIDE DEF n
  <2>4. QED
    BY <2>2, <2>3 DEF Ended
<1>3. Text(b) \in Told
  BY <1>2 DEF Told
<1>4. c \in Block /\ ClearOf(e, c) = b
  BY <1>2, BlockBack DEF ClearOf
<1> HIDE DEF c
<1>6. Holds(e, c, Text(b))
  BY <1>4, <1>5 DEF Holds
<1>7. QED
  BY <1>3, <1>4, <1>6 DEF c

\* It holds at the start.
LEMMA InitCInv == Init => CInv
<1> SUFFICES ASSUME Init
             PROVE  CInv
  OBVIOUS
<1>1. TypeOK
  <2>1. Len(data) < BlockPieces
    BY SizesAssumption DEF Init
  <2>2. QED
    BY <2>1, SizesAssumption DEF Init, TypeOK
<1>2. Stored /\ Going /\ ReadOut
  BY DEF Init, Stored, Going, ReadOut, AllHold
<1>3. QED
  BY <1>1, <1>2 DEF CInv

\* The file is closed with the blocks of obj.
LEMMA CloseCInv ==
    ASSUME TypeOK, NEW obj \in Seq(Block), typed' \in Seq(Told),
           AllHold(enc, obj, typed', 0), CloseFile(obj), enc' = enc, free' = free
    PROVE  CInv'
<1>1. TypeOK'
  BY SizesAssumption DEF TypeOK, CloseFile
<1>2. Stored' /\ Going' /\ ReadOut'
  BY DEF Stored, Going, ReadOut, CloseFile
<1>3. QED
  BY <1>1, <1>2 DEF CInv

\* Every step keeps it.
LEMMA NextCInv ==
    ASSUME BoxesInverse, CInv, [Next]_vars
    PROVE  CInv'
<1> USE DEF CInv
<1>1. ASSUME WriteFile
      PROVE  CInv'
  <2>1. mode = "menu" /\ mode' = "typing" /\ free > 0 /\ enc' = enc /\ typed' = typed /\ blocks' = blocks
        /\ free' = free - 1 /\ block_index' = 1 /\ data' = <<>> /\ object' = WithSlot(blocks, 1, Padded(<<>>))
    BY <1>1 DEF WriteFile, NewBlock
  <2>2. AllHold(enc, blocks, typed, 0) /\ blocks \in Seq(Block) /\ typed \in Seq(Told)
    BY <2>1 DEF Stored, TypeOK
  <2>3. Len(typed) = Len(blocks) /\ 1 \in 1 .. Len(blocks) + 1
    BY <2>2 DEF AllHold
  <2>4. /\ object' \in Seq(Block) /\ 1 \in 1 .. Len(object')
        /\ AllHold(enc, object', typed, 1)
    BY <2>1, <2>2, <2>3, PaddedType, SlotBegun
  <2>5. TypeOK'
    BY <2>1, <2>4, SizesAssumption DEF TypeOK
  <2>6. Stored' /\ Going' /\ ReadOut'
    BY <2>1, <2>4 DEF Stored, Going, ReadOut
  <2>7. QED
    BY <2>5, <2>6
<1>2. ASSUME NEW p \in Pieces, TypePiece(p)
      PROVE  CInv'
  <2>1. /\ mode = "typing" /\ mode' = mode /\ Len(data) + 1 < BlockPieces /\ data' = Append(data, p)
        /\ UNCHANGED <<enc, blocks, free, object, block_index, shown, typed>>
    BY <1>2 DEF TypePiece
  <2>2. TypeOK'
    BY <2>1, AppendProperties DEF TypeOK
  <2>3. Stored' /\ Going' /\ ReadOut'
    BY <2>1 DEF Stored, Going, ReadOut
  <2>4. QED
    BY <2>2, <2>3
<1>3. ASSUME NEW p \in Pieces, FillBlock(p)
      PROVE  CInv'
  <2> DEFINE whole == Append(data, p)
             written == [object EXCEPT ![block_index] = IF enc THEN Spoil(whole) ELSE whole]
  <2>1. mode = "typing" /\ Len(data) + 1 = BlockPieces /\ enc' = enc /\ shown' = shown
        /\ typed' = WithSlot(typed, block_index, FlattenSeq(whole))
    BY <1>3 DEF FillBlock
  <2>2. whole \in Seq(Pieces) /\ Len(whole) = BlockPieces
    BY <2>1, AppendProperties DEF TypeOK
  <2> HIDE DEF whole
  <2>3. /\ (IF enc THEN Spoil(whole) ELSE whole) \in Block /\ FlattenSeq(whole) \in Told
        /\ Holds(enc, IF enc THEN Spoil(whole) ELSE whole, FlattenSeq(whole))
    BY <2>2, WholeHolds DEF TypeOK
  <2>4. /\ block_index \in 1 .. Len(object) /\ AllHold(enc, object, typed, block_index)
        /\ object \in Seq(Block) /\ typed \in Seq(Told)
    BY <2>1 DEF Going, TypeOK
  <2>5. /\ written \in Seq(Block) /\ Len(written) = Len(object)
        /\ typed' \in Seq(Told) /\ AllHold(enc, written, typed', 0) /\ Len(typed') = Len(object)
    BY <2>1, <2>3, <2>4, SlotWritten
  <2>6. \/ CloseFile(written) /\ free' = free
        \/ /\ NewBlock(block_index + 1)
           /\ object' = WithSlot(written, block_index + 1, Padded(<<>>))
           /\ blocks' = blocks /\ mode' = mode
        \/ mode' = "crashed" /\ UNCHANGED <<blocks, free, object, block_index, data>>
    BY <1>3 DEF FillBlock, whole
  <2> HIDE DEF written
  <2>7. CASE CloseFile(written) /\ free' = free
    BY <2>1, <2>5, <2>7, CloseCInv
  <2>8. CASE /\ NewBlock(block_index + 1)
             /\ object' = WithSlot(written, block_index + 1, Padded(<<>>))
             /\ blocks' = blocks /\ mode' = mode
    <3>1. block_index + 1 \in 1 .. Len(written) + 1
      BY <2>4, <2>5
    <3>2. /\ object' \in Seq(Block) /\ block_index + 1 \in 1 .. Len(object')
          /\ AllHold(enc, object', typed', block_index + 1)
      BY <2>5, <2>8, <3>1, PaddedType, SlotBegun
    <3>3. TypeOK'
      BY <2>1, <2>5, <2>8, <3>2, SizesAssumption DEF TypeOK, NewBlock
    <3>4. Stored' /\ Going' /\ ReadOut'
      BY <2>1, <2>8, <3>2 DEF Stored, Going, ReadOut, NewBlock
    <3>5. QED
      BY <3>3, <3>4
  <2>9. CASE mode' = "crashed" /\ UNCHANGED <<blocks, free, object, block_index, data>>
    BY <2>1, <2>5, <2>9 DEF TypeOK, Stored, Going, ReadOut
  <2>10. QED
    BY <2>6, <2>7, <2>8, <2>9
<1>4. ASSUME NEW tail \in Tails, FinishWrite(tail)
      PROVE  CInv'
  <2> DEFINE block == Padded(Append(data, tail))
             written == [object EXCEPT ![block_index] = IF enc THEN aes_encrypt(block) ELSE block]
  <2>1. /\ mode = "typing" /\ CloseFile(written) /\ enc' = enc /\ free' = free
        /\ typed' = WithSlot(typed, block_index, Text(block))
    BY <1>4 DEF FinishWrite
  <2>2. /\ (IF enc THEN aes_encrypt(block) ELSE block) \in Block /\ Text(block) \in Told
        /\ Holds(enc, IF enc THEN aes_encrypt(block) ELSE block, Text(block))
    <3>1. block = Padded(Append(data, tail))
      OBVIOUS
    <3> HIDE DEF block
    <3>2. QED
      BY <3>1, LastHolds DEF TypeOK
  <2>3. /\ block_index \in 1 .. Len(object) /\ AllHold(enc, object, typed, block_index)
        /\ object \in Seq(Block) /\ typed \in Seq(Told)
    BY <2>1 DEF Going, TypeOK
  <2> HIDE DEF block
  <2>4. written \in Seq(Block) /\ typed' \in Seq(Told) /\ AllHold(enc, written, typed', 0)
    BY <2>1, <2>2, <2>3, SlotWritten
  <2> HIDE DEF written
  <2>5. QED
    BY <2>1, <2>4, CloseCInv
<1>5. ASSUME ReadFile
      PROVE  CInv'
  <2>1. /\ mode = "menu" /\ mode' = "shown" /\ UNCHANGED <<enc, blocks, free, object, block_index, data, typed>>
        /\ \E more \in [DOMAIN blocks -> Behind] :
              shown' = [s \in DOMAIN blocks |-> Printed(ClearOf(enc, blocks[s]), more[s])]
    BY <1>5 DEF ReadFile, Clear, ClearOf
  <2>2. QED
    BY <2>1 DEF TypeOK, Stored, Going, ReadOut
<1>6. ASSUME Return
      PROVE  CInv'
  BY <1>6 DEF Return, TypeOK, Stored, Going, ReadOut
<1>7. ASSUME UNCHANGED vars
      PROVE  CInv'
  BY <1>7 DEF vars, TypeOK, Stored, Going, ReadOut
<1>8. QED
  BY <1>1, <1>2, <1>3, <1>4, <1>5, <1>6, <1>7 DEF Next

\* What is stored and shown gives the property.
LEMMA CInvGives == CInv => ReadsBack
<1> SUFFICES ASSUME CInv
             PROVE  ReadsBack
  OBVIOUS
<1> USE DEF CInv
<1>1. blocks \in Seq(Block) /\ typed \in Seq(Told) /\ Len(blocks) \in Nat /\ Len(typed) \in Nat
      /\ DOMAIN blocks = 1 .. Len(blocks) /\ DOMAIN typed = 1 .. Len(typed)
  BY DEF TypeOK
<1>2. mode \in {"menu", "shown"} =>
          /\ DOMAIN blocks = DOMAIN typed
          /\ \A s \in DOMAIN blocks : Holds(enc, blocks[s], typed[s])
  <2>1. SUFFICES ASSUME AllHold(enc, blocks, typed, 0)
                 PROVE  /\ DOMAIN blocks = DOMAIN typed
                        /\ \A s \in DOMAIN blocks : Holds(enc, blocks[s], typed[s])
    BY DEF Stored
  <2>0. Len(typed) = Len(blocks) \/ (Len(blocks) = 0 /\ Len(typed) = 0 - 1)
    BY <2>1 DEF AllHold
  <2>1a. \A n \in Nat : n # 0 - 1
    OBVIOUS
  <2>1b. Len(typed) # 0 - 1
    BY <1>1, <2>1a
  <2>2. Len(typed) = Len(blocks)
    BY <2>0, <2>1b, Zenon
  <2>3. \A s \in 1 .. Len(typed) : s # 0 /\ Holds(enc, blocks[s], typed[s])
    BY <1>1, <2>1 DEF AllHold
  <2>4. QED
    BY <1>1, <2>2, <2>3
<1>3. QED
  <2> SUFFICES ASSUME mode = "shown"
               PROVE  /\ DOMAIN shown = DOMAIN typed
                      /\ \A s \in DOMAIN shown :
                            \/ shown[s] = typed[s]
                            \/ Whole(s) /\ \E more \in Behind : shown[s] = typed[s] \o more
                            \/ Whole(s) /\ enc
    BY DEF ReadsBack
  <2>1. PICK more \in [DOMAIN blocks -> Behind] :
           shown = [s \in DOMAIN blocks |-> Printed(ClearOf(enc, blocks[s]), more[s])]
    BY DEF ReadOut
  <2>2. /\ DOMAIN shown = DOMAIN blocks
        /\ \A s \in DOMAIN blocks : /\ more[s] \in Behind
                                     /\ shown[s] = Printed(ClearOf(enc, blocks[s]), more[s])
    BY <2>1
  <2>3. QED
    BY <1>2, <2>2 DEF Holds, Whole, Printed

\* Reading shows what was typed (read_file, write_file), whatever the size of a
\* block, the limits, the pieces typed and the memory behind a full block, except
\* what Spoil destroys; that the one box is the inverse of the other is taken
\* from the tables.
THEOREM ReadsWhatWasTyped ==
    ASSUME BoxesInverse
    PROVE  Spec => []ReadsBack
<1>1. Init => CInv
  BY InitCInv
<1>2. CInv /\ [Next]_vars => CInv'
  BY BoxesInverse, NextCInv
<1>3. CInv => ReadsBack
  BY CInvGives
<1>4. QED
  BY <1>1, <1>2, <1>3, PTL DEF Spec
=============================================================================
