--------------------------- MODULE RecursionProofs ---------------------------
(***************************************************************************)
(* Induction and recursion, for the proofs about Ui and Console: induction *)
(* over the numbers for sets, that a function defined by recursion obeys   *)
(* its definition, and what FlattenSeq joins.                              *)
(*                                                                         *)
(* Induction is had from the pigeonhole principle: the elements of a set P *)
(* up to some m outside it would map, one to one, to those but 0.          *)
(***************************************************************************)
EXTENDS Integers, Sequences, FiniteSets, SequencesExt, SequenceTheorems,
        FiniteSetTheorems, TLAPS

\* What holds 0, and with each number the next, holds all.
LEMMA Induction ==
    ASSUME NEW P, 0 \in P, \A n \in Nat : n \in P => n + 1 \in P
    PROVE  \A n \in Nat : n \in P
<1> SUFFICES ASSUME NEW m \in Nat, m \notin P
             PROVE  FALSE
  OBVIOUS
<1> DEFINE S == {n \in 0 .. m : n \in P}
           f == [n \in S |-> n + 1]
<1>1. IsFiniteSet(S)
  <2>1. IsFiniteSet(0 .. m)
    BY FS_Interval
  <2>2. S \in SUBSET (0 .. m)
    OBVIOUS
  <2>3. QED
    BY <2>1, <2>2, FS_Subset
<1>2. 0 \in S
  OBVIOUS
<1>3. /\ IsFiniteSet(S \ {0})
      /\ Cardinality(S \ {0}) = Cardinality(S) - 1
      /\ Cardinality(S) \in Nat
  BY <1>1, <1>2, FS_RemoveElement, FS_CardinalityType
<1>4. f \in [S -> S \ {0}]
  <2>1. \A n \in S : n + 1 \in S \ {0}
    <3> TAKE n \in S
    <3>1. n \in Nat /\ n <= m /\ n \in P
      OBVIOUS
    <3>2. n # m
      BY <3>1
    <3>3. n + 1 \in P
      BY <3>1
    <3>4. QED
      BY <3>1, <3>2, <3>3
  <2>2. QED
    BY <2>1
<1>5. \E x, y \in S : x # y /\ f[x] = f[y]
  <2> HIDE DEF f
  <2>1. Cardinality(S \ {0}) < Cardinality(S)
    BY <1>3
  <2>2. QED
    BY <1>1, <1>3, <1>4, <2>1, FS_PigeonHole
<1>6. QED
  BY <1>5

\* f follows a start: step[n][v] is what comes n-th, after v.
Follows(f, m, start, step) == f[0] = start /\ \A n \in 1 .. m : f[n] = step[n][f[n - 1]]

\* A start and a step define a function.
LEMMA Recursion ==
    ASSUME NEW V, NEW start \in V, NEW step \in [Nat -> [V -> V]], NEW m \in Nat
    PROVE  \E f \in [0 .. m -> V] : Follows(f, m, start, step)
<1> DEFINE Good(k, f) == f[0] = start /\ \A n \in 1 .. k : f[n] = step[n][f[n - 1]]
           P == {k \in Nat : \E f \in [0 .. k -> V] : Good(k, f)}
<1>1. 0 \in P
  <2>1. [n \in 0 .. 0 |-> start] \in [0 .. 0 -> V] /\ Good(0, [n \in 0 .. 0 |-> start])
    OBVIOUS
  <2>2. QED
    BY <2>1
<1>2. ASSUME NEW k \in Nat, k \in P
      PROVE  k + 1 \in P
  <2>1. PICK f \in [0 .. k -> V] : Good(k, f)
    BY <1>2
  <2> DEFINE g == [n \in 0 .. k + 1 |-> IF n = k + 1 THEN step[k + 1][f[k]] ELSE f[n]]
  <2>2. step[k + 1][f[k]] \in V
    <3>1. f[k] \in V
      OBVIOUS
    <3>2. step[k + 1] \in [V -> V]
      BY <3>1
    <3>3. QED
      BY <3>2
  <2>3. g \in [0 .. k + 1 -> V]
    BY <2>2
  <2>4. Good(k + 1, g)
    <3>1. g[0] = start
      BY <2>1
    <3>2. ASSUME NEW n \in 1 .. k + 1
          PROVE  g[n] = step[n][g[n - 1]]
      <4>1. g[n - 1] = f[n - 1]
        OBVIOUS
      <4>2. CASE n = k + 1
        BY <4>1, <4>2
      <4>3. CASE n # k + 1
        <5>1. n \in 1 .. k
          BY <4>3
        <5>2. g[n] = f[n]
          BY <5>1
        <5>3. QED
          BY <5>1, <5>2, <4>1, <2>1
      <4>4. QED
        BY <4>2, <4>3
    <3>3. QED
      BY <3>1, <3>2
  <2>5. \E h \in [0 .. k + 1 -> V] : Good(k + 1, h)
    <3> HIDE DEF g, Good
    <3>1. QED
      BY <2>3, <2>4
  <2>6. QED
    <3> HIDE DEF Good
    <3>1. k + 1 \in Nat
      OBVIOUS
    <3>2. QED
      BY <2>5, <3>1
<1>3. \A k \in Nat : k \in P
  <2> HIDE DEF P
  <2>1. QED
    BY <1>1, <1>2, Induction
<1>4. m \in P
  BY <1>3
<1>5. QED
  BY <1>4 DEF Follows

\* f and g start alike, and go on alike where they were alike before.
Alike(f, g, m) ==
    /\ f = [n \in 0 .. m |-> f[n]] /\ g = [n \in 0 .. m |-> g[n]]
    /\ f[0] = g[0]
    /\ \A n \in 1 .. m : f[n - 1] = g[n - 1] => f[n] = g[n]

\* Such functions are the same.
LEMMA Agreement ==
    ASSUME NEW m \in Nat, NEW f, NEW g, Alike(f, g, m)
    PROVE  f = g
<1> DEFINE P == {n \in Nat : n \in 0 .. m => f[n] = g[n]}
<1>1. 0 \in P
  BY DEF Alike
<1>2. ASSUME NEW n \in Nat, n \in P
      PROVE  n + 1 \in P
  <2>1. SUFFICES ASSUME n + 1 \in 0 .. m
                 PROVE  f[n + 1] = g[n + 1]
    OBVIOUS
  <2>2. n + 1 \in 1 .. m /\ (n + 1) - 1 = n /\ n \in 0 .. m
    BY <2>1
  <2>3. f[n] = g[n]
    BY <1>2, <2>2
  <2>4. QED
    BY <2>2, <2>3 DEF Alike
<1>3. \A n \in Nat : n \in P
  <2> HIDE DEF P
  <2>1. QED
    BY <1>1, <1>2, Induction
<1>4. \A n \in 0 .. m : f[n] = g[n]
  BY <1>3
<1>5. [n \in 0 .. m |-> f[n]] = [n \in 0 .. m |-> g[n]]
  BY <1>4
<1>6. QED
  BY <1>5 DEF Alike

-----------------------------------------------------------------------------
(* What FlattenSeq joins *)

\* f holds what the first entries of s are when joined.
Joins(f, s) ==
    /\ f[1] = s[1]
    /\ \A n \in 2 .. Len(s) : f[n] = f[n - 1] \o s[n]

\* The recursion of FlattenSeq has such a function.
LEMMA FlattenRecursion ==
    ASSUME NEW S, NEW s \in Seq(Seq(S)), Len(s) > 0
    PROVE  \E f \in [1 .. Len(s) -> Seq(S)] : Joins(f, s) /\ FlattenSeq(s) = f[Len(s)]
<1> DEFINE step == [n \in Nat |-> [v \in Seq(S) |->
                      IF n + 1 \in 1 .. Len(s) THEN v \o s[n + 1] ELSE v]]
           Body(f) == [i \in 1 .. Len(s) |-> IF i = 1 THEN s[i] ELSE f[i - 1] \o s[i]]
           flatten[i \in 1 .. Len(s)] == IF i = 1 THEN s[i] ELSE flatten[i - 1] \o s[i]
<1>1. /\ Len(s) \in Nat \ {0}
      /\ \A n \in 1 .. Len(s) : s[n] \in Seq(S)
  OBVIOUS
<1>2. \E f \in [1 .. Len(s) -> Seq(S)] : Joins(f, s)
  <2>1. step \in [Nat -> [Seq(S) -> Seq(S)]]
    <3>1. ASSUME NEW n \in Nat, NEW v \in Seq(S), n + 1 \in 1 .. Len(s)
          PROVE  v \o s[n + 1] \in Seq(S)
      BY <1>1, <3>1, ConcatProperties
    <3>2. QED
      BY <3>1
  <2>2. PICK g \in [0 .. Len(s) - 1 -> Seq(S)] :
           g[0] = s[1] /\ \A n \in 1 .. Len(s) - 1 : g[n] = step[n][g[n - 1]]
    <3> DEFINE V == Seq(S)
               m == Len(s) - 1
               start == s[1]
    <3>1. start \in V /\ m \in Nat /\ step \in [Nat -> [V -> V]]
      BY <1>1, <2>1
    <3> HIDE DEF step, V, m, start
    <3>2. \E g \in [0 .. m -> V] : Follows(g, m, start, step)
      BY <3>1, Recursion
    <3>3. QED
      BY <3>2 DEF V, m, start, Follows
  <2> DEFINE f == [n \in 1 .. Len(s) |-> g[n - 1]]
  <2>3. f \in [1 .. Len(s) -> Seq(S)]
    BY <1>1, <2>2
  <2>4. f[1] = s[1]
    BY <1>1, <2>2
  <2>5. ASSUME NEW n \in 2 .. Len(s)
        PROVE  f[n] = f[n - 1] \o s[n]
    <3>1. n - 1 \in 1 .. Len(s) - 1 /\ n - 1 \in Nat /\ (n - 1) + 1 = n /\ n \in 1 .. Len(s)
      BY <1>1
    <3>2. g[n - 2] \in Seq(S) /\ f[n - 1] = g[n - 2] /\ f[n] = g[n - 1] /\ (n - 1) - 1 = n - 2
      <4>1. n - 2 \in 0 .. Len(s) - 1 /\ n - 1 \in 1 .. Len(s) /\ (n - 1) - 1 = n - 2
        BY <1>1
      <4>2. QED
        BY <4>1, <3>1, <2>2
    <3>3. g[n - 1] = step[n - 1][g[n - 2]]
      <4> HIDE DEF step
      <4>1. QED
        BY <2>2, <3>1, <3>2
    <3>4. step[n - 1][g[n - 2]] = g[n - 2] \o s[n]
      BY <3>1, <3>2
    <3>5. QED
      BY <3>2, <3>3, <3>4
  <2>6. QED
    <3> HIDE DEF f
    <3>1. QED
      BY <2>3, <2>4, <2>5 DEF Joins
<1>3. ASSUME NEW f \in [1 .. Len(s) -> Seq(S)], Joins(f, s)
      PROVE  f = Body(f)
  <2>1. ASSUME NEW i \in 1 .. Len(s)
        PROVE  f[i] = IF i = 1 THEN s[i] ELSE f[i - 1] \o s[i]
    <3>1. i = 1 \/ i \in 2 .. Len(s)
      BY <1>1
    <3>2. QED
      BY <3>1, <1>3 DEF Joins
  <2>2. QED
    BY <2>1
<1>4. PICK f \in [1 .. Len(s) -> Seq(S)] : Joins(f, s)
  BY <1>2
<1>5. ASSUME NEW g, g = Body(g)
      PROVE  g = f
  <2> DEFINE P == {n \in Nat : n + 1 \in 1 .. Len(s) => g[n + 1] = f[n + 1]}
  <2>0. \A i \in 1 .. Len(s) : g[i] = IF i = 1 THEN s[i] ELSE g[i - 1] \o s[i]
    BY <1>5
  <2>1. 0 \in P
    BY <1>1, <1>4, <2>0 DEF Joins
  <2>2. ASSUME NEW n \in Nat, n \in P
        PROVE  n + 1 \in P
    <3>1. SUFFICES ASSUME n + 2 \in 1 .. Len(s)
                   PROVE  g[n + 2] = f[n + 2]
      OBVIOUS
    <3>2. n + 1 \in 1 .. Len(s) /\ n + 2 \in 2 .. Len(s) /\ (n + 2) - 1 = n + 1 /\ n + 2 # 1
      BY <1>1, <3>1
    <3>3. g[n + 2] = g[n + 1] \o s[n + 2]
      BY <2>0, <3>1, <3>2
    <3>4. f[n + 2] = f[n + 1] \o s[n + 2]
      BY <1>4, <3>2 DEF Joins
    <3>5. g[n + 1] = f[n + 1]
      BY <2>2, <3>2
    <3>6. QED
      BY <3>3, <3>4, <3>5
  <2>3. \A n \in Nat : n \in P
    <3> HIDE DEF P
    <3>1. QED
      BY <2>1, <2>2, Induction
  <2>4. ASSUME NEW i \in 1 .. Len(s)
        PROVE  g[i] = f[i]
    <3>1. i - 1 \in Nat /\ (i - 1) + 1 = i
      BY <1>1
    <3>2. QED
      BY <2>3, <3>1
  <2>5. DOMAIN g = 1 .. Len(s) /\ g = [i \in 1 .. Len(s) |-> g[i]]
    BY <1>5
  <2>6. f = [i \in 1 .. Len(s) |-> f[i]]
    BY <1>4
  <2>7. QED
    BY <2>4, <2>5, <2>6
<1>6. flatten = f
  <2>1. f = Body(f)
    BY <1>3, <1>4
  <2>2. flatten = CHOOSE g : g = Body(g)
    OBVIOUS
  <2> HIDE DEF Body, flatten
  <2>3. QED
    BY <1>5, <2>1, <2>2
<1>7. FlattenSeq(s) = flatten[Len(s)]
  BY <1>1 DEF FlattenSeq
<1>8. QED
  BY <1>4, <1>6, <1>7

\* Sequences of elements of S are joined to one.
LEMMA FlattenType ==
    ASSUME NEW S, NEW s \in Seq(Seq(S))
    PROVE  FlattenSeq(s) \in Seq(S) /\ (s = <<>> => FlattenSeq(s) = <<>>)
<1>1. CASE Len(s) = 0
  <2>1. s = <<>> /\ FlattenSeq(s) = s
    BY <1>1 DEF FlattenSeq
  <2>2. FlattenSeq(s) = <<>>
    BY ONLY <2>1
  <2>3. QED
    BY ONLY <2>2, EmptySeq
<1>2. CASE Len(s) > 0
  <2>1. PICK f \in [1 .. Len(s) -> Seq(S)] : FlattenSeq(s) = f[Len(s)]
    BY <1>2, FlattenRecursion
  <2>2. s # <<>> /\ Len(s) \in 1 .. Len(s)
    BY <1>2
  <2>3. QED
    BY <2>1, <2>2
<1>3. Len(s) = 0 \/ Len(s) > 0
  OBVIOUS
<1>4. QED
  BY <1>1, <1>2, <1>3

\* One sequence more is joined at the end.
LEMMA FlattenAppend ==
    ASSUME NEW S, NEW s \in Seq(Seq(S)), NEW x \in Seq(S)
    PROVE  FlattenSeq(Append(s, x)) = FlattenSeq(s) \o x
<1> DEFINE t == Append(s, x)
           m == Len(s)
<1>1. /\ t \in Seq(Seq(S)) /\ Len(t) = m + 1 /\ t[m + 1] = x /\ m \in Nat
      /\ \A n \in 1 .. m : t[n] = s[n]
  BY AppendProperties, LenProperties
<1>2. PICK g \in [1 .. Len(t) -> Seq(S)] : Joins(g, t) /\ FlattenSeq(t) = g[Len(t)]
  <2>1. Len(t) > 0
    BY <1>1
  <2> HIDE DEF t, m
  <2>2. QED
    BY <1>1, <2>1, FlattenRecursion
<1>3. CASE m = 0
  <2>1. s = <<>>
    BY <1>3
  <2>2. FlattenSeq(t) = x
    BY <1>1, <1>2, <1>3 DEF Joins
  <2>3. FlattenSeq(s) \o x = x
    BY <2>1, FlattenType, ConcatEmptySeq
  <2>4. QED
    BY <2>2, <2>3
<1>4. CASE m > 0
  <2>1. PICK f \in [1 .. m -> Seq(S)] : Joins(f, s) /\ FlattenSeq(s) = f[m]
    BY <1>4, FlattenRecursion
  <2> DEFINE P == {n \in Nat : n + 1 \in 1 .. m => g[n + 1] = f[n + 1]}
  <2>2. 0 \in P
    BY <1>1, <1>2, <1>4, <2>1 DEF Joins
  <2>3. ASSUME NEW n \in Nat, n \in P
        PROVE  n + 1 \in P
    <3>1. SUFFICES ASSUME n + 2 \in 1 .. m
                   PROVE  g[n + 2] = f[n + 2]
      OBVIOUS
    <3>2. n + 1 \in 1 .. m /\ n + 2 \in 2 .. m /\ (n + 2) - 1 = n + 1 /\ n + 2 \in 2 .. Len(t)
      BY <1>1, <3>1
    <3>3. g[n + 2] = g[n + 1] \o t[n + 2]
      BY <1>2, <3>2 DEF Joins
    <3>4. f[n + 2] = f[n + 1] \o s[n + 2]
      BY <2>1, <3>2 DEF Joins
    <3>5. g[n + 1] = f[n + 1]
      BY <2>3, <3>2
    <3>6. t[n + 2] = s[n + 2]
      BY <1>1, <3>1
    <3>7. QED
      BY <3>3, <3>4, <3>5, <3>6
  <2>4. \A n \in Nat : n \in P
    <3> HIDE DEF P
    <3>1. QED
      BY <2>2, <2>3, Induction
  <2>5. g[m] = f[m]
    <3>1. m - 1 \in Nat /\ (m - 1) + 1 = m /\ m \in 1 .. m
      BY <1>1, <1>4
    <3>2. QED
      BY <2>4, <3>1
  <2>6. g[m + 1] = g[m] \o x
    <3>1. m + 1 \in 2 .. Len(t) /\ (m + 1) - 1 = m
      BY <1>1, <1>4
    <3>2. QED
      BY <1>1, <1>2, <3>1 DEF Joins
  <2>7. QED
    BY <1>1, <1>2, <2>1, <2>5, <2>6
<1>5. QED
  BY <1>1, <1>3, <1>4
=============================================================================
