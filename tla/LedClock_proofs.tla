---------------------------- MODULE LedClock_proofs ----------------------------
(***************************************************************************)
(* The LED core: the fraction of a beat that scale8 computes, the clock    *)
(* that is built on it, and the range of what the LED programs make of it. *)
(*                                                                         *)
(* scale8 is a loop over the bits of its result, here a recursive function *)
(* of the bit.  IntervalInduction, which has a set where the library's     *)
(* theorems have a predicate, is what its invariants are proved with.      *)
(***************************************************************************)
EXTENDS LedClock, Patterns, FiniteSetTheorems, TLAPS

(***************************************************************************)
(* Induction on a finite interval, and powers of two.                      *)
(***************************************************************************)

LEMMA IntervalInduction ==
  ASSUME NEW n \in Nat, NEW S, S \subseteq 0 .. n, 0 \in S,
         \A i \in 0 .. n - 1 : i \in S => i + 1 \in S
  PROVE  S = 0 .. n
<1> DEFINE Miss == {0 .. i : i \in (0 .. n) \ S}
<1> SUFFICES ASSUME Miss # {} PROVE FALSE OBVIOUS
<1>1. IsFiniteSet(0 .. n) BY FS_Interval
<1>2. FiniteSubsetsOf(0 .. n) = SUBSET (0 .. n) BY <1>1, FS_FiniteSubsetsOfFinite
<1>3. IsWellFoundedOn(StrictSubsetOrdering(0 .. n), SUBSET (0 .. n))
  BY <1>2, FS_StrictSubsetOrderingWellFounded
<1>4. Miss \subseteq SUBSET (0 .. n)
  <2> SUFFICES ASSUME NEW i \in (0 .. n) \ S PROVE 0 .. i \subseteq 0 .. n OBVIOUS
  <2> QED OBVIOUS
<1>5. \E x \in Miss : \A y \in Miss : ~ (<<y, x>> \in StrictSubsetOrdering(0 .. n))
  <2> HIDE DEF Miss
  <2> QED BY <1>3, <1>4, WFMin
<1>6. PICK m \in (0 .. n) \ S :
        \A y \in Miss : ~ (<<y, 0 .. m>> \in StrictSubsetOrdering(0 .. n))
  BY <1>5
<1>7. m # 0 /\ m - 1 \in 0 .. n - 1 OBVIOUS
<1>8. m - 1 \in S
  <2> SUFFICES ASSUME m - 1 \notin S PROVE FALSE OBVIOUS
  <2>1. 0 .. m - 1 \in Miss BY <1>7
  <2>2. 0 .. m - 1 \subseteq 0 .. m /\ m \in 0 .. m /\ m \notin 0 .. m - 1 BY <1>7
  <2>3. 0 .. m \subseteq 0 .. n /\ 0 .. m - 1 \subseteq 0 .. n BY <1>7
  <2>4. <<0 .. m - 1, 0 .. m>> \in StrictSubsetOrdering(0 .. n)
    BY <2>2, <2>3 DEF StrictSubsetOrdering
  <2> QED BY <1>6, <2>1, <2>4
<1>9. (m - 1) + 1 = m BY <1>7
<1> QED BY <1>6, <1>7, <1>8, <1>9

\* A power of two counts the subsets of an interval: those without the last
\* element are as many as those with it.
LEMMA PowerOfTwo ==
  ASSUME NEW k \in Nat
  PROVE  2 ^ k \in Nat /\ 2 ^ k > 0 /\ 2 ^ (k + 1) = 2 * 2 ^ k
<1> DEFINE A == SUBSET (1 .. k)
           B == {T \cup {k + 1} : T \in A}
           f == [T \in A |-> T \cup {k + 1}]
<1>1. /\ IsFiniteSet(1 .. k) /\ Cardinality(1 .. k) = k
      /\ IsFiniteSet(1 .. k + 1) /\ Cardinality(1 .. k + 1) = k + 1
  BY FS_Interval
<1>2. IsFiniteSet(A) /\ Cardinality(A) = 2 ^ k BY <1>1, FS_SUBSET
<1>3. Cardinality(SUBSET (1 .. k + 1)) = 2 ^ (k + 1) BY <1>1, FS_SUBSET
<1>4. Cardinality(A) \in Nat /\ Cardinality(A) > 0
  <2>1. A # {} /\ Cardinality(A) \in Nat BY <1>2, FS_CardinalityType
  <2>2. Cardinality(A) # 0 BY <1>2, <2>1, FS_EmptySet
  <2> QED BY <2>1, <2>2
<1>5. SUBSET (1 .. k + 1) = A \cup B
  <2>1. 1 .. k + 1 = (1 .. k) \cup {k + 1} OBVIOUS
  <2>2. ASSUME NEW T \in SUBSET (1 .. k + 1), k + 1 \in T PROVE T \in B
    <3>1. T \ {k + 1} \in A BY <2>1
    <3>2. T = (T \ {k + 1}) \cup {k + 1} BY <2>2
    <3> QED BY <3>1, <3>2
  <2>3. ASSUME NEW T \in SUBSET (1 .. k + 1), k + 1 \notin T PROVE T \in A
    BY <2>1, <2>3
  <2>4. A \subseteq SUBSET (1 .. k + 1) BY <2>1
  <2>5. B \subseteq SUBSET (1 .. k + 1)
    <3> SUFFICES ASSUME NEW T \in A PROVE T \cup {k + 1} \in SUBSET (1 .. k + 1) OBVIOUS
    <3> QED BY <2>1
  <2>6. \A T \in SUBSET (1 .. k + 1) : T \in A \cup B
    <3> HIDE DEF A, B
    <3> QED BY <2>2, <2>3
  <2> HIDE DEF A, B
  <2> QED BY <2>4, <2>5, <2>6
<1>6. \A T \in A : k + 1 \notin T
  <2>1. k + 1 \notin 1 .. k OBVIOUS
  <2> QED BY <2>1
<1>7. A \cap B = {} BY <1>6
<1>8. f \in Bijection(A, B)
  <2>1. f \in [A -> B] OBVIOUS
  <2>2. ASSUME NEW S \in A, NEW T \in A, f[S] = f[T] PROVE S = T
    <3>1. S = (S \cup {k + 1}) \ {k + 1} /\ T = (T \cup {k + 1}) \ {k + 1} BY <1>6
    <3> QED BY <2>2, <3>1
  <2>3. \A y \in B : \E T \in A : f[T] = y OBVIOUS
  <2> HIDE DEF f, A, B
  <2> QED BY <2>1, <2>2, <2>3 DEF Bijection, Injection, Surjection, IsInjective
<1>9. IsFiniteSet(B) /\ Cardinality(B) = Cardinality(A)
  <2>1. ExistsBijection(A, B) BY <1>8 DEF ExistsBijection
  <2> QED BY <1>2, <2>1, FS_Bijection
<1>10. Cardinality(A \cup B) = Cardinality(A) + Cardinality(B)
  <2>1. Cardinality(A \cap B) = 0 BY <1>7, FS_EmptySet
  <2> HIDE DEF A, B
  <2>2. Cardinality(A \cup B) = Cardinality(A) + Cardinality(B) - Cardinality(A \cap B)
    BY <1>2, <1>9, FS_Union
  <2> QED BY <1>4, <1>9, <2>1, <2>2
<1>11. 2 ^ (k + 1) = Cardinality(A) + Cardinality(A)
  BY <1>3, <1>5, <1>9, <1>10
<1> HIDE DEF A, B
<1> QED BY <1>2, <1>4, <1>11

-------------------------------------------------------------------------------
(***************************************************************************)
(* scale8 as a run of its loop.                                            *)
(***************************************************************************)

Whole == 2 ^ BITS

LEMMA Weights ==
  /\ Whole \in Nat /\ Whole > 0
  /\ Weight(0) = Whole /\ Weight(BITS) = 1
  /\ \A i \in 0 .. BITS : Weight(i) \in Nat /\ Weight(i) > 0
  /\ \A i \in 0 .. BITS - 1 : Weight(i) = 2 * Weight(i + 1)
<1>1. BITS \in Nat BY BitsAssumption
<1>2. ASSUME NEW i \in 0 .. BITS PROVE Weight(i) \in Nat /\ Weight(i) > 0
  <2>1. BITS - i \in Nat BY <1>1
  <2> QED BY <2>1, PowerOfTwo DEF Weight
<1>3. ASSUME NEW i \in 0 .. BITS - 1 PROVE Weight(i) = 2 * Weight(i + 1)
  <2>1. BITS - (i + 1) \in Nat /\ (BITS - (i + 1)) + 1 = BITS - i BY <1>1
  <2> QED BY <2>1, PowerOfTwo DEF Weight
<1>4. BITS - 0 = BITS /\ BITS - BITS = 0 /\ 2 ^ 0 = 1 BY <1>1
<1> QED BY <1>1, <1>2, <1>3, <1>4, PowerOfTwo DEF Whole, Weight

\* The range is halved as often as the weight has doublings left.
LEMMA WeightTimesPower ==
  ASSUME NEW i \in 0 .. BITS
  PROVE  Weight(i) * 2 ^ i = Whole /\ 2 ^ i \in Nat /\ 2 ^ i > 0
<1> DEFINE S == {j \in 0 .. BITS : Weight(j) * 2 ^ j = Whole}
<1>1. BITS \in Nat BY BitsAssumption
<1>2. 0 \in S
  <2>1. 2 ^ 0 = 1 /\ Weight(0) = Whole /\ Whole \in Nat BY Weights
  <2> QED BY <1>1, <2>1
<1>3. ASSUME NEW j \in 0 .. BITS - 1, j \in S PROVE j + 1 \in S
  <2>1. Weight(j) * 2 ^ j = Whole BY <1>3
  <2>2. Weight(j) = 2 * Weight(j + 1) BY Weights
  <2>3. j \in Nat /\ j + 1 \in 0 .. BITS BY <1>1
  <2>4. 2 ^ j \in Nat /\ 2 ^ (j + 1) = 2 * 2 ^ j BY <2>3, PowerOfTwo
  <2>5. Weight(j + 1) \in Nat BY <2>3, Weights
  <2>6. \A a, b \in Nat : (2 * a) * b = a * (2 * b) OBVIOUS
  <2>7. Weight(j + 1) * 2 ^ (j + 1) = Whole BY <2>1, <2>2, <2>4, <2>5, <2>6
  <2> QED BY <2>3, <2>7
<1>4. S = 0 .. BITS
  <2>1. S \subseteq 0 .. BITS OBVIOUS
  <2> HIDE DEF S
  <2> QED BY <1>1, <1>2, <1>3, <2>1, IntervalInduction
<1>5. i \in Nat BY <1>1
<1> QED BY <1>4, <1>5, PowerOfTwo

\* One turn of the loop.
Turn(s, i, range) ==
  IF Reaches(s.left, range \div 2 ^ i)
  THEN [left |-> s.left - range \div 2 ^ i, result |-> (s.result + Weight(i)) % 2 ^ BITS]
  ELSE s

Turns(f, n, value, range) ==
  f = [i \in 0 .. n |-> IF i = 0 THEN [left |-> value, result |-> 0]
                        ELSE Turn(f[i - 1], i, range)]

Loop(value, range) == CHOOSE f : Turns(f, BITS, value, range)

LEMMA Scale8IsLoop ==
  ASSUME NEW value, NEW range
  PROVE  scale8(value, range) = CASE range = 0 -> 0
                                  [] range > 0 /\ value >= range -> Full
                                  [] OTHER -> Loop(value, range)[BITS].result
BY DEF scale8, Loop, Turns, Turn

\* The recursive function exists, and so it is what its equations say.
LEMMA LoopTurns ==
  ASSUME NEW value, NEW range
  PROVE  /\ Loop(value, range)[0] = [left |-> value, result |-> 0]
         /\ \A i \in 0 .. BITS - 1 :
              Loop(value, range)[i + 1] = Turn(Loop(value, range)[i], i + 1, range)
<1> DEFINE S == {n \in 0 .. BITS : \E f : Turns(f, n, value, range)}
<1>1. BITS \in Nat BY BitsAssumption
<1>2. 0 \in S
  <2> DEFINE f == [i \in 0 .. 0 |-> [left |-> value, result |-> 0]]
  <2>1. Turns(f, 0, value, range) BY DEF Turns
  <2> QED BY <1>1, <2>1
<1>3. ASSUME NEW n \in 0 .. BITS - 1, n \in S PROVE n + 1 \in S
  <2>1. PICK f : Turns(f, n, value, range) BY <1>3
  <2> DEFINE g == [i \in 0 .. n + 1 |-> IF i = n + 1 THEN Turn(f[n], n + 1, range) ELSE f[i]]
  <2>2. ASSUME NEW i \in 0 .. n + 1
        PROVE g[i] = IF i = 0 THEN [left |-> value, result |-> 0] ELSE Turn(g[i - 1], i, range)
    <3>1. CASE i = n + 1
      <4>1. g[i] = Turn(f[n], n + 1, range) /\ i # 0 BY <3>1
      <4>2. i - 1 = n /\ n \in 0 .. n + 1 /\ n # n + 1 BY <3>1
      <4>3. g[i - 1] = f[n] BY <4>2
      <4> QED BY <3>1, <4>1, <4>3
    <3>2. CASE i # n + 1
      <4>1. i \in 0 .. n /\ g[i] = f[i] BY <3>2
      <4>2. f[i] = IF i = 0 THEN [left |-> value, result |-> 0] ELSE Turn(f[i - 1], i, range)
        BY <2>1, <4>1 DEF Turns
      <4>3. i # 0 => g[i - 1] = f[i - 1] BY <4>1
      <4> QED BY <4>1, <4>2, <4>3
    <3> QED BY <3>1, <3>2
  <2>3. Turns(g, n + 1, value, range)
    <3>1. g = [i \in 0 .. n + 1 |-> g[i]] OBVIOUS
    <3> HIDE DEF g
    <3>2. [i \in 0 .. n + 1 |-> g[i]]
            = [i \in 0 .. n + 1 |-> IF i = 0 THEN [left |-> value, result |-> 0]
                                    ELSE Turn(g[i - 1], i, range)]
      BY <2>2
    <3> QED BY <3>1, <3>2 DEF Turns
  <2>4. n + 1 \in 0 .. BITS BY <1>1
  <2> HIDE DEF g
  <2> QED BY <2>3, <2>4
<1>4. S = 0 .. BITS
  <2>1. S \subseteq 0 .. BITS OBVIOUS
  <2> HIDE DEF S
  <2> QED BY <1>1, <1>2, <1>3, <2>1, IntervalInduction
<1>5. \E f : Turns(f, BITS, value, range)
  <2>1. BITS \in S BY <1>1, <1>4
  <2> QED BY <2>1
<1>6. Turns(Loop(value, range), BITS, value, range)
  BY <1>5 DEF Loop
<1> DEFINE L == Loop(value, range)
<1> HIDE DEF L
<1>7. \A i \in 0 .. BITS : L[i] = IF i = 0 THEN [left |-> value, result |-> 0]
                                  ELSE Turn(L[i - 1], i, range)
  BY <1>6 DEF Turns, L
<1>8. L[0] = [left |-> value, result |-> 0] BY <1>1, <1>7
<1>9. ASSUME NEW i \in 0 .. BITS - 1 PROVE L[i + 1] = Turn(L[i], i + 1, range)
  <2>1. i + 1 \in 0 .. BITS /\ i + 1 # 0 /\ (i + 1) - 1 = i BY <1>1
  <2> QED BY <1>7, <2>1
<1> QED BY <1>8, <1>9 DEF L

(***************************************************************************)
(* The loop's invariant, for a value v below the range r: what has been    *)
(* taken off v is at most the range times the result so far; unless all    *)
(* bits are set, the bits to come can make up for what is left of v; and   *)
(* each halving loses less than one.                                       *)
(***************************************************************************)
LoopInv(i, s, v, r) ==
  /\ s.left \in Nat /\ s.left <= v
  /\ s.result \in Nat /\ s.result + Weight(i) <= Whole
  /\ (v - s.left) * Whole <= r * s.result
  /\ s.result = Whole - Weight(i) \/ v * Whole < r * (s.result + Weight(i))
  /\ r * s.result <= (v - s.left + i) * Whole

\* The part taken off at a turn, against the weight of its bit.
LEMMA PartOfRange ==
  ASSUME NEW r \in Nat, NEW i \in 0 .. BITS - 1
  PROVE  LET q == r \div 2 ^ (i + 1)
             w == Weight(i + 1)
         IN  q \in Nat /\ q * Whole <= r * w /\ r * w < (q + 1) * Whole
<1> DEFINE m == 2 ^ (i + 1)
           w == Weight(i + 1)
           q == r \div m
<1>1. BITS \in Nat /\ i + 1 \in 0 .. BITS BY BitsAssumption
<1>2. w * m = Whole /\ m \in Nat /\ m > 0 BY <1>1, WeightTimesPower
<1>3. w \in Nat /\ w > 0 BY <1>1, Weights
<1> HIDE DEF m, w
<1>4. q \in Nat /\ q * m <= r /\ r < (q + 1) * m BY <1>2
<1> HIDE DEF q
<1>5. (q * m) * w <= r * w /\ r * w < ((q + 1) * m) * w BY <1>2, <1>3, <1>4
<1>6. (q * m) * w = q * (w * m) /\ ((q + 1) * m) * w = (q + 1) * (w * m)
  BY <1>2, <1>3, <1>4
<1> QED BY <1>2, <1>4, <1>5, <1>6 DEF q, m, w

LEMMA TurnKeepsInv ==
  ASSUME NEW v \in Nat, NEW r \in Nat, NEW i \in 0 .. BITS - 1,
         NEW s, LoopInv(i, s, v, r)
  PROVE  LoopInv(i + 1, Turn(s, i + 1, r), v, r)
<1> DEFINE q == r \div 2 ^ (i + 1)
           w == Weight(i + 1)
           t == Turn(s, i + 1, r)
<1>1. BITS \in Nat /\ i \in Nat BY BitsAssumption
<1>2. w \in Nat /\ w > 0 /\ Weight(i) = 2 * w /\ Whole \in Nat /\ Whole > 0
  BY <1>1, Weights
<1>3. q \in Nat /\ q * Whole <= r * w /\ r * w < (q + 1) * Whole BY PartOfRange
<1>4. /\ s.left \in Nat /\ s.left <= v
      /\ s.result \in Nat /\ s.result + 2 * w <= Whole
      /\ (v - s.left) * Whole <= r * s.result
      /\ s.result = Whole - 2 * w \/ v * Whole < r * (s.result + 2 * w)
      /\ r * s.result <= (v - s.left + i) * Whole
  BY <1>2 DEF LoopInv
<1>5. t = IF s.left >= q THEN [left |-> s.left - q, result |-> (s.result + w) % Whole] ELSE s
  BY DEF Turn, Reaches, Whole
<1>6. (s.result + w) % Whole = s.result + w
  <2> HIDE DEF w
  <2> QED BY <1>2, <1>4
<1>7. CASE s.left >= q
  <2>1. t.left = s.left - q /\ t.result = s.result + w BY <1>5, <1>6, <1>7
  <2> HIDE DEF q, w, t
  <2>2. t.left \in Nat /\ t.left <= v /\ t.result \in Nat /\ t.result + w <= Whole
    BY <1>2, <1>3, <1>4, <1>7, <2>1
  <2>3. (v - t.left) * Whole <= r * t.result
    <3>1. (v - t.left) * Whole = (v - s.left) * Whole + q * Whole
      BY <1>2, <1>3, <1>4, <2>1
    <3>2. r * t.result = r * s.result + r * w BY <1>2, <1>4, <2>1
    <3> DEFINE a == (v - s.left) * Whole
               b == q * Whole
               c == r * s.result
               d == r * w
    <3>3. a \in Int /\ b \in Int /\ c \in Int /\ d \in Int /\ a <= c /\ b <= d
      BY <1>2, <1>3, <1>4
    <3> HIDE DEF a, b, c, d
    <3>4. a + b <= c + d BY <3>3
    <3> QED BY <3>1, <3>2, <3>4 DEF a, b, c, d
  <2>4. t.result = Whole - w \/ v * Whole < r * (t.result + w)
    <3>1. s.result + 2 * w = t.result + w BY <1>2, <1>4, <2>1
    <3>2. s.result = Whole - 2 * w => t.result = Whole - w BY <1>2, <1>4, <2>1
    <3> QED BY <1>4, <3>1, <3>2
  <2>5. r * t.result <= (v - t.left + (i + 1)) * Whole
    <3>1. r * t.result = r * s.result + r * w BY <1>2, <1>4, <2>1
    <3>2. (v - t.left + (i + 1)) * Whole = (v - s.left + i) * Whole + (q + 1) * Whole
      <4>1. \A x, y, z \in Int : (x + y) * z = x * z + y * z OBVIOUS
      <4>2. v - t.left + (i + 1) = (v - s.left + i) + (q + 1)
        <5>1. s.left \in Nat /\ q \in Nat /\ i \in Nat BY <1>1, <1>3, <1>4
        <5>2. t.left = s.left - q BY <2>1
        <5> QED BY <5>1, <5>2
      <4>3. v - s.left + i \in Int /\ q + 1 \in Int /\ Whole \in Int
        BY <1>1, <1>2, <1>3, <1>4
      <4> QED BY <4>1, <4>2, <4>3
    <3> DEFINE a == r * s.result
               b == r * w
               c == (v - s.left + i) * Whole
               d == (q + 1) * Whole
    <3>3. a \in Int /\ b \in Int /\ c \in Int /\ d \in Int /\ a <= c /\ b <= d
      BY <1>1, <1>2, <1>3, <1>4
    <3> HIDE DEF a, b, c, d
    <3>4. a + b <= c + d BY <3>3
    <3> QED BY <3>1, <3>2, <3>4 DEF a, b, c, d
  <2> QED BY <2>2, <2>3, <2>4, <2>5 DEF LoopInv, t, w
<1>8. CASE ~ (s.left >= q)
  <2>1. t = s /\ s.left < q BY <1>3, <1>4, <1>5, <1>8
  <2> HIDE DEF q, w, t
  <2>2. s.result + w <= Whole BY <1>2, <1>4
  <2>3. v * Whole < r * (s.result + w)
    <3>1. v * Whole = (v - s.left) * Whole + s.left * Whole BY <1>2, <1>4
    <3>2. r * (s.result + w) = r * s.result + r * w BY <1>2, <1>4
    <3>3. s.left * Whole < q * Whole BY <1>2, <1>3, <1>4, <2>1
    <3> DEFINE a == (v - s.left) * Whole
               b == s.left * Whole
               c == r * s.result
               d == r * w
               e == q * Whole
    <3>4. /\ a \in Int /\ b \in Int /\ c \in Int /\ d \in Int /\ e \in Int
          /\ a <= c /\ b < e /\ e <= d
      BY <1>2, <1>3, <1>4, <3>3
    <3> HIDE DEF a, b, c, d, e
    <3>5. a + b < c + d BY <3>4
    <3> QED BY <3>1, <3>2, <3>5 DEF a, b, c, d
  <2>4. r * s.result <= (v - s.left + (i + 1)) * Whole
    <3>1. (v - s.left + (i + 1)) * Whole = (v - s.left + i) * Whole + Whole
      <4>1. \A x, z \in Int : (x + 1) * z = x * z + z OBVIOUS
      <4>2. v - s.left + (i + 1) = (v - s.left + i) + 1 BY <1>1, <1>4
      <4>3. v - s.left + i \in Int /\ Whole \in Int BY <1>1, <1>2, <1>4
      <4> QED BY <4>1, <4>2, <4>3
    <3>2. (v - s.left + i) * Whole \in Int /\ r * s.result \in Int BY <1>1, <1>2, <1>4
    <3> QED BY <1>2, <1>4, <3>1, <3>2
  <2>5. LoopInv(i + 1, s, v, r) BY <1>4, <2>2, <2>3, <2>4 DEF LoopInv, w
  <2> QED BY <2>1, <2>5 DEF t
<1> QED BY <1>7, <1>8

LEMMA LoopKeepsInv ==
  ASSUME NEW v \in Nat, NEW r \in Nat, NEW n \in 0 .. BITS
  PROVE  LoopInv(n, Loop(v, r)[n], v, r)
<1> DEFINE S == {i \in 0 .. BITS : LoopInv(i, Loop(v, r)[i], v, r)}
<1>1. BITS \in Nat BY BitsAssumption
<1>2. 0 \in S
  <2>1. Loop(v, r)[0] = [left |-> v, result |-> 0] BY LoopTurns
  <2>2. Weight(0) = Whole /\ Whole \in Nat BY Weights
  <2>3. /\ v - v = 0 /\ 0 * Whole = 0 /\ r * 0 = 0 /\ v - v + 0 = 0 /\ 0 + Whole = Whole
        /\ Whole - Whole = 0
    BY <2>2
  <2>4. LoopInv(0, [left |-> v, result |-> 0], v, r) BY <2>2, <2>3 DEF LoopInv
  <2> QED BY <1>1, <2>1, <2>4
<1>3. ASSUME NEW i \in 0 .. BITS - 1, i \in S PROVE i + 1 \in S
  <2>1. i + 1 \in 0 .. BITS BY <1>1
  <2>2. Loop(v, r)[i + 1] = Turn(Loop(v, r)[i], i + 1, r) BY LoopTurns
  <2>3. LoopInv(i, Loop(v, r)[i], v, r) BY <1>3
  <2>4. LoopInv(i + 1, Turn(Loop(v, r)[i], i + 1, r), v, r) BY <2>3, TurnKeepsInv
  <2> QED BY <2>1, <2>2, <2>4
<1>4. S = 0 .. BITS
  <2>1. S \subseteq 0 .. BITS OBVIOUS
  <2> HIDE DEF S
  <2> QED BY <1>1, <1>2, <1>3, <2>1, IntervalInduction
<1> QED BY <1>4

LEMMA FullIs == Full = Whole - 1 /\ Full \in Nat
BY Weights DEF Full, Whole

\* One byte (BITS bits), whatever the value and the range.
LEMMA Scale8Range ==
  ASSUME NEW v \in Nat, NEW r \in Nat
  PROVE  scale8(v, r) \in 0 .. Full
<1>1. BITS \in 0 .. BITS BY BitsAssumption
<1>2. LoopInv(BITS, Loop(v, r)[BITS], v, r) BY <1>1, LoopKeepsInv
<1>3. Loop(v, r)[BITS].result \in 0 .. Full
  BY <1>2, FullIs, Weights DEF LoopInv
<1>4. 0 \in 0 .. Full /\ Full \in 0 .. Full BY FullIs
<1> QED BY <1>3, <1>4, Scale8IsLoop

\* Two values in the same range: as long as their bits are the same the smaller
\* has less left, and once they differ the bits to come cannot make up for it.
Behind(i, s, t) == \/ s.result = t.result /\ s.left <= t.left
                   \/ s.result + Weight(i) <= t.result

LEMMA TurnIs ==
  ASSUME NEW v \in Nat, NEW r \in Nat, NEW i \in 0 .. BITS - 1,
         NEW s, LoopInv(i, s, v, r)
  PROVE  LET q == r \div 2 ^ (i + 1)
         IN  /\ Turn(s, i + 1, r).left = IF s.left >= q THEN s.left - q ELSE s.left
             /\ Turn(s, i + 1, r).result = IF s.left >= q THEN s.result + Weight(i + 1)
                                           ELSE s.result
<1> DEFINE w == Weight(i + 1)
<1>1. w \in Nat /\ w > 0 /\ Weight(i) = 2 * w /\ Whole \in Nat /\ Whole > 0
  BY BitsAssumption, Weights
<1>2. s.result \in Nat /\ s.result + 2 * w <= Whole BY <1>1 DEF LoopInv
<1>3. (s.result + w) % Whole = s.result + w
  <2> HIDE DEF w
  <2> QED BY <1>1, <1>2
<1> QED BY <1>3 DEF Turn, Reaches, Whole

LEMMA TurnKeepsOrder ==
  ASSUME NEW u \in Nat, NEW v \in Nat, NEW r \in Nat, NEW i \in 0 .. BITS - 1,
         NEW s, LoopInv(i, s, u, r), NEW t, LoopInv(i, t, v, r), Behind(i, s, t)
  PROVE  Behind(i + 1, Turn(s, i + 1, r), Turn(t, i + 1, r))
<1> DEFINE q  == r \div 2 ^ (i + 1)
           w  == Weight(i + 1)
           s1 == Turn(s, i + 1, r)
           t1 == Turn(t, i + 1, r)
<1>1. w \in Nat /\ w > 0 /\ Weight(i) = 2 * w BY BitsAssumption, Weights
<1>2. q \in Nat BY PartOfRange
<1>3. /\ s1.left = IF s.left >= q THEN s.left - q ELSE s.left
      /\ s1.result = IF s.left >= q THEN s.result + w ELSE s.result
  BY TurnIs
<1>4. /\ t1.left = IF t.left >= q THEN t.left - q ELSE t.left
      /\ t1.result = IF t.left >= q THEN t.result + w ELSE t.result
  BY TurnIs
<1>5. /\ s.left \in Nat /\ s.result \in Nat /\ t.left \in Nat /\ t.result \in Nat
  BY DEF LoopInv
<1>6. (s.result = t.result /\ s.left <= t.left) \/ s.result + 2 * w <= t.result
  BY <1>1 DEF Behind
<1> HIDE DEF q, w, s1, t1
<1>7. (s1.result = t1.result /\ s1.left <= t1.left) \/ s1.result + w <= t1.result
  BY <1>1, <1>2, <1>3, <1>4, <1>5, <1>6
<1> QED BY <1>7 DEF Behind, s1, t1, w

LEMMA Scale8Monotone ==
  ASSUME NEW u \in Nat, NEW v \in Nat, u <= v, NEW r \in Nat
  PROVE  scale8(u, r) <= scale8(v, r)
<1> DEFINE S == {i \in 0 .. BITS : Behind(i, Loop(u, r)[i], Loop(v, r)[i])}
<1>1. BITS \in Nat BY BitsAssumption
<1>2. 0 \in S
  <2>1. /\ Loop(u, r)[0] = [left |-> u, result |-> 0]
        /\ Loop(v, r)[0] = [left |-> v, result |-> 0]
    BY LoopTurns
  <2>2. Behind(0, Loop(u, r)[0], Loop(v, r)[0]) BY <2>1 DEF Behind
  <2> QED BY <1>1, <2>2
<1>3. ASSUME NEW i \in 0 .. BITS - 1, i \in S PROVE i + 1 \in S
  <2>1. i + 1 \in 0 .. BITS /\ i \in 0 .. BITS BY <1>1
  <2>2. /\ Loop(u, r)[i + 1] = Turn(Loop(u, r)[i], i + 1, r)
        /\ Loop(v, r)[i + 1] = Turn(Loop(v, r)[i], i + 1, r)
    BY LoopTurns
  <2>3. LoopInv(i, Loop(u, r)[i], u, r) /\ LoopInv(i, Loop(v, r)[i], v, r)
    BY <2>1, LoopKeepsInv
  <2>4. Behind(i, Loop(u, r)[i], Loop(v, r)[i]) BY <1>3
  <2>5. Behind(i + 1, Turn(Loop(u, r)[i], i + 1, r), Turn(Loop(v, r)[i], i + 1, r))
    BY <2>3, <2>4, TurnKeepsOrder
  <2> QED BY <2>1, <2>2, <2>5
<1>4. S = 0 .. BITS
  <2>1. S \subseteq 0 .. BITS OBVIOUS
  <2> HIDE DEF S
  <2> QED BY <1>1, <1>2, <1>3, <2>1, IntervalInduction
<1>5. Behind(BITS, Loop(u, r)[BITS], Loop(v, r)[BITS])
  <2>1. BITS \in S BY <1>1, <1>4
  <2> QED BY <2>1
<1>6. Loop(u, r)[BITS].result <= Loop(v, r)[BITS].result
  <2>1. LoopInv(BITS, Loop(u, r)[BITS], u, r) /\ LoopInv(BITS, Loop(v, r)[BITS], v, r)
    BY <1>1, LoopKeepsInv
  <2> QED BY <1>5, <2>1, Weights DEF Behind, LoopInv
<1>7. scale8(u, r) \in 0 .. Full /\ Full \in Nat BY Scale8Range, FullIs
<1> HIDE DEF S
<1>8. CASE r = 0 \/ v >= r
  <2>1. CASE r = 0 BY <2>1, Scale8IsLoop
  <2>2. CASE r # 0 /\ v >= r
    <3>1. scale8(v, r) = Full BY <2>2, Scale8IsLoop
    <3> QED BY <1>7, <3>1
  <2> QED BY <1>8, <2>1, <2>2
<1>9. CASE r # 0 /\ ~ (v >= r)
  <2>1. ~ (u >= r) BY <1>9
  <2>2. scale8(u, r) = Loop(u, r)[BITS].result /\ scale8(v, r) = Loop(v, r)[BITS].result
    BY <1>9, <2>1, Scale8IsLoop
  <2> QED BY <1>6, <2>2
<1> QED BY <1>8, <1>9

\* scale8 against a division: the floor of the quotient at least, and at most
\* the quotient of a value larger by one for every bit.
LEMMA Scale8Quotient ==
  ASSUME NEW r \in Nat, r > 0, NEW v \in 0 .. r
  PROVE  /\ scale8(v, r) < Full => scale8(v, r) >= (v * Whole) \div r
         /\ scale8(v, r) * r <= (v + BITS) * Whole
<1>1. BITS \in Nat /\ BITS \in 0 .. BITS /\ Whole \in Nat /\ Whole > 0 /\ v \in Nat
  BY BitsAssumption, Weights
<1>2. CASE v = r
  <2>1. scale8(v, r) = Full BY <1>2, Scale8IsLoop
  <2>2. Full = Whole - 1 BY FullIs
  <2>3. (Whole - 1) * r <= (r + BITS) * Whole
    <3>1. (Whole - 1) * r = Whole * r - r /\ (r + BITS) * Whole = Whole * r + BITS * Whole
      BY <1>1
    <3>2. Whole * r \in Nat /\ BITS * Whole \in Nat BY <1>1
    <3> QED BY <3>1, <3>2
  <2> QED BY <1>1, <1>2, <2>1, <2>2, <2>3
<1>3. CASE v < r
  <2> DEFINE s == Loop(v, r)[BITS]
             x == s.result
  <2>1. scale8(v, r) = x BY <1>1, <1>3, Scale8IsLoop
  <2>2. LoopInv(BITS, s, v, r) BY <1>1, LoopKeepsInv
  <2>3. /\ s.left \in Nat /\ s.left <= v /\ x \in Nat
        /\ x = Whole - 1 \/ v * Whole < r * (x + 1)
        /\ r * x <= (v - s.left + BITS) * Whole
    BY <2>2, Weights DEF LoopInv
  <2> HIDE DEF s, x
  <2>4. x < Full => x >= (v * Whole) \div r
    <3> SUFFICES ASSUME x < Full PROVE x >= (v * Whole) \div r OBVIOUS
    <3>1. v * Whole < r * (x + 1) BY <2>3, FullIs
    <3> DEFINE n == v * Whole
               d == n \div r
    <3>2. n \in Nat BY <1>1
    <3> HIDE DEF n
    <3>3. d \in Nat /\ r * d <= n BY <3>2
    <3> HIDE DEF d
    <3>4. r * d < r * (x + 1)
      <4>1. r * d \in Nat /\ r * (x + 1) \in Nat BY <2>3, <3>3
      <4> QED BY <3>1, <3>2, <3>3, <4>1 DEF n
    <3>5. ASSUME d >= x + 1 PROVE FALSE
      <4>1. r * d >= r * (x + 1) BY <2>3, <3>3, <3>5
      <4> QED BY <2>3, <3>3, <3>4, <4>1
    <3> QED BY <2>3, <3>3, <3>5 DEF d, n
  <2>5. x * r <= (v + BITS) * Whole
    <3>1. (v - s.left + BITS) * Whole <= (v + BITS) * Whole
      <4>1. \A a, b \in Int : a <= b => a * Whole <= b * Whole BY <1>1
      <4> QED BY <1>1, <2>3, <4>1
    <3>2. x * r = r * x BY <2>3
    <3>3. v - s.left + BITS \in Int BY <1>1, <2>3
    <3>4. r * x \in Int /\ (v + BITS) * Whole \in Int /\ (v - s.left + BITS) * Whole \in Int
      BY <1>1, <2>3, <3>3
    <3> QED BY <2>3, <3>1, <3>2, <3>4
  <2> QED BY <2>1, <2>4, <2>5
<1> QED BY <1>2, <1>3

-------------------------------------------------------------------------------
(***************************************************************************)
(* The clock.  LedTypes bounds the times: the next beat is never past half *)
(* of their range, so that only the last beat, which update_tempo shifts   *)
(* the other way, wraps.                                                   *)
(***************************************************************************)

Half == {t \in Nat : 2 * t <= UINT64_MAX}

LedTypes ==
  /\ now \in 1 .. EndOfTime
  /\ registry \in [next_beat_time_ref : Half, beat_count : 0 .. MaxCount,
                   tempo_period_us : Periods \cup {0}]
  /\ told \subseteq {"time_ref", "tempo"}
  /\ _time_ref \in Half /\ _tempo_period_us \in Periods \cup {0}
  /\ _last_beat_time \in Times /\ _next_beat_time \in Half
  /\ _beat_count \in Nat /\ _next_beat_count \in 0 .. MaxCount
  /\ prev_beat_frac \in 0 .. Full
  /\ prev_time \in Nat /\ prev_time <= now
  /\ anchor \in Half

\* The next beat is the anchor, or whole periods from it; then the last one is
\* one period before and a frame has been drawn since.
Phased ==
  \/ _next_beat_time = anchor
  \/ /\ _tempo_period_us > 0
     /\ \E k \in Nat \ {0} : _next_beat_time = anchor + k * _tempo_period_us
     /\ _last_beat_time = _next_beat_time - _tempo_period_us
     /\ _last_beat_time < prev_time

LedInv == LedTypes /\ Phased

LEMMA TimesFit ==
  /\ UINT64_MAX \in Nat /\ Half \subseteq Times
  /\ \A t \in 0 .. EndOfTime : t \in Half
  /\ \A t \in 0 .. EndOfTime, d \in Leads \cup Periods : t + d \in Half
  /\ \A d \in Leads \cup Periods : d \in Half
<1>1. UINT64_MAX \in Nat /\ EndOfTime \in Nat
  BY LedAssumption
<1>2. Half \subseteq Times BY <1>1 DEF Half, Times
<1>3. ASSUME NEW t \in 0 .. EndOfTime, NEW d \in Leads \cup Periods \cup {0}
      PROVE t + d \in Half
  <2>1. d \in Nat /\ 2 * (EndOfTime + d) <= UINT64_MAX BY LedAssumption
  <2> QED BY <1>1, <2>1 DEF Half
<1>4. ASSUME NEW t \in 0 .. EndOfTime PROVE t \in Half
  <2>1. t + 0 \in Half BY <1>3
  <2> QED BY <1>1, <2>1
<1>5. ASSUME NEW d \in Leads \cup Periods PROVE d \in Half
  <2>1. 0 \in 0 .. EndOfTime /\ d \in Nat BY <1>1, LedAssumption
  <2>2. 0 + d \in Half BY <1>3, <2>1
  <2> QED BY <2>1, <2>2
<1> QED BY <1>1, <1>2, <1>3, <1>4, <1>5

LEMMA Unsigned ==
  /\ \A t \in Int : U64(t) \in Times
  /\ \A t \in Times : U64(t) = t
<1>1. UINT64_MAX \in Nat BY TimesFit
<1>2. \A t \in Int : U64(t) \in Times BY <1>1 DEF U64, Times
<1>3. \A t \in Times : U64(t) = t BY <1>1 DEF U64, Times
<1> QED BY <1>2, <1>3

\* The loop of led_update: whole periods, until the beat is not
\* past, and the last beat is.
Beats(next, period, time) == (time - next + period - 1) \div period

Advanced(last, next, period, time) ==
  LET b == Beats(next, period, time)
  IN  /\ b \in Nat \ {0}
      /\ BeatOf(last, next, period, time) = <<next + (b - 1) * period, next + b * period>>
      /\ next + (b - 1) * period < time /\ time <= next + b * period
      /\ next + (b - 1) * period = (next + b * period) - period

LEMMA AdvancedBeat ==
  ASSUME NEW last, NEW next \in Nat, NEW period \in Nat, period > 0,
         NEW time \in Nat, next < time
  PROVE  Advanced(last, next, period, time)
<1> DEFINE a == time - next + period - 1
           b == a \div period
<1>1. a \in Nat /\ a = (time - next) + (period - 1) OBVIOUS
<1>2. BeatOf(last, next, period, time) = <<next + (b - 1) * period, next + b * period>>
  BY DEF BeatOf
<1> HIDE DEF a
<1>3. b \in Nat /\ b * period <= a /\ a < b * period + period
  <2>1. /\ b \in Nat /\ a = period * b + (a % period)
        /\ a % period \in 0 .. period - 1
    BY <1>1
  <2> QED BY <2>1
<1> HIDE DEF b
<1>4. b # 0
  <2> SUFFICES ASSUME b = 0 PROVE FALSE OBVIOUS
  <2>1. a < period BY <1>3
  <2> QED BY <1>1, <2>1
<1>5. (b - 1) * period = b * period - period /\ b * period \in Nat BY <1>3
<1>6. next + (b - 1) * period < time /\ time <= next + b * period
  BY <1>1, <1>3, <1>5
<1>7. next + (b - 1) * period = (next + b * period) - period BY <1>5
<1> QED BY <1>2, <1>3, <1>4, <1>6, <1>7 DEF Advanced, Beats, a, b

LEMMA InitLed == Init => LedInv
<1> SUFFICES ASSUME Init PROVE LedInv OBVIOUS
<1>1. 0 \in Half /\ 0 \in Times BY TimesFit, LedAssumption DEF Half, Times
<1>2. 1 \in 1 .. EndOfTime /\ MaxCount \in Nat BY LedAssumption
<1>3. 0 \in 0 .. Full BY FullIs
<1> QED BY <1>1, <1>2, <1>3 DEF Init, LedInv, LedTypes, Phased

\* What a frame does.
LEMMA FrameIs ==
  ASSUME LedTypes, LedUpdate
  PROVE  /\ _tempo_period_us \in Nat /\ _tempo_period_us > 0 /\ _tempo_period_us \in Half
         /\ now \in Nat /\ prev_time' = now /\ prev_time < now
         /\ prev_beat_frac' = calculate_beat_fraction(now, _last_beat_time', _next_beat_time')
         /\ UNCHANGED <<now, core0, tempo, _next_beat_count, anchor>>
         /\ _beat_count' = IF prev_beat_frac > prev_beat_frac'
                           THEN Counted(_beat_count, _next_beat_count) ELSE _beat_count
         /\ \/ /\ now <= _next_beat_time
               /\ UNCHANGED beat
            \/ /\ _next_beat_time < now
               /\ \E b \in Nat \ {0} : _next_beat_time' = _next_beat_time + b * _tempo_period_us
               /\ _last_beat_time' = _next_beat_time' - _tempo_period_us
               /\ _next_beat_time <= _last_beat_time'
               /\ _last_beat_time' < now /\ now <= _next_beat_time'
<1> DEFINE p  == _tempo_period_us
           in == BeatOf(_last_beat_time, _next_beat_time, p, now)
<1>1. p \in Nat /\ p > 0 /\ p \in Periods
  BY LedAssumption DEF LedTypes, LedUpdate, Drawing
<1>2. now \in Nat /\ _next_beat_time \in Nat BY LedAssumption DEF LedTypes, Half
<1>3. /\ _last_beat_time' = in[1] /\ _next_beat_time' = in[2]
      /\ prev_beat_frac' = calculate_beat_fraction(now, in[1], in[2])
      /\ _beat_count' = IF prev_beat_frac > calculate_beat_fraction(now, in[1], in[2])
                        THEN Counted(_beat_count, _next_beat_count) ELSE _beat_count
      /\ prev_time' = now /\ prev_time < now
      /\ UNCHANGED <<now, core0, tempo, _next_beat_count, anchor>>
  BY <1>2 DEF LedUpdate, LedTypes
<1>4. CASE now <= _next_beat_time
  <2>1. in = <<_last_beat_time, _next_beat_time>> BY <1>2, <1>4 DEF BeatOf
  <2> HIDE DEF in
  <2> QED BY <1>1, <1>2, <1>3, <1>4, <2>1, TimesFit DEF beat
<1>5. CASE _next_beat_time < now
  <2> DEFINE b == Beats(_next_beat_time, p, now)
  <2>1. /\ b \in Nat \ {0}
        /\ in = <<_next_beat_time + (b - 1) * p, _next_beat_time + b * p>>
        /\ _next_beat_time + (b - 1) * p < now /\ now <= _next_beat_time + b * p
        /\ _next_beat_time + (b - 1) * p = (_next_beat_time + b * p) - p
    <3> HIDE DEF p
    <3>1. Advanced(_last_beat_time, _next_beat_time, p, now)
      BY <1>1, <1>2, <1>5, AdvancedBeat
    <3> QED BY <3>1 DEF Advanced
  <2> HIDE DEF b
  <2>2. (b - 1) * p \in Nat
    <3>1. b - 1 \in Nat BY <2>1
    <3> QED BY <1>1, <3>1
  <2> HIDE DEF in
  <2> USE DEF p
  <2>3. /\ _next_beat_time' = _next_beat_time + b * p
        /\ _last_beat_time' = _next_beat_time' - p
        /\ _next_beat_time <= _last_beat_time'
        /\ _last_beat_time' < now /\ now <= _next_beat_time'
    BY <1>2, <1>3, <2>1, <2>2
  <2> HIDE DEF p
  <2>4. p \in Half BY <1>1, TimesFit
  <2>5. \E c \in Nat \ {0} : _next_beat_time' = _next_beat_time + c * p BY <2>1, <2>3
  <2>6. prev_beat_frac' = calculate_beat_fraction(now, _last_beat_time', _next_beat_time')
    BY <1>3
  <2> HIDE DEF b
  <2> QED BY <1>1, <1>2, <1>3, <1>5, <2>3, <2>4, <2>5, <2>6 DEF p
<1> QED BY <1>2, <1>4, <1>5

LEMMA FractionRange ==
  ASSUME NEW current \in Int, NEW last \in Int, NEW next \in Int
  PROVE  calculate_beat_fraction(current, last, next) \in 0 .. Full
<1>1. U64(current - last) \in Times /\ U64(next - last) \in Times BY Unsigned
<1>2. Times \subseteq Nat BY DEF Times
<1> QED BY <1>1, <1>2, Scale8Range DEF calculate_beat_fraction

LEMMA NextTypes == LedTypes /\ [Next]_vars => LedTypes'
<1> SUFFICES ASSUME LedTypes, [Next]_vars PROVE LedTypes' OBVIOUS
<1> USE DEF LedTypes
<1>1. /\ EndOfTime \in Nat \ {0} /\ MaxCount \in Nat /\ UINT64_MAX \in Nat
      /\ Periods \subseteq Nat /\ Leads \subseteq Nat /\ LateBy \subseteq Nat
  BY LedAssumption
<1>2. Half \subseteq Nat /\ Half \subseteq Times /\ Times \subseteq Int /\ now \in Half
  BY <1>1, TimesFit DEF Half, Times
<1>3. CASE Tick
  BY <1>1, <1>3 DEF Tick, core0, tempo, beat, counts, frame
<1>4. CASE AnnounceBeat
  <2>1. PICK ref \in {now + d : d \in Leads} \cup {now - d : d \in {l \in LateBy : l < now}},
             count \in registry.beat_count + 1 .. MaxCount :
               /\ registry' = [registry EXCEPT !.next_beat_time_ref = ref, !.beat_count = count]
               /\ told' = told \cup {"time_ref"}
               /\ UNCHANGED <<now, tempo, beat, counts, frame, anchor>>
    BY <1>4 DEF AnnounceBeat
  <2>2. ref \in Half
    <3>1. \A d \in Leads : now + d \in Half
      <4>1. now \in 0 .. EndOfTime BY <1>1
      <4> QED BY <4>1, TimesFit
    <3>2. \A d \in LateBy : d < now => now - d \in 0 .. EndOfTime BY <1>1
    <3> QED BY <2>1, <3>1, <3>2, TimesFit
  <2>3. count \in 0 .. MaxCount BY <1>1
  <2> QED BY <2>1, <2>2, <2>3 DEF tempo, beat, counts, frame
<1>5. CASE AnnounceTempo
  BY <1>5 DEF AnnounceTempo, tempo, beat, counts, frame
<1>6. CASE UpdateTimeRef
  <2> DEFINE ref == registry.next_beat_time_ref
  <2>1. ref \in Half /\ registry.beat_count \in 0 .. MaxCount OBVIOUS
  <2>2. Shifted(_last_beat_time, _next_beat_time, ref) \in Times
    <3>1. ref - _next_beat_time \in Int /\ _last_beat_time \in Int
      <4> HIDE DEF ref
      <4> QED BY <1>2, <2>1
    <3>2. U64(ref - _next_beat_time) \in Int BY <1>2, <3>1, Unsigned
    <3>3. _last_beat_time - U64(ref - _next_beat_time) \in Int BY <3>1, <3>2
    <3> QED BY <3>3, Unsigned DEF Shifted
  <2>3. told' \subseteq told BY <1>6 DEF UpdateTimeRef, Taken
  <2>4. /\ _time_ref' = ref /\ _next_beat_time' = ref /\ anchor' = ref
        /\ _last_beat_time' = Shifted(_last_beat_time, _next_beat_time, ref)
        /\ _next_beat_count' = registry.beat_count
        /\ UNCHANGED <<now, registry, _tempo_period_us, _beat_count, frame>>
    BY <1>6 DEF UpdateTimeRef
  <2> HIDE DEF ref
  <2> QED BY <2>1, <2>2, <2>3, <2>4 DEF frame
<1>7. CASE UpdateTempo
  <2> DEFINE p == registry.tempo_period_us
  <2>1. told' \subseteq told BY <1>7 DEF UpdateTempo, Taken
  <2>2. p \in Periods \cup {0} OBVIOUS
  <2>3. now + p \in Half
    <3>1. now \in 0 .. EndOfTime /\ now \in Nat BY <1>1
    <3>2. CASE p = 0 BY <1>2, <3>1, <3>2
    <3>3. CASE p # 0 BY <2>2, <3>1, <3>3, TimesFit
    <3> QED BY <3>2, <3>3
  <2>4. _time_ref' \in Half /\ _last_beat_time' \in Times /\ _next_beat_time' \in Half
        /\ anchor' = _next_beat_time'
        /\ _tempo_period_us' = p
        /\ UNCHANGED <<now, registry, counts, frame>>
    <3>1. CASE _time_ref = 0 /\ p > 0
      BY <1>2, <1>7, <2>3, <3>1 DEF UpdateTempo
    <3>2. CASE ~ (_time_ref = 0 /\ p > 0)
      BY <1>7, <3>2 DEF UpdateTempo, beat
    <3> QED BY <3>1, <3>2
  <2> HIDE DEF p
  <2> QED BY <2>1, <2>2, <2>4 DEF counts, frame
<1>8. CASE LedUpdate
  <2>1. _last_beat_time' \in Times /\ _next_beat_time' \in Half
    <3>1. CASE UNCHANGED beat BY <3>1 DEF beat
    <3>2. CASE /\ _last_beat_time' = _next_beat_time' - _tempo_period_us
               /\ _next_beat_time <= _last_beat_time' /\ _last_beat_time' < now
               /\ \E b \in Nat \ {0} : _next_beat_time' = _next_beat_time + b * _tempo_period_us
      <4>1. _tempo_period_us \in Periods /\ _tempo_period_us \in Nat
        BY <1>1, <1>8, FrameIs
      <4>2. now + _tempo_period_us \in Half /\ now \in Nat /\ _next_beat_time \in Nat
        BY <1>1, <1>2, <4>1, TimesFit
      <4>3. _next_beat_time' \in Nat /\ _last_beat_time' \in Nat
        <5>1. PICK b \in Nat \ {0} : _next_beat_time' = _next_beat_time + b * _tempo_period_us
          BY <3>2
        <5>2. b * _tempo_period_us \in Nat BY <4>1
        <5>3. _next_beat_time' \in Nat BY <4>2, <5>1, <5>2
        <5> QED BY <3>2, <4>1, <4>2, <5>3
      <4>4. _next_beat_time' <= now + _tempo_period_us BY <3>2, <4>1, <4>2, <4>3
      <4>5. _next_beat_time' \in Half
        <5>1. \A t \in Half, u \in Nat : u <= t => u \in Half BY <1>1 DEF Half
        <5> QED BY <4>2, <4>3, <4>4, <5>1
      <4>6. _last_beat_time' \in Half BY <1>1, <1>2, <3>2, <4>2, <4>3 DEF Half
      <4> QED BY <1>2, <4>5, <4>6
    <3> QED BY <1>8, <3>1, <3>2, FrameIs
  <2>2. prev_beat_frac' \in 0 .. Full
    <3>1. prev_beat_frac' = calculate_beat_fraction(now, _last_beat_time', _next_beat_time')
      BY <1>8, FrameIs
    <3>2. now \in Int /\ _last_beat_time' \in Int /\ _next_beat_time' \in Int
      BY <1>2, <2>1
    <3> QED BY <3>1, <3>2, FractionRange
  <2>3. _beat_count' \in Nat
    BY <1>1, <1>8, FrameIs DEF Counted
  <2>4. /\ now \in Nat /\ prev_time' = now
        /\ UNCHANGED <<now, core0, tempo, _next_beat_count, anchor>>
    BY <1>8, FrameIs
  <2> QED BY <2>1, <2>2, <2>3, <2>4 DEF core0, tempo
<1>9. CASE UNCHANGED vars
  BY <1>9 DEF vars, core0, tempo, beat, counts, frame
<1> QED BY <1>3, <1>4, <1>5, <1>6, <1>7, <1>8, <1>9 DEF Next

LEMMA NextPhased == LedTypes /\ Phased /\ [Next]_vars => Phased'
<1> SUFFICES ASSUME LedTypes, Phased, [Next]_vars PROVE Phased' OBVIOUS
<1>1. CASE Tick \/ AnnounceBeat \/ AnnounceTempo
  <2>1. UNCHANGED <<tempo, beat, frame, anchor>>
    BY <1>1 DEF Tick, AnnounceBeat, AnnounceTempo
  <2> QED BY <2>1 DEF Phased, tempo, beat, frame
<1>2. CASE UpdateTimeRef \/ UpdateTempo
  BY <1>2 DEF UpdateTimeRef, UpdateTempo, Phased
<1>3. CASE LedUpdate
  <2> DEFINE p == _tempo_period_us
  <2>1. p \in Nat /\ p > 0 /\ p' = p /\ anchor' = anchor /\ prev_time' = now /\ prev_time < now
    BY <1>3, FrameIs DEF tempo
  <2>2. anchor \in Nat /\ _next_beat_time \in Nat /\ now \in Nat /\ prev_time \in Nat
        /\ _last_beat_time \in Int
    BY LedAssumption DEF LedTypes, Half, Times
  <2>3. CASE UNCHANGED beat
    BY <2>1, <2>2, <2>3 DEF Phased, beat
  <2>4. CASE /\ \E b \in Nat \ {0} : _next_beat_time' = _next_beat_time + b * p
             /\ _last_beat_time' = _next_beat_time' - p
             /\ _last_beat_time' < now
    <3>1. PICK b \in Nat \ {0} : _next_beat_time' = _next_beat_time + b * p BY <2>4
    <3>2. PICK k \in Nat : _next_beat_time = anchor + k * p
      <4>1. CASE _next_beat_time = anchor
        <5>1. _next_beat_time = anchor + 0 * p BY <2>1, <2>2, <4>1
        <5> QED BY <5>1
      <4>2. CASE _next_beat_time # anchor BY <4>2 DEF Phased
      <4> QED BY <4>1, <4>2
    <3>3. _next_beat_time' = anchor + (k + b) * p
      <4>1. (k + b) * p = k * p + b * p /\ k * p \in Nat /\ b * p \in Nat BY <2>1
      <4> QED BY <2>2, <3>1, <3>2, <4>1
    <3>4. k + b \in Nat \ {0} OBVIOUS
    <3> QED BY <2>1, <2>4, <3>3, <3>4 DEF Phased
  <2> QED BY <1>3, <2>3, <2>4, FrameIs
<1>4. CASE UNCHANGED vars
  BY <1>4 DEF vars, Phased, tempo, beat, frame
<1> QED BY <1>1, <1>2, <1>3, <1>4 DEF Next

LEMMA LedInvariant == Spec => []LedInv
<1>1. LedInv /\ [Next]_vars => LedInv' BY NextTypes, NextPhased DEF LedInv
<1> QED BY <1>1, InitLed, PTL DEF Spec

\* Times, counts and the byte of the fraction keep their types: the next beat
\* does not wrap, whatever is announced.
THEOREM LedTypeCorrect == Spec => []TypeOK
<1>1. LedInv => TypeOK
  BY TimesFit DEF LedInv, LedTypes, TypeOK
<1> QED BY <1>1, LedInvariant, PTL

-------------------------------------------------------------------------------
(***************************************************************************)
(* What a frame shows.                                                     *)
(***************************************************************************)

LEMMA WholePeriods ==
  ASSUME NEW p \in Nat, p > 0, NEW j \in Nat, NEW v \in 0 .. p - 1
  PROVE  ((v + j * p) % p) = v
<1> DEFINE a == v + j * p
           q == a \div p
           m == (a % p)
<1>1. a \in Nat
  <2>1. j * p \in Nat OBVIOUS
  <2> QED BY <2>1
<1>2. a = v + j * p OBVIOUS
<1> HIDE DEF a
<1>3. q \in Nat /\ m \in 0 .. p - 1 /\ a = q * p + m BY <1>1
<1> HIDE DEF q, m
<1>4. m - v = (j - q) * p BY <1>2, <1>3
<1> DEFINE e == j - q
<1>5. e \in Int BY <1>3
<1>6. m - v = e * p BY <1>4
<1> HIDE DEF e
<1>7. e < 1
  <2> SUFFICES ASSUME e >= 1 PROVE FALSE BY <1>5
  <2>1. e * p >= 1 * p BY <1>5
  <2> QED BY <1>3, <1>6, <2>1
<1>8. e > -1
  <2> SUFFICES ASSUME e <= -1 PROVE FALSE BY <1>5
  <2>1. e * p <= (-1) * p BY <1>5
  <2> QED BY <1>3, <1>6, <2>1
<1>9. e = 0 BY <1>5, <1>7, <1>8
<1> QED BY <1>3, <1>6, <1>9 DEF m, a

\* Inside a beat the subtractions of the fraction do not wrap.
LEMMA FractionInBeat ==
  ASSUME NEW current \in Int, NEW last \in Int, NEW next \in Int,
         current - last \in Times, next - last \in Times
  PROVE  calculate_beat_fraction(current, last, next) = scale8(current - last, next - last)
BY Unsigned DEF calculate_beat_fraction

\* Only led_update draws.
LEMMA WhoDraws ==
  LedTypes /\ [Next]_vars /\ ~ UNCHANGED <<_beat_count, prev_time>> => LedUpdate
BY DEF Next, Tick, AnnounceBeat, AnnounceTempo, UpdateTimeRef, UpdateTempo,
       vars, counts, frame

\* Frames drawn after the last announced beat show the true fraction of the
\* server's beat (FramesInPhase): calculate_beat_fraction on the beat that
\* advance_next_beat_time leaves.
THEOREM FramesFollowTheServer == Spec => FramesInPhase
<1> DEFINE A == prev_time' # prev_time /\ now > anchor
                  => LET since == (now - anchor) % _tempo_period_us
                     IN  prev_beat_frac' = IF since = 0 THEN Full
                                           ELSE scale8(since, _tempo_period_us)
<1>1. LedInv /\ LedInv' /\ [Next]_vars => [A]_vars
  <2> SUFFICES ASSUME LedInv, LedInv', [Next]_vars, prev_time' # prev_time, now > anchor
               PROVE  LET since == (now - anchor) % _tempo_period_us
                      IN  prev_beat_frac' = IF since = 0 THEN Full
                                            ELSE scale8(since, _tempo_period_us)
    OBVIOUS
  <2> DEFINE p == _tempo_period_us
             v == now - _last_beat_time'
  <2>1. LedTypes /\ LedTypes' /\ Phased' BY DEF LedInv
  <2>2. LedUpdate BY <2>1, WhoDraws
  <2>3. /\ p \in Nat /\ p > 0 /\ p \in Half /\ now \in Nat /\ prev_time' = now
        /\ prev_beat_frac' = calculate_beat_fraction(now, _last_beat_time', _next_beat_time')
        /\ anchor' = anchor /\ _tempo_period_us' = p
        /\ now <= _next_beat_time'
    BY <2>1, <2>2, FrameIs DEF tempo, beat
  <2>4. anchor \in Nat /\ _next_beat_time' \in Nat /\ _last_beat_time' \in Nat
    BY <2>1, TimesFit DEF LedTypes, Half, Times
  <2> HIDE DEF p
  <2>12. _next_beat_time' # anchor
    BY <2>3, <2>4
  <2>5. PICK k \in Nat \ {0} : _next_beat_time' = anchor + k * p
    BY <2>1, <2>3, <2>12 DEF Phased
  <2>6. _last_beat_time' = _next_beat_time' - p /\ _last_beat_time' < now
    BY <2>1, <2>3, <2>12 DEF Phased
  <2>7. v \in 1 .. p /\ _next_beat_time' - _last_beat_time' = p
    <3>1. \A n, l, t, d \in Nat : l = n - d /\ l < t /\ t <= n => t - l \in 1 .. d /\ n - l = d
      OBVIOUS
    <3> QED BY <2>3, <2>4, <2>6, <3>1
  <2>8. prev_beat_frac' = scale8(v, p)
    <3>1. p \in Times BY <2>3, TimesFit
    <3>2. v \in Times
      <4>1. \A t \in Times : \A u \in 1 .. t : u \in Times BY TimesFit DEF Times
      <4> QED BY <2>7, <3>1, <4>1
    <3>3. now \in Int /\ _last_beat_time' \in Int /\ _next_beat_time' \in Int BY <2>3, <2>4
    <3>4. now - _last_beat_time' \in Times /\ _next_beat_time' - _last_beat_time' \in Times
      BY <2>7, <3>1, <3>2
    <3>5. calculate_beat_fraction(now, _last_beat_time', _next_beat_time')
            = scale8(now - _last_beat_time', _next_beat_time' - _last_beat_time')
      BY <3>3, <3>4, FractionInBeat
    <3> QED BY <2>3, <2>7, <3>5
  <2>9. now - anchor = v + (k - 1) * p
    <3>1. (k - 1) * p = k * p - p /\ k * p \in Nat BY <2>3
    <3> QED BY <2>3, <2>4, <2>5, <2>6, <3>1
  <2> HIDE DEF v
  <2>10. CASE v < p
    <3>1. v \in 0 .. p - 1 /\ v # 0 /\ k - 1 \in Nat BY <2>3, <2>7, <2>10
    <3>2. ((now - anchor) % p) = v BY <2>3, <2>9, <3>1, WholePeriods
    <3> QED BY <2>8, <3>1, <3>2 DEF p
  <2>11. CASE v = p
    <3>1. now - anchor = 0 + k * p
      <4>1. (k - 1) * p = k * p - p /\ k * p \in Nat BY <2>3
      <4> QED BY <2>3, <2>9, <2>11, <4>1
    <3>2. 0 \in 0 .. p - 1 BY <2>3
    <3>3. ((now - anchor) % p) = 0 BY <2>3, <3>1, <3>2, WholePeriods
    <3>4. scale8(v, p) = Full BY <2>3, <2>11, Scale8IsLoop
    <3> QED BY <2>8, <3>3, <3>4 DEF p
  <2> QED BY <2>3, <2>7, <2>10, <2>11
<1> QED BY <1>1, LedInvariant, PTL DEF Spec, FramesInPhase

\* What a frame shows is the quotient of two times, within the halvings' loss
\* (FractionIsQuotient): scale8 on the beat led_update draws in.
THEOREM FramesShowTheQuotient == Spec => FractionIsQuotient
<1> DEFINE A == LET frac == prev_beat_frac'
                    range == _next_beat_time' - _last_beat_time'
                    value == now - _last_beat_time'
                IN  prev_time' # prev_time /\ range > 0 /\ value \in 0 .. range
                      => /\ (frac < Full => frac >= (value * 2 ^ BITS) \div range)
                         /\ frac * range <= (value + BITS) * 2 ^ BITS
<1>1. LedInv /\ LedInv' /\ [Next]_vars => [A]_vars
  <2> DEFINE frac == prev_beat_frac'
             range == _next_beat_time' - _last_beat_time'
             value == now - _last_beat_time'
  <2> SUFFICES ASSUME LedInv, LedInv', [Next]_vars,
                      prev_time' # prev_time, range > 0, value \in 0 .. range
               PROVE  /\ frac < Full => frac >= (value * 2 ^ BITS) \div range
                      /\ frac * range <= (value + BITS) * 2 ^ BITS
    OBVIOUS
  <2>1. LedTypes /\ LedTypes' BY DEF LedInv
  <2>2. LedUpdate BY <2>1, WhoDraws
  <2>3. now \in Nat
        /\ frac = calculate_beat_fraction(now, _last_beat_time', _next_beat_time')
    BY <2>1, <2>2, FrameIs
  <2>4. _next_beat_time' \in Nat /\ _last_beat_time' \in Nat /\ _next_beat_time' \in Times
    BY <2>1, TimesFit DEF LedTypes, Times
  <2>5. range \in Nat /\ range \in Times /\ value \in Times
    <3>1. \A t \in Times, l \in Nat : t - l > 0 => t - l \in Nat /\ t - l \in Times
      BY TimesFit DEF Times
    <3>2. range \in Nat /\ range \in Times BY <2>4, <3>1
    <3>3. \A t \in Times : \A u \in 0 .. t : u \in Times BY TimesFit DEF Times
    <3> QED BY <3>2, <3>3
  <2>6. frac = scale8(value, range) BY <2>3, <2>4, <2>5, FractionInBeat
  <2> HIDE DEF frac, range, value
  <2> QED BY <2>5, <2>6, Scale8Quotient DEF Whole
<1> QED BY <1>1, LedInvariant, PTL DEF Spec, FractionIsQuotient

\* A beat is counted only when one has passed (NoBeatInvented): between frames
\* in one beat the fraction never falls, because scale8 is monotone.
THEOREM CountsOnlyPassedBeats == Spec => NoBeatInvented
<1> DEFINE A == LET unmoved == /\ _last_beat_time <= prev_time
                               /\ prev_beat_frac = calculate_beat_fraction(prev_time,
                                                     _last_beat_time, _next_beat_time)
                IN  _beat_count' # _beat_count /\ unmoved => _next_beat_time < now
<1>1. LedInv /\ [Next]_vars => [A]_vars
  <2> SUFFICES ASSUME LedInv, [Next]_vars, _beat_count' # _beat_count,
                      _last_beat_time <= prev_time,
                      prev_beat_frac = calculate_beat_fraction(prev_time,
                                         _last_beat_time, _next_beat_time),
                      ~ (_next_beat_time < now)
               PROVE  FALSE
    OBVIOUS
  <2>1. LedTypes BY DEF LedInv
  <2>2. LedUpdate BY <2>1, WhoDraws
  <2>3. /\ now \in Nat /\ now \in Times /\ prev_time \in Nat
        /\ _next_beat_time \in Nat /\ _next_beat_time \in Times
        /\ _last_beat_time \in Nat /\ UINT64_MAX \in Nat
    BY <2>1, TimesFit, LedAssumption DEF LedTypes, Times
  <2>4. /\ prev_time < now /\ UNCHANGED beat
        /\ prev_beat_frac' = calculate_beat_fraction(now, _last_beat_time', _next_beat_time')
        /\ prev_beat_frac > prev_beat_frac'
    BY <2>1, <2>2, <2>3, FrameIs
  <2> DEFINE u == prev_time - _last_beat_time
             v == now - _last_beat_time
             r == _next_beat_time - _last_beat_time
  <2>5. u \in Nat /\ v \in Nat /\ r \in Nat /\ u <= v
        /\ u \in Times /\ v \in Times /\ r \in Times
    BY <2>3, <2>4 DEF Times
  <2>6. prev_beat_frac = scale8(u, r) BY <2>3, <2>5, FractionInBeat
  <2>7. prev_beat_frac' = scale8(v, r) BY <2>3, <2>4, <2>5, FractionInBeat DEF beat
  <2> HIDE DEF u, v, r
  <2>8. scale8(u, r) <= scale8(v, r) BY <2>5, Scale8Monotone
  <2>9. scale8(u, r) \in Nat /\ scale8(v, r) \in Nat BY <2>5, Scale8Range, FullIs
  <2> QED BY <2>4, <2>6, <2>7, <2>8, <2>9
<1> QED BY <1>1, LedInvariant, PTL DEF Spec, NoBeatInvented

-------------------------------------------------------------------------------
(***************************************************************************)
(* Counting by the fraction's drops.  RareFrames: frames are closer than   *)
(* any beat is long, by the error of scale8.  DrawnSince says what the last *)
(* frame showed, once a frame has moved the beat past an announced one.    *)
(***************************************************************************)

RareFrames == \A p \in Periods \ {0} : Whole * (MaxFrameGap + BITS) < Full * p

DrawnSince ==
  \/ _next_beat_time = _time_ref
  \/ LET range == _next_beat_time - _last_beat_time
     IN  /\ range \in Periods \ {0} /\ _last_beat_time <= now
         /\ \/ /\ _last_beat_time < prev_time
               /\ prev_beat_frac = scale8(prev_time - _last_beat_time, range)
            \/ _last_beat_time = _time_ref /\ prev_time <= _last_beat_time

LEMMA NextDrawnSince == LedTypes /\ LedTypes' /\ DrawnSince /\ [Next]_vars => DrawnSince'
<1> SUFFICES ASSUME LedTypes, LedTypes', DrawnSince, [Next]_vars PROVE DrawnSince' OBVIOUS
<1>1. /\ now \in Nat /\ prev_time \in Nat /\ prev_time <= now
      /\ _last_beat_time \in Nat /\ _next_beat_time \in Nat /\ _next_beat_time \in Times
      /\ _last_beat_time' \in Nat /\ _next_beat_time' \in Nat /\ _next_beat_time' \in Times
  <2>1. Half \subseteq Nat /\ Half \subseteq Times /\ Times \subseteq Nat
    BY TimesFit DEF Half, Times
  <2>2. 1 .. EndOfTime \subseteq Nat BY LedAssumption
  <2> QED BY <2>1, <2>2 DEF LedTypes
<1>2. CASE Tick
  BY <1>1, <1>2 DEF Tick, tempo, beat, frame, DrawnSince
<1>3. CASE AnnounceBeat \/ AnnounceTempo
  <2>1. UNCHANGED <<now, tempo, beat, frame>> BY <1>3 DEF AnnounceBeat, AnnounceTempo
  <2> QED BY <2>1 DEF tempo, beat, frame, DrawnSince
<1>4. CASE UpdateTimeRef
  BY <1>4 DEF UpdateTimeRef, DrawnSince
<1>5. CASE UpdateTempo
  <2>1. CASE _time_ref = 0 /\ registry.tempo_period_us > 0
    <3> DEFINE p == registry.tempo_period_us
    <3>1. p \in Periods \ {0} /\ p \in Nat
      <4>1. p \in Periods \cup {0} BY DEF LedTypes
      <4>2. p # 0 BY <2>1
      <4> QED BY <4>1, <4>2, LedAssumption
    <3>2. /\ _time_ref' = now /\ _last_beat_time' = now /\ _next_beat_time' = now + p
          /\ now' = now /\ prev_time' = prev_time
      BY <1>5, <2>1 DEF UpdateTempo, frame
    <3> HIDE DEF p
    <3>3. _next_beat_time' - _last_beat_time' = p BY <1>1, <3>1, <3>2
    <3> QED BY <1>1, <3>1, <3>2, <3>3 DEF DrawnSince
  <2>2. CASE ~ (_time_ref = 0 /\ registry.tempo_period_us > 0)
    <3>1. UNCHANGED <<_time_ref, beat, now, frame>> BY <1>5, <2>2 DEF UpdateTempo
    <3> QED BY <3>1 DEF beat, frame, DrawnSince
  <2> QED BY <2>1, <2>2
<1>6. CASE LedUpdate
  <2>1. /\ prev_time' = now /\ now' = now /\ _time_ref' = _time_ref
        /\ prev_beat_frac' = calculate_beat_fraction(now, _last_beat_time', _next_beat_time')
        /\ prev_time < now
        /\ _tempo_period_us \in Periods \ {0} /\ _tempo_period_us \in Nat
    BY <1>6, FrameIs DEF tempo, LedTypes
  <2>2. ASSUME _last_beat_time' <= now, now <= _next_beat_time'
        PROVE  prev_beat_frac' = scale8(now - _last_beat_time', _next_beat_time' - _last_beat_time')
    <3>1. \A l \in Nat, t \in Nat, n \in Times :
            l <= t /\ t <= n => t - l \in Times /\ n - l \in Times
      BY TimesFit DEF Times
    <3>2. now - _last_beat_time' \in Times /\ _next_beat_time' - _last_beat_time' \in Times
      BY <1>1, <2>2, <3>1
    <3> QED BY <1>1, <2>1, <3>2, FractionInBeat
  <2>3. CASE now <= _next_beat_time
    <3>1. UNCHANGED beat BY <1>1, <1>6, <2>3, FrameIs
    <3>2. CASE _next_beat_time = _time_ref BY <2>1, <3>1, <3>2 DEF beat, DrawnSince
    <3>3. CASE _next_beat_time # _time_ref
      <4> DEFINE range == _next_beat_time - _last_beat_time
      <4>1. /\ range \in Periods \ {0} /\ _last_beat_time <= now
            /\ _last_beat_time < now \/ _last_beat_time = _time_ref
        BY <1>1, <2>1, <3>3 DEF DrawnSince
      <4>2. prev_beat_frac' = scale8(now - _last_beat_time, range)
        BY <2>2, <2>3, <3>1, <4>1 DEF beat
      <4> HIDE DEF range
      <4>3. CASE _last_beat_time < now
        BY <2>1, <3>1, <4>1, <4>2, <4>3 DEF beat, range, DrawnSince
      <4>4. CASE ~ (_last_beat_time < now)
        <5>1. _last_beat_time = _time_ref /\ now <= _last_beat_time BY <1>1, <4>1, <4>4
        <5> QED BY <2>1, <3>1, <4>1, <5>1 DEF beat, range, DrawnSince
      <4> QED BY <4>3, <4>4
    <3> QED BY <3>2, <3>3
  <2>4. CASE _next_beat_time < now
    <3>1. /\ _last_beat_time' = _next_beat_time' - _tempo_period_us
          /\ _last_beat_time' < now /\ now <= _next_beat_time'
      BY <1>1, <1>6, <2>4, FrameIs
    <3>2. _next_beat_time' - _last_beat_time' = _tempo_period_us
      <4>1. \A n, l, d \in Nat : l = n - d => n - l = d OBVIOUS
      <4> QED BY <1>1, <2>1, <3>1, <4>1
    <3>3. prev_beat_frac' = scale8(now - _last_beat_time', _next_beat_time' - _last_beat_time')
      BY <1>1, <2>2, <3>1
    <3>4. _last_beat_time' <= now BY <1>1, <3>1
    <3> QED BY <2>1, <3>1, <3>2, <3>3, <3>4 DEF DrawnSince
  <2> QED BY <1>1, <2>3, <2>4
<1>7. CASE UNCHANGED vars
  BY <1>7 DEF vars, tempo, beat, frame, DrawnSince
<1> QED BY <1>2, <1>3, <1>4, <1>5, <1>6, <1>7 DEF Next

LEMMA DrawnSinceInvariant == Spec => [](LedInv /\ DrawnSince)
<1>1. Init => LedInv /\ DrawnSince BY InitLed DEF Init, DrawnSince
<1>2. LedInv /\ DrawnSince /\ [Next]_vars => (LedInv /\ DrawnSince)'
  BY NextTypes, NextPhased, NextDrawnSince DEF LedInv
<1> QED BY <1>1, <1>2, PTL DEF Spec

\* The end of a long beat shows more than the beginning of the next one.
LEMMA FractionDrops ==
  ASSUME RareFrames,
         NEW r \in Periods \ {0}, NEW p \in Periods \ {0},
         NEW e \in Nat, e <= r, NEW v \in 0 .. p, e + v <= MaxFrameGap
  PROVE  scale8(r - e, r) > scale8(v, p)
<1> DEFINE a == scale8(r - e, r)
           b == scale8(v, p)
           g == MaxFrameGap + BITS
<1>1. /\ r \in Nat /\ r > 0 /\ p \in Nat /\ p > 0 /\ BITS \in Nat /\ MaxFrameGap \in Nat
      /\ Whole \in Nat /\ Whole > 0 /\ Full = Whole - 1
      /\ g \in Nat /\ v \in Nat
  BY LedAssumption, BitsAssumption, Weights, FullIs
<1>2. r - e \in 0 .. r /\ r - e \in Nat BY <1>1
<1>3. a \in 0 .. Full /\ b \in 0 .. Full BY <1>1, <1>2, Scale8Range
<1>4. /\ a < Full => a >= ((r - e) * Whole) \div r
      /\ b * p <= (v + BITS) * Whole
  BY <1>1, <1>2, Scale8Quotient
<1>5. PICK m \in {r, p} : m <= r /\ m <= p BY <1>1
<1>6. m \in Nat /\ m > 0 /\ Whole * g < (Whole - 1) * m
  BY <1>1, <1>5 DEF RareFrames
<1> HIDE DEF a, b
<1> DEFINE c == Whole - 1 - a
<1>7. c \in Nat /\ b \in Nat BY <1>1, <1>3
<1>8. c * r <= e * Whole
  <2>1. CASE a = Full
    <3>1. c = 0 /\ 0 * r = 0 /\ e * Whole \in Nat BY <1>1, <2>1
    <3> QED BY <3>1
  <2>2. CASE a # Full
    <3> DEFINE n == (r - e) * Whole
               q == n \div r
    <3>1. a < Full /\ a \in Nat BY <1>1, <1>3, <2>2
    <3>2. n \in Nat BY <1>1, <1>2
    <3>3. a >= q BY <1>4, <3>1
    <3> HIDE DEF n
    <3>4. q \in Nat /\ n < (q + 1) * r BY <1>1, <3>2
    <3> HIDE DEF q
    <3>5. (q + 1) * r <= (a + 1) * r BY <1>1, <3>1, <3>3, <3>4
    <3>6. n <= (a + 1) * r
      <4>1. (q + 1) * r \in Nat /\ (a + 1) * r \in Nat BY <1>1, <3>1, <3>4
      <4> QED BY <3>2, <3>4, <3>5, <4>1
    <3>7. n = r * Whole - e * Whole /\ r * Whole \in Nat /\ e * Whole \in Nat
      BY <1>1, <1>2 DEF n
    <3>8. c * r = r * Whole - (a + 1) * r /\ (a + 1) * r \in Nat BY <1>1, <3>1
    <3> QED BY <3>6, <3>7, <3>8
  <2> QED BY <2>1, <2>2
<1> HIDE DEF c
<1>9. c * m <= c * r /\ b * m <= b * p BY <1>1, <1>5, <1>6, <1>7
<1>10. e * Whole + (v + BITS) * Whole <= Whole * g
  <2>1. e * Whole + (v + BITS) * Whole = (e + v + BITS) * Whole BY <1>1
  <2>2. (e + v + BITS) * Whole <= g * Whole
    <3>1. \A x, y \in Nat : x <= y => x * Whole <= y * Whole BY <1>1
    <3>2. e + v + BITS \in Nat /\ e + v + BITS <= g BY <1>1
    <3> QED BY <1>1, <3>1, <3>2
  <2>3. g * Whole = Whole * g
    <3> HIDE DEF g
    <3> QED BY <1>1
  <2> QED BY <2>1, <2>2, <2>3
<1> HIDE DEF g
<1>11. c * m + b * m < (Whole - 1) * m
  <2> DEFINE cm == c * m
             cr == c * r
             bm == b * m
             bp == b * p
             ew == e * Whole
             vw == (v + BITS) * Whole
             gw == Whole * g
             wm == (Whole - 1) * m
  <2>1. /\ cm \in Int /\ cr \in Int /\ bm \in Int /\ bp \in Int
        /\ ew \in Int /\ vw \in Int /\ gw \in Int /\ wm \in Int
    BY <1>1, <1>6, <1>7
  <2>2. /\ cm <= cr /\ cr <= ew /\ bm <= bp /\ bp <= vw /\ ew + vw <= gw /\ gw < wm
    BY <1>4, <1>6, <1>8, <1>9, <1>10
  <2> HIDE DEF cm, cr, bm, bp, ew, vw, gw, wm
  <2>3. cm + bm < wm BY <2>1, <2>2
  <2> QED BY <2>3 DEF cm, bm, wm
<1>12. c + b < Whole - 1
  <2> SUFFICES ASSUME c + b >= Whole - 1 PROVE FALSE BY <1>1, <1>7
  <2>1. (c + b) * m >= (Whole - 1) * m BY <1>1, <1>6, <1>7
  <2>2. (c + b) * m = c * m + b * m BY <1>6, <1>7
  <2>3. c * m \in Int /\ b * m \in Int /\ (Whole - 1) * m \in Int BY <1>1, <1>6, <1>7
  <2> QED BY <1>11, <2>1, <2>2, <2>3
<1>13. b < a BY <1>1, <1>3, <1>12 DEF c
<1> QED BY <1>3, <1>13 DEF a, b

\* Once the announced beat is past, no beat goes uncounted and the count is no
\* lower than the server's (EveryBeatCounted), as long as RareFrames holds:
\* led_update sees a drop of the fraction between any two frames on either
\* side of a beat.
THEOREM NoBeatIsMissed == RareFrames /\ Spec => EveryBeatCounted
<1> DEFINE A == LET drawn   == prev_time' # prev_time /\ now - prev_time <= MaxFrameGap
                    inPhase == _time_ref < prev_time /\ prev_time <= _next_beat_time
                    passed  == _next_beat_time < now
                IN  drawn /\ inPhase /\ passed
                      => _beat_count' > _beat_count /\ _beat_count' >= _next_beat_count
<1> SUFFICES ASSUME RareFrames PROVE Spec => EveryBeatCounted OBVIOUS
<1>1. (LedInv /\ DrawnSince) /\ (LedInv /\ DrawnSince)' /\ [Next]_vars => [A]_vars
  <2> SUFFICES ASSUME LedInv, DrawnSince, LedInv', [Next]_vars,
                      prev_time' # prev_time, now - prev_time <= MaxFrameGap,
                      _time_ref < prev_time, prev_time <= _next_beat_time,
                      _next_beat_time < now
               PROVE  _beat_count' > _beat_count /\ _beat_count' >= _next_beat_count
    OBVIOUS
  <2>1. LedTypes /\ LedTypes' BY DEF LedInv
  <2>2. LedUpdate BY <2>1, WhoDraws
  <2>3. /\ now \in Nat /\ prev_time \in Nat /\ _time_ref \in Nat /\ MaxFrameGap \in Nat
        /\ _last_beat_time \in Nat /\ _next_beat_time \in Nat
        /\ _last_beat_time' \in Nat /\ _next_beat_time' \in Nat
        /\ _next_beat_time' \in Times
        /\ _beat_count \in Nat /\ _next_beat_count \in Nat
    <3>1. Half \subseteq Nat /\ Half \subseteq Times /\ Times \subseteq Nat
      BY TimesFit DEF Half, Times
    <3>2. 1 .. EndOfTime \subseteq Nat /\ 0 .. MaxCount \subseteq Nat /\ MaxFrameGap \in Nat
      BY LedAssumption
    <3> QED BY <2>1, <3>1, <3>2 DEF LedTypes
  <2>4. /\ _tempo_period_us \in Periods \ {0} /\ _tempo_period_us \in Nat
        /\ prev_beat_frac' = calculate_beat_fraction(now, _last_beat_time', _next_beat_time')
        /\ _beat_count' = IF prev_beat_frac > prev_beat_frac'
                          THEN Counted(_beat_count, _next_beat_count) ELSE _beat_count
        /\ _last_beat_time' = _next_beat_time' - _tempo_period_us
        /\ _next_beat_time <= _last_beat_time'
        /\ _last_beat_time' < now /\ now <= _next_beat_time'
    BY <2>1, <2>2, <2>3, FrameIs DEF LedTypes
  <2> DEFINE r == _next_beat_time - _last_beat_time
             e == _next_beat_time - prev_time
             p == _tempo_period_us
             v == now - _last_beat_time'
  <2>5. /\ r \in Periods \ {0} /\ _last_beat_time < prev_time
        /\ prev_beat_frac = scale8(prev_time - _last_beat_time, r)
    BY <2>3 DEF DrawnSince
  <2>6. prev_time - _last_beat_time = r - e /\ e \in Nat /\ e <= r
    BY <2>3, <2>5
  <2>7. v \in 0 .. p /\ e + v <= MaxFrameGap /\ _next_beat_time' - _last_beat_time' = p
    <3>1. \A n, l, t, d \in Nat : l = n - d /\ l < t /\ t <= n => t - l \in 0 .. d /\ n - l = d
      OBVIOUS
    <3>2. v \in 0 .. p /\ _next_beat_time' - _last_beat_time' = p
      <4>1. /\ _last_beat_time' = _next_beat_time' - p
            /\ _last_beat_time' < now /\ now <= _next_beat_time' /\ p \in Nat
        BY <2>4
      <4> QED BY <2>3, <3>1, <4>1
    <3>3. e + v <= MaxFrameGap
      <4>1. \A n, b, t, f, g \in Nat : n <= b /\ t - f <= g => (n - f) + (t - b) <= g
        OBVIOUS
      <4>2. _next_beat_time <= _last_beat_time' BY <2>4
      <4> QED BY <2>3, <4>1, <4>2
    <3> QED BY <3>2, <3>3
  <2>8. prev_beat_frac' = scale8(v, p)
    <3>1. \A l \in Nat, t \in Nat, n \in Times :
            l <= t /\ t <= n => t - l \in Times /\ n - l \in Times
      BY TimesFit DEF Times
    <3>2. now - _last_beat_time' \in Times /\ _next_beat_time' - _last_beat_time' \in Times
      <4>1. _last_beat_time' < now /\ now <= _next_beat_time' BY <2>4
      <4>2. \A l, t \in Nat : l < t => l <= t OBVIOUS
      <4>3. _last_beat_time' <= now BY <2>3, <4>1, <4>2
      <4> QED BY <2>3, <3>1, <4>1, <4>3
    <3>3. calculate_beat_fraction(now, _last_beat_time', _next_beat_time')
            = scale8(now - _last_beat_time', _next_beat_time' - _last_beat_time')
      BY <2>3, <3>2, FractionInBeat
    <3> QED BY <2>4, <2>7, <3>3
  <2>9. prev_beat_frac > prev_beat_frac'
    <3> HIDE DEF r, e, p, v
    <3>1. p \in Periods \ {0} BY <2>4 DEF p
    <3>2. scale8(r - e, r) > scale8(v, p) BY <2>5, <2>6, <2>7, <3>1, FractionDrops
    <3> QED BY <2>5, <2>6, <2>8, <3>2
  <2>10. _beat_count' = Counted(_beat_count, _next_beat_count) BY <2>4, <2>9
  <2> QED BY <2>3, <2>10 DEF Counted
<1> QED BY <1>1, DrawnSinceInvariant, PTL DEF Spec, EveryBeatCounted

-------------------------------------------------------------------------------
(***************************************************************************)
(* The LED programs.  What they compute stays in range, for every position *)
(* in the beat, every strip and every program id.                          *)
(***************************************************************************)

LEMMA SquareMonotone ==
  ASSUME NEW s \in Nat, NEW t \in Nat, s <= t
  PROVE  s * s <= t * t /\ s * s \in Nat /\ t * t \in Nat
OBVIOUS

LEMMA SquareRange ==
  ASSUME NEW t \in Byte
  PROVE  Square(t) \in 0 .. 254
<1>1. t * t <= 255 * 255 /\ t * t \in Nat
  BY SquareMonotone DEF Byte
<1> QED BY <1>1 DEF Square

LEMMA QuadraticRange ==
  ASSUME NEW t \in Byte
  PROVE  beat_intensity_quadratic(t) \in 1 .. 255
BY SquareRange DEF beat_intensity_quadratic

\* A quotient of a product by a larger factor than one of the two.
LEMMA ScaledDown ==
  ASSUME NEW a \in Nat, NEW b \in Nat, NEW c \in Nat \ {0}, a <= c
  PROVE  (a * b) \div c \in 0 .. b
<1>1. a * b \in Nat /\ a * b <= c * b
  OBVIOUS
<1>2. (c * b) \div c = b
  OBVIOUS
<1>3. (a * b) \div c <= (c * b) \div c /\ (a * b) \div c \in Nat
  BY <1>1
<1> QED BY <1>2, <1>3

\* run_pattern calls a function of the table whatever int it is given, a
\* negative one included.
THEOREM PatternInTable ==
  ASSUME NEW i \in Int
  PROVE  PatternIndex(i) \in 0 .. num_patterns - 1
BY DEF PatternIndex, Rem, num_patterns

\* pattern_random divides by its maximal brightness, which is zero near the end
\* of the beat; it draws there only at t = 240, just before.
THEOREM RandomNeverDividesByZero ==
  ASSUME NEW t \in Byte, RandomDraws(t)
  PROVE  RandomDivisor(t) \in 1 .. 15
<1>1. t <= 240
  BY DEF RandomDraws, UpdatePeriod, Byte
<1>2. t * t <= 240 * 240 /\ t * t \in Nat
  BY <1>1, SquareMonotone DEF Byte
<1>3. Square(t) \in 0 .. 225
  BY <1>2 DEF Square
<1> QED BY <1>3 DEF RandomDivisor, beat_intensity_quadratic

\* pattern_drops looks gamma8 up in its first quarter and divides only by a trail
\* of a pixel or more, on a strip of any length and one too short for a trail.
THEOREM DropsStayInGamma ==
  ASSUME NEW t \in Byte, NEW n \in Nat, NEW i \in Nat
  PROVE  /\ DropValue(t, n, i) \in 0 .. 63
         /\ 0 .. 63 \subseteq GammaIndices
         /\ InTrail(t, n, i) => TrailLength(n) > 0
<1> DEFINE m == DropIntensity(t)
           d == DropPosition(t, n) - i
<1>1. m \in 0 .. 63
  BY QuadraticRange DEF DropIntensity
<1>2. DropPosition(t, n) \in Nat /\ TrailLength(n) \in Nat
  <2>1. t * n \in Nat
    BY DEF Byte
  <2> QED BY <2>1 DEF DropPosition, TrailLength
<1>3. ASSUME InTrail(t, n, i)
      PROVE  d \in Nat /\ d < TrailLength(n)
  BY <1>2, <1>3 DEF InTrail
<1>4. ASSUME InTrail(t, n, i)
      PROVE  (d * m) \div TrailLength(n) \in 0 .. m
  <2>1. d \in Nat /\ d < TrailLength(n)
    BY <1>3, <1>4
  <2>2. TrailLength(n) \in Nat \ {0} /\ d <= TrailLength(n) /\ m \in Nat
    BY <1>1, <1>2, <2>1
  <2> HIDE DEF d, m
  <2> QED BY <2>1, <2>2, ScaledDown
<1>5. DropValue(t, n, i) \in 0 .. 63
  <2>1. CASE InTrail(t, n, i)
    <3>1. DropValue(t, n, i) = m - (d * m) \div TrailLength(n)
      BY <2>1 DEF DropValue
    <3> HIDE DEF m, d
    <3> QED BY <1>1, <1>4, <2>1, <3>1
  <2>2. CASE ~InTrail(t, n, i)
    BY <2>2 DEF DropValue
  <2> QED BY <2>1, <2>2
<1> QED BY <1>2, <1>3, <1>5 DEF GammaIndices, Byte

\* pattern_greys looks gamma8 up in its first eighth.
THEOREM GreysStayInGamma ==
  ASSUME NEW t \in Byte
  PROVE  GreysIndex(t) \in 0 .. 31
<1>1. Square(t) * Square(t) \in Nat /\ Square(t) * Square(t) <= 254 * 254
  BY SquareRange, SquareMonotone
<1>2. (Square(t) * Square(t)) \div 256 \in 0 .. 252
  BY <1>1
<1> QED BY <1>2 DEF GreysIndex, beat_intensity_exp4

LEMMA ByteBelow ==
  ASSUME NEW n \in Byte, NEW x \in 0 .. n
  PROVE  x \in Byte
BY DEF Byte

LEMMA DimmedRange ==
  ASSUME NEW value \in Byte, NEW by \in Byte
  PROVE  Dimmed(value, by) \in 0 .. value
<1>1. 255 - by \in Nat /\ 255 - by <= 256 /\ value \in Nat
  BY DEF Byte
<1>2. ((255 - by) * value) \div 256 \in 0 .. value
  BY <1>1, ScaledDown
<1>3. (255 - by) * value = value * (255 - by)
  BY <1>1
<1> QED BY <1>2, <1>3 DEF Dimmed

\* No channel of a colour exceeds the value that was asked for, which the
\* programs keep low "to not draw too much current", and the remainder, of which
\* C keeps eight bits, has no more.
THEOREM NoChannelAboveValue ==
  ASSUME NEW hue \in Byte, NEW saturation \in Byte, NEW value \in Byte
  PROVE  /\ convert_hsv_to_rgb(hue, saturation, value) \in (0 .. value) \X (0 .. value) \X (0 .. value)
         /\ Remainder(hue) \in Byte
<1>1. Region(hue) \in 0 .. 5 /\ Remainder(hue) \in 0 .. 252
  BY DEF Region, Remainder, Byte
<1> DEFINE down == (saturation * Remainder(hue)) \div 256
           up   == (saturation * (255 - Remainder(hue))) \div 256
<1>2. down \in Byte /\ up \in Byte
  <2>1. (saturation * Remainder(hue)) \div 256 \in 0 .. Remainder(hue)
    <3>1. saturation \in Nat /\ saturation <= 256 /\ Remainder(hue) \in Nat
      BY <1>1 DEF Byte
    <3> QED BY <3>1, ScaledDown
  <2>2. (saturation * (255 - Remainder(hue))) \div 256 \in 0 .. 255 - Remainder(hue)
    <3>1. saturation \in Nat /\ saturation <= 256 /\ 255 - Remainder(hue) \in Nat
      BY <1>1 DEF Byte
    <3> QED BY <3>1, ScaledDown
  <2>3. /\ \A x \in 0 .. Remainder(hue) : x \in Byte
        /\ \A x \in 0 .. 255 - Remainder(hue) : x \in Byte
    <3>1. Remainder(hue) \in Byte /\ 255 - Remainder(hue) \in Byte
      BY <1>1 DEF Byte
    <3> QED BY <3>1, ByteBelow
  <2> QED BY <2>1, <2>2, <2>3
<1> HIDE DEF down, up
<1>3. /\ Dimmed(value, saturation) \in 0 .. value
      /\ Dimmed(value, down) \in 0 .. value
      /\ Dimmed(value, up) \in 0 .. value
      /\ value \in 0 .. value
  <2>1. value \in 0 .. value
    BY DEF Byte
  <2> QED BY <1>2, <2>1, DimmedRange
<1>4. ASSUME NEW r \in Int, NEW p \in 0 .. value, NEW q \in 0 .. value, NEW x \in 0 .. value
      PROVE  Mix(r, value, p, q, x) \in (0 .. value) \X (0 .. value) \X (0 .. value)
  BY <1>3 DEF Mix
<1>5. Remainder(hue) \in Byte
  BY <1>1 DEF Byte
<1>6. convert_hsv_to_rgb(hue, saturation, value)
        \in (0 .. value) \X (0 .. value) \X (0 .. value)
  <2>1. CASE saturation = 0
    BY <1>3, <2>1 DEF convert_hsv_to_rgb
  <2>2. CASE saturation # 0
    <3>1. Mix(Region(hue), value, Dimmed(value, saturation), Dimmed(value, down),
              Dimmed(value, up)) \in (0 .. value) \X (0 .. value) \X (0 .. value)
      <4>1. Region(hue) \in Int
        BY <1>1
      <4> QED BY <1>3, <1>4, <4>1
    <3> QED BY <2>2, <3>1 DEF convert_hsv_to_rgb, down, up
  <2> QED BY <2>1, <2>2
<1> QED BY <1>5, <1>6

\* pattern_fade_grey multiplies in an int, which does not overflow.
THEOREM FadeGreyFits ==
  ASSUME NEW t \in Byte
  PROVE  GreyWord(FadeValue(t)) \in 0 .. INT_MAX
<1>1. FadeValue(t) \in 0 .. 63
  BY QuadraticRange DEF FadeValue
<1> DEFINE ones == 256 + 256 * 256 + 256 * 256 * 256
<1>2. ones \in Nat
  OBVIOUS
<1>3. 63 * ones <= INT_MAX
  BY DEF INT_MAX
<1>4. GreyWord(FadeValue(t)) = FadeValue(t) * ones
  BY DEF GreyWord
<1>5. INT_MAX \in Nat
  BY DEF INT_MAX
<1> HIDE DEF ones
<1> QED BY <1>1, <1>2, <1>3, <1>4, <1>5

\* pattern_solid multiplies t itself, and the product leaves the range of an int
\* in the whole second half of the beat.
THEOREM SolidOverflows ==
  ASSUME NEW t \in Byte
  PROVE  SolidWord(t) > INT_MAX <=> t >= 128
<1> DEFINE ones == 256 + 256 * 256 + 256 * 256 * 256
<1>1. ones \in Nat
  OBVIOUS
<1>2. 127 * ones <= INT_MAX /\ 128 * ones > INT_MAX /\ INT_MAX \in Nat
  BY DEF INT_MAX
<1>3. SolidWord(t) = t * ones
  BY DEF SolidWord, GreyWord
<1> HIDE DEF ones
<1>4. CASE t >= 128
  <2>1. t * ones >= 128 * ones
    BY <1>1, <1>4 DEF Byte
  <2> QED BY <1>1, <1>2, <1>3, <1>4, <2>1 DEF Byte
<1>5. CASE t < 128
  <2>1. t * ones <= 127 * ones
    BY <1>1, <1>5 DEF Byte
  <2> QED BY <1>1, <1>2, <1>3, <1>5, <2>1 DEF Byte
<1> QED BY <1>4, <1>5 DEF Byte

\* The fades never brighten within a beat.
THEOREM FadesFade ==
  ASSUME NEW s \in Byte, NEW t \in Byte, s <= t
  PROVE  /\ beat_intensity_quadratic(t) <= beat_intensity_quadratic(s)
         /\ FadeValue(t) <= FadeValue(s)
<1>1. s * s <= t * t /\ s * s \in Nat /\ t * t \in Nat
  BY SquareMonotone DEF Byte
<1>2. Square(s) <= Square(t) /\ Square(s) \in Nat /\ Square(t) \in Nat
  BY <1>1 DEF Square
<1> QED BY <1>2 DEF FadeValue, beat_intensity_quadratic

-------------------------------------------------------------------------------
(***************************************************************************)
(* led_update's while loop against BeatOf, which has its result in one     *)
(* expression.  A run of the loop of n turns is the function f of what     *)
(* last_beat_time and next_beat_time are before each turn and at the end;  *)
(* the addition is the unsigned one of the code.                           *)
(***************************************************************************)
LoopRun(f, n, last, next, period, time) ==
  /\ f = [i \in 0 .. n |-> IF i = 0 THEN <<last, next>>
                           ELSE <<f[i - 1][2], U64(f[i - 1][2] + period)>>]
  /\ \A i \in 0 .. n - 1 : f[i][2] < time
  /\ ~ (f[n][2] < time)

\* The beats it passes through.
Turned(i, last, next, period) ==
  IF i = 0 THEN <<last, next>> ELSE <<next + (i - 1) * period, next + i * period>>

LEMMA TurnedOnce ==
  ASSUME NEW last, NEW next \in Nat, NEW period \in Nat, NEW i \in Nat
  PROVE  /\ Turned(i, last, next, period)[2] = next + i * period
         /\ Turned(i + 1, last, next, period)
              = <<Turned(i, last, next, period)[2], Turned(i, last, next, period)[2] + period>>
<1>1. Turned(i, last, next, period)[2] = next + i * period
  BY DEF Turned
<1>2. i + 1 # 0 /\ (i + 1) - 1 = i /\ (i + 1) * period = i * period + period OBVIOUS
<1>3. next + (i + 1) * period = (next + i * period) + period
  <2>1. i * period \in Nat OBVIOUS
  <2> QED BY <1>2, <2>1
<1> QED BY <1>1, <1>2, <1>3 DEF Turned

LEMMA NoWrap ==
  ASSUME NEW t \in Nat, NEW period \in Nat, NEW time \in Nat,
         time + period <= UINT64_MAX, t < time
  PROVE  U64(t + period) = t + period
<1>1. UINT64_MAX \in Nat BY TimesFit
<1>2. t + period \in Times BY <1>1 DEF Times
<1> QED BY <1>2, Unsigned

\* A run passes through these beats and no others.
LEMMA RunIsTurned ==
  ASSUME NEW last, NEW next \in Nat, NEW period \in Nat, NEW time \in Nat,
         time + period <= UINT64_MAX,
         NEW n \in Nat, NEW f, LoopRun(f, n, last, next, period, time)
  PROVE  \A i \in 0 .. n : f[i] = Turned(i, last, next, period)
<1> DEFINE T(i) == Turned(i, last, next, period)
           S == {i \in 0 .. n : f[i] = T(i)}
<1>1. \A i \in 0 .. n : f[i] = IF i = 0 THEN <<last, next>>
                               ELSE <<f[i - 1][2], U64(f[i - 1][2] + period)>>
  BY DEF LoopRun
<1>2. 0 \in S
  <2>1. 0 \in 0 .. n OBVIOUS
  <2>2. f[0] = <<last, next>> BY <1>1, <2>1
  <2> QED BY <2>1, <2>2 DEF Turned
<1>3. ASSUME NEW i \in 0 .. n - 1, i \in S PROVE i + 1 \in S
  <2>1. i + 1 \in 0 .. n /\ i + 1 # 0 /\ (i + 1) - 1 = i /\ i \in Nat OBVIOUS
  <2>2. f[i + 1] = <<f[i][2], U64(f[i][2] + period)>> BY <1>1, <2>1
  <2>3. f[i] = T(i) /\ f[i][2] < time BY <1>3 DEF LoopRun
  <2>4. T(i)[2] = next + i * period BY <2>1, TurnedOnce
  <2>5. T(i)[2] \in Nat
    <3>1. i * period \in Nat BY <2>1
    <3> QED BY <2>4, <3>1
  <2>6. U64(f[i][2] + period) = T(i)[2] + period BY <2>3, <2>5, NoWrap
  <2>7. T(i + 1) = <<T(i)[2], T(i)[2] + period>> BY <2>1, TurnedOnce
  <2>8. f[i + 1] = T(i + 1) BY <2>2, <2>3, <2>6, <2>7
  <2> QED BY <2>1, <2>8
<1>4. S = 0 .. n
  <2>1. S \subseteq 0 .. n OBVIOUS
  <2> HIDE DEF S
  <2> QED BY <1>2, <1>3, <2>1, IntervalInduction
<1> QED BY <1>4

\* The number of turns.
TurnsOf(next, period, time) == IF next < time THEN Beats(next, period, time) ELSE 0

\* They are the first turn that leaves the next beat where it is not past.
LEMMA TurnsAre ==
  ASSUME NEW last, NEW next \in Nat, NEW period \in Nat, period > 0, NEW time \in Nat
  PROVE  LET n == TurnsOf(next, period, time)
         IN  /\ n \in Nat
             /\ \A i \in Nat : next + i * period < time <=> i < n
             /\ Turned(n, last, next, period) = BeatOf(last, next, period, time)
<1> DEFINE n == TurnsOf(next, period, time)
<1>1. CASE next < time
  <2> DEFINE b == Beats(next, period, time)
  <2>1. /\ b \in Nat \ {0}
        /\ BeatOf(last, next, period, time) = <<next + (b - 1) * period, next + b * period>>
        /\ next + (b - 1) * period < time /\ time <= next + b * period
    <3>1. Advanced(last, next, period, time) BY <1>1, AdvancedBeat
    <3> QED BY <3>1 DEF Advanced
  <2>2. /\ n \in Nat \ {0}
        /\ BeatOf(last, next, period, time) = <<next + (n - 1) * period, next + n * period>>
        /\ next + (n - 1) * period < time /\ time <= next + n * period
    <3>1. n = b BY <1>1 DEF TurnsOf
    <3> HIDE DEF b, n
    <3> QED BY <2>1, <3>1
  <2> HIDE DEF b, n
  <2>3. ASSUME NEW i \in Nat PROVE next + i * period < time <=> i < n
    <3>1. CASE i < n
      <4>1. i * period <= (n - 1) * period
        <5>1. i <= n - 1 /\ n - 1 \in Nat BY <2>2, <3>1
        <5> QED BY <5>1
      <4>2. i * period \in Int /\ (n - 1) * period \in Int BY <2>2
      <4> QED BY <2>2, <3>1, <4>1, <4>2
    <3>2. CASE n <= i
      <4>1. n * period <= i * period BY <2>2, <3>2
      <4>2. i * period \in Int /\ n * period \in Int BY <2>2
      <4>3. time <= next + i * period BY <2>2, <4>1, <4>2
      <4> QED BY <2>2, <3>2, <4>2, <4>3
    <3> QED BY <2>2, <3>1, <3>2
  <2>4. Turned(n, last, next, period) = BeatOf(last, next, period, time)
    BY <2>2 DEF Turned
  <2> QED BY <2>2, <2>3, <2>4 DEF n
<1>2. CASE time <= next
  <2>1. n = 0 BY <1>2 DEF TurnsOf
  <2>2. ASSUME NEW i \in Nat PROVE ~ (next + i * period < time)
    <3>1. i * period \in Nat OBVIOUS
    <3> QED BY <1>2, <3>1
  <2>3. Turned(0, last, next, period) = BeatOf(last, next, period, time)
    BY <1>2 DEF Turned, BeatOf
  <2>4. \A i \in Nat : ~ (i < 0) OBVIOUS
  <2> HIDE DEF n
  <2> QED BY <2>1, <2>2, <2>3, <2>4 DEF n
<1> QED BY <1>1, <1>2

\* The loop ends, and with what the model says, whatever the two beats, the
\* period and the time, as long as one period from now has not wrapped; it has
\* then made no more turns than there were periods to make up for, one begun
\* included.
THEOREM AdvanceIsLoop ==
  ASSUME NEW last, NEW next \in Nat, NEW period \in Nat, period > 0, NEW time \in Nat,
         time + period <= UINT64_MAX
  PROVE  /\ \E n \in Nat : \E f : LoopRun(f, n, last, next, period, time)
         /\ \A n \in Nat : \A f :
              LoopRun(f, n, last, next, period, time)
              => /\ f[n] = BeatOf(last, next, period, time)
                 /\ n > 0 => (n - 1) * period < time - next
<1> DEFINE T(i) == Turned(i, last, next, period)
           m == TurnsOf(next, period, time)
<1>1. /\ m \in Nat
      /\ \A i \in Nat : next + i * period < time <=> i < m
      /\ T(m) = BeatOf(last, next, period, time)
  BY TurnsAre
<1> HIDE DEF m
<1>2. \A i \in Nat : T(i)[2] = next + i * period /\ T(i + 1) = <<T(i)[2], T(i)[2] + period>>
  BY TurnedOnce
<1>3. \A i \in Nat : next + i * period \in Nat
  <2>1. ASSUME NEW i \in Nat PROVE next + i * period \in Nat
    <3>1. i * period \in Nat OBVIOUS
    <3> QED BY <3>1
  <2> QED BY <2>1
<1>4. T(0) = <<last, next>> BY DEF Turned
<1> HIDE DEF T
<1>5. \E f : LoopRun(f, m, last, next, period, time)
  <2> DEFINE f == [i \in 0 .. m |-> T(i)]
  <2>1. ASSUME NEW i \in 0 .. m
        PROVE f[i] = IF i = 0 THEN <<last, next>> ELSE <<f[i - 1][2], U64(f[i - 1][2] + period)>>
    <3>1. CASE i = 0 BY <1>4, <3>1
    <3>2. CASE i # 0
      <4> DEFINE j == i - 1
      <4>1. j \in Nat /\ j < m /\ j \in 0 .. m /\ j + 1 = i BY <1>1, <3>2
      <4> HIDE DEF j
      <4>2. T(i) = <<T(j)[2], T(j)[2] + period>> BY <1>2, <4>1
      <4>3. T(j)[2] \in Nat /\ T(j)[2] < time BY <1>1, <1>2, <1>3, <4>1
      <4>4. U64(T(j)[2] + period) = T(j)[2] + period BY <4>3, NoWrap
      <4>5. f[i] = T(i) /\ f[j] = T(j) BY <4>1
      <4>6. f[i] = <<f[j][2], U64(f[j][2] + period)>> BY <4>2, <4>4, <4>5
      <4> QED BY <3>2, <4>6 DEF j
    <3> QED BY <3>1, <3>2
  <2>2. ASSUME NEW i \in 0 .. m - 1 PROVE f[i][2] < time
    <3>1. i \in Nat /\ i < m /\ i \in 0 .. m BY <1>1
    <3>2. f[i] = T(i) BY <3>1
    <3> QED BY <1>1, <1>2, <3>1, <3>2
  <2>3. ~ (f[m][2] < time)
    <3>1. f[m] = T(m) BY <1>1
    <3>2. ~ (m < m) BY <1>1
    <3> QED BY <1>1, <1>2, <3>1, <3>2
  <2>4. f = [i \in 0 .. m |-> f[i]] OBVIOUS
  <2> HIDE DEF f
  <2>5. [i \in 0 .. m |-> f[i]]
          = [i \in 0 .. m |-> IF i = 0 THEN <<last, next>>
                              ELSE <<f[i - 1][2], U64(f[i - 1][2] + period)>>]
    BY <2>1
  <2>6. f = [i \in 0 .. m |-> IF i = 0 THEN <<last, next>>
                              ELSE <<f[i - 1][2], U64(f[i - 1][2] + period)>>]
    BY <2>4, <2>5
  <2>7. LoopRun(f, m, last, next, period, time) BY <2>2, <2>3, <2>6 DEF LoopRun
  <2> QED BY <2>7
<1>6. ASSUME NEW n \in Nat, NEW f, LoopRun(f, n, last, next, period, time)
      PROVE  /\ f[n] = BeatOf(last, next, period, time)
             /\ n > 0 => (n - 1) * period < time - next
  <2>1. \A i \in 0 .. n : f[i] = T(i) BY <1>6, RunIsTurned DEF T
  <2>2. ~ (n < m)
    <3>1. n \in 0 .. n /\ ~ (f[n][2] < time) BY <1>6 DEF LoopRun
    <3>2. ~ (next + n * period < time) BY <1>2, <2>1, <3>1
    <3> QED BY <1>1, <3>2
  <2>3. CASE n = 0
    <3>1. n = m BY <1>1, <2>2, <2>3
    <3>2. f[n] = T(n) BY <2>1
    <3> QED BY <1>1, <2>3, <3>1, <3>2
  <2>4. CASE n # 0
    <3> DEFINE j == n - 1
    <3>1. j \in Nat /\ j \in 0 .. n - 1 /\ j \in 0 .. n /\ n = j + 1 BY <2>4
    <3>2. f[j][2] < time BY <1>6, <3>1 DEF LoopRun
    <3>3. next + j * period < time BY <1>2, <2>1, <3>1, <3>2
    <3>4. j < m BY <1>1, <3>1, <3>3
    <3>5. n = m BY <1>1, <2>2, <3>1, <3>4
    <3>6. f[n] = BeatOf(last, next, period, time) BY <1>1, <2>1, <3>5
    <3>7. j * period < time - next
      <4>1. j * period \in Nat BY <3>1
      <4> QED BY <3>3, <4>1
    <3> QED BY <3>6, <3>7
  <2> QED BY <2>3, <2>4
<1> QED BY <1>1, <1>5, <1>6

\* In every frame that is drawn the hypotheses hold: what the frame makes of the
\* two beats is the end of a run of the loop, in which nothing wraps.
THEOREM FramesRunTheLoop ==
  Spec => [][LedUpdate => \E n \in Nat : \E f :
                            /\ LoopRun(f, n, _last_beat_time, _next_beat_time,
                                       _tempo_period_us, now)
                            /\ beat' = f[n]]_vars
<1> DEFINE Ran == \E n \in Nat : \E f :
                    /\ LoopRun(f, n, _last_beat_time, _next_beat_time, _tempo_period_us, now)
                    /\ beat' = f[n]
<1>1. ASSUME LedInv, LedUpdate PROVE Ran
  <2> DEFINE p == _tempo_period_us
  <2>1. LedTypes BY <1>1 DEF LedInv
  <2>2. p \in Nat /\ p > 0 /\ p \in Periods
    BY <1>1, <2>1, LedAssumption DEF LedTypes, LedUpdate, Drawing
  <2>3. now \in Nat /\ now \in 0 .. EndOfTime /\ _next_beat_time \in Nat
    BY <2>1, LedAssumption DEF LedTypes, Half
  <2>4. now + p <= UINT64_MAX
    <3>1. now + p \in Half BY <2>2, <2>3, TimesFit
    <3> DEFINE e == now + p
    <3>2. e \in Times BY <3>1, TimesFit
    <3> HIDE DEF e
    <3>3. e <= UINT64_MAX BY <3>2, TimesFit DEF Times
    <3> QED BY <3>3 DEF e
  <2>5. beat' = BeatOf(_last_beat_time, _next_beat_time, p, now)
    <3>1. CASE now <= _next_beat_time
      <4>1. BeatOf(_last_beat_time, _next_beat_time, p, now)
              = <<_last_beat_time, _next_beat_time>>
        BY <2>3, <3>1 DEF BeatOf
      <4> QED BY <1>1, <4>1 DEF LedUpdate, beat
    <3>2. CASE _next_beat_time < now
      <4> DEFINE a == _next_beat_time + (Beats(_next_beat_time, p, now) - 1) * p
                 b == _next_beat_time + Beats(_next_beat_time, p, now) * p
      <4>1. BeatOf(_last_beat_time, _next_beat_time, p, now) = <<a, b>>
        <5> HIDE DEF p
        <5>1. Advanced(_last_beat_time, _next_beat_time, p, now)
          BY <2>2, <2>3, <3>2, AdvancedBeat
        <5> QED BY <5>1 DEF Advanced
      <4> HIDE DEF a, b
      <4> QED BY <1>1, <4>1 DEF LedUpdate, beat
    <3> QED BY <2>3, <3>1, <3>2
  <2> HIDE DEF p
  <2>6. PICK n \in Nat : \E f : LoopRun(f, n, _last_beat_time, _next_beat_time, p, now)
    BY <2>2, <2>3, <2>4, AdvanceIsLoop
  <2>7. PICK f : LoopRun(f, n, _last_beat_time, _next_beat_time, p, now) BY <2>6
  <2>8. f[n] = BeatOf(_last_beat_time, _next_beat_time, p, now)
    BY <2>2, <2>3, <2>4, <2>7, AdvanceIsLoop
  <2> QED BY <2>5, <2>7, <2>8 DEF p
<1>2. LedInv /\ [Next]_vars => [LedUpdate => Ran]_vars
  BY <1>1
<1> QED BY <1>2, LedInvariant, PTL DEF Spec

===============================================================================
