---------------------------- MODULE BeatFraction -----------------------------
(***************************************************************************)
(* How far into a beat the LED core is, ws2812/ws2812.c: scale8 divides    *)
(* without a division, one bit of the quotient per halving of the range,   *)
(* and each halving drops a bit of it.                                     *)
(***************************************************************************)
EXTENDS Integers

CONSTANT BITS   \* of the result; 8 in the code

ASSUME BitsAssumption == BITS \in Nat \ {0}

Full == 2 ^ BITS - 1

\* MUTANT of Reaches: > for >=.
ReachesBeyond(value, part) == value > part

Reaches(value, part) == value >= part

\* MUTANT of Weight: 8 - i for 7 - i, in the code's counting from 0.
WeightTwice(i) == 2 ^ (BITS - i + 1)

\* The bit the i-th halving decides, the highest first.
Weight(i) == 2 ^ (BITS - i)

\* After i halvings: what is left of the value, and the result so far.
scale8(value, range) ==
  LET part(i) == range \div 2 ^ i
      after[i \in 0 .. BITS] ==
        IF i = 0 THEN [left |-> value, result |-> 0]
        ELSE LET before == after[i - 1]
             IN  IF Reaches(before.left, part(i))
                 THEN [left |-> before.left - part(i),
                       result |-> (before.result + Weight(i)) % 2 ^ BITS]
                 ELSE before
  IN  CASE range = 0      -> 0
        [] range > 0 /\ value >= range -> Full
        [] OTHER          -> after[BITS].result

==============================================================================
