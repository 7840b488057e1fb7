------------------------------- MODULE Patterns -------------------------------
(***************************************************************************)
(* The arithmetic of the LED programs, ws2812/ws2812_patterns.c and        *)
(* ws2812/programs: the table index, the intensity curves and the colours, *)
(* with every index and divisor the code computes.  The parameter t is the *)
(* position in the beat, 0 .. 255 (scale8 of BeatFraction).  Each operator *)
(* is the value C computes where it does not overflow; that it does not,   *)
(* that indices stay in their tables and that divisors are not zero is     *)
(* what LedClock_proofs is about.                                          *)
(***************************************************************************)
EXTENDS Integers

Byte == 0 .. 255

\* C's %, which takes the sign of the dividend.
Rem(a, b) == IF a >= 0 THEN a % b ELSE -((-a) % b)

num_patterns == 8

\* run_pattern's index: any int, a program id of the server's included.
PatternIndex(i) == Rem(Rem(i, num_patterns) + num_patterns, num_patterns)

-------------------------------------------------------------------------------
(* Curves. *)

Square(t) == (t * t) \div 256

beat_intensity_quadratic(t) == 255 - Square(t)

beat_intensity_exp4(t) == 255 - (Square(t) * Square(t)) \div 256

\* gamma8 has an entry for every byte.
GammaIndices == Byte

\* The index pattern_greys looks up.
GreysIndex(t) == beat_intensity_exp4(t) \div 8

-------------------------------------------------------------------------------
(* pattern_random. *)

\* One more than update_mask.
UpdatePeriod(t) == IF t < 64 THEN 4 ELSE IF t < 128 THEN 8 ELSE 16

\* Not one of the two early returns.
RandomDraws(t) == t >= 8 /\ t % UpdatePeriod(t) = 0

\* max_brightness, which every rand() is divided by.
RandomDivisor(t) == beat_intensity_quadratic(t) \div 16

-------------------------------------------------------------------------------
(* pattern_sparkle. *)

SparkleDivisor(t) == IF t < 32 THEN 4 ELSE IF t < 128 THEN 8 ELSE 16

-------------------------------------------------------------------------------
(* pattern_drops, on a strip of n pixels. *)

DropPosition(t, n) == (t * n) \div 256
TrailLength(n) == n \div 3
DropIntensity(t) == beat_intensity_quadratic(t) \div 4

\* The gradient is computed, and divided by the length of the trail.
InTrail(t, n, i) ==
  /\ i <= DropPosition(t, n)
  /\ DropPosition(t, n) - i < TrailLength(n)

\* What gamma8 is looked up at.
DropValue(t, n, i) ==
  IF InTrail(t, n, i)
  THEN DropIntensity(t)
         - ((DropPosition(t, n) - i) * DropIntensity(t)) \div TrailLength(n)
  ELSE 0

-------------------------------------------------------------------------------
(* Colours. *)

Region(hue) == hue \div 43
Remainder(hue) == (hue - Region(hue) * 43) * 6

Dimmed(value, by) == (value * (255 - by)) \div 256

\* Red, green and blue in each of the six regions.
Mix(region, value, p, q, t) ==
  IF region = 0 THEN <<value, t, p>>
  ELSE IF region = 1 THEN <<q, value, p>>
  ELSE IF region = 2 THEN <<p, value, t>>
  ELSE IF region = 3 THEN <<p, q, value>>
  ELSE IF region = 4 THEN <<t, p, value>>
  ELSE <<value, p, q>>

convert_hsv_to_rgb(hue, saturation, value) ==
  IF saturation = 0 THEN <<value, value, value>>
  ELSE Mix(Region(hue), value, Dimmed(value, saturation),
           Dimmed(value, (saturation * Remainder(hue)) \div 256),
           Dimmed(value, (saturation * (255 - Remainder(hue))) \div 256))

\* A grey as pattern_fade_grey computes it, in an int.
GreyWord(value) == value * (256 + 256 * 256 + 256 * 256 * 256)
FadeValue(t) == beat_intensity_quadratic(t) \div 4

\* pattern_solid multiplies in an int too.
SolidWord(t) == GreyWord(t)

INT_MAX == 128 * 256 * 256 * 256 - 1

===============================================================================
