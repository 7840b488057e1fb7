------------------------------ MODULE SeqNumbers ------------------------------
(***************************************************************************)
(* 16-bit sequence numbers as NEXT_BEAT and PROGRAM carry them: the signed *)
(* difference the controller takes between a received number and the last  *)
(* one it applied, and the two filters built on it.                        *)
(***************************************************************************)
EXTENDS Integers

CONSTANT SeqModulus    \* 2^16 in the code

ASSUME SeqAssumption == SeqModulus \in Nat \ {0}

SeqNumber == 0 .. SeqModulus - 1

\* The stored number before the first message: have_seen_... is false.
NoSeq == -1
LastSeq == NoSeq .. SeqModulus - 1

\* MUTANT of SeqDelta: not cast back to 16 bits after C's promotion to int.
SeqDeltaPromoted(seq, last) == seq - last

\* (int16_t)(seq - last): the unsigned difference read as two's complement.
SeqDelta(seq, last) ==
  LET d == (seq - last) % SeqModulus
  IN  IF 2 * d < SeqModulus THEN d ELSE d - SeqModulus

\* process_next_beat_msg applies a broadcast only when it is strictly newer.
NextBeatFresh(seq, last) == last # NoSeq => SeqDelta(seq, last) > 0

\* MUTANT of ProgramFresh: as strict as for NEXT_BEAT.
ProgramFreshStrict(seq, last) == last # NoSeq => SeqDelta(seq, last) > 0

\* command_program also accepts the number it applied last (the 1 Hz refresh).
ProgramFresh(seq, last) == last # NoSeq => SeqDelta(seq, last) >= 0

===============================================================================
