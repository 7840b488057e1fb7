----------------------------- MODULE OffsetFilter -----------------------------
(***************************************************************************)
(* From a time exchange to the clock: command/time/time.c's ring of        *)
(* samples and its median filter, and clock/clock.c, which applies the     *)
(* result to the server's beat times.                                      *)
(*                                                                         *)
(* An exchange has four time stamps: the request leaves (orig) and the     *)
(* answer arrives (dest) by the controller's clock, the server receives    *)
(* (recv) and answers (xmit) by its own.  The server's clock is ahead of   *)
(* the controller's by true_offset, which changes when the server restarts *)
(* or its clock is set.  Flights to and from the server take any time; the *)
(* server's clock runs evenly while it holds one request.                  *)
(***************************************************************************)
EXTENDS Integers, FiniteSets

CONSTANTS
  TIME_SYNC_SAMPLES,
  UINT64_MAX, UINT32_MAX,  \* the largest 64-bit and 32-bit values
  Flights,                 \* how long a datagram may be under way, in us
  Holds,                   \* how long the server may hold a request
  Instants,                \* when a request may be sent
  Offsets                  \* how far the server's clock may be ahead

ASSUME SamplesAssumption == TIME_SYNC_SAMPLES \in Nat \ {0}
ASSUME TimesAssumption ==
  /\ Flights \subseteq Nat /\ Holds \subseteq Nat /\ Instants \subseteq Nat
  /\ Offsets \subseteq Int
  /\ \A i \in Instants, o \in Offsets : i + o >= 0
  /\ UINT64_MAX \in Nat /\ UINT32_MAX \in Nat
  /\ \A f, b \in Flights : 2 * (f + b) <= UINT32_MAX /\ 2 * (f + b) <= UINT64_MAX

VARIABLES
  samples,             \* per slot, a sample or NoSample
  sample_write_idx,
  server_time_offset,  \* the clock: what is taken off a server time
  true_offset          \* what should be

vars == <<samples, sample_write_idx, server_time_offset, true_offset>>

Slots == 0 .. TIME_SYNC_SAMPLES - 1
NoSample == [valid |-> FALSE]

-------------------------------------------------------------------------------
(* The filter. *)

\* MUTANT of ClockOffset: only the way there is looked at.
OneWayOffset(orig, recv, xmit, dest) == recv - orig

\* The four time stamps are halved before they are subtracted, each rounded
\* down, to stay clear of the sign bit.
ClockOffset(orig, recv, xmit, dest) ==
  ((recv \div 2) - (orig \div 2)) + ((xmit \div 2) - (dest \div 2))

\* Unsigned arithmetic.
Delay(orig, recv, xmit, dest) == ((dest - orig) - (xmit - recv)) % (UINT64_MAX + 1)

NextSlot(idx) == (idx + 1) % TIME_SYNC_SAMPLES

Valid(ring) == {i \in Slots : ring[i] # NoSample}

\* qsort, then the element at n / 2: as many as n / 2 may be smaller.
Middle(f) ==
  LET n == Cardinality(DOMAIN f)
  IN  CHOOSE v \in {f[i] : i \in DOMAIN f} :
        /\ Cardinality({i \in DOMAIN f : f[i] < v}) <= n \div 2
        /\ Cardinality({i \in DOMAIN f : f[i] <= v}) > n \div 2

median_delay(ring) ==
  IF Valid(ring) = {} THEN 0 ELSE Middle([i \in Valid(ring) |-> ring[i].delay_us])

\* MUTANT of Threshold: nothing is an outlier.
NoThreshold(med) == UINT64_MAX

\* Twice the median, unless doubling it overflows or leaves it zero.
Threshold(med) == LET twice == (med * 2) % (UINT64_MAX + 1)
                  IN  IF twice > med THEN twice ELSE UINT64_MAX

Accepted(ring) ==
  {i \in Valid(ring) : ring[i].delay_us <= Threshold(median_delay(ring))}

median_offset(ring) ==
  IF Accepted(ring) = {} THEN 0 ELSE Middle([i \in Accepted(ring) |-> ring[i].offset_us])

\* What TEMPO_REQUEST tells the server: half the median round trip.
time_sync_owd_estimate_us ==
  LET owd == median_delay(samples) \div 2
  IN  IF owd > UINT32_MAX THEN UINT32_MAX ELSE owd

\* MUTANT of server_time_to_local_time: a negative offset keeps its sign.
LocalTimeSigned(server_time) ==
  (IF server_time_offset > 0 THEN server_time - server_time_offset
                             ELSE server_time + server_time_offset) % (UINT64_MAX + 1)

\* A server time on the controller's clock, unsigned; the offset is signed
\* and its two signs are told apart.
server_time_to_local_time(server_time) ==
  (IF server_time_offset > 0 THEN server_time - server_time_offset
                             ELSE server_time + (-server_time_offset)) % (UINT64_MAX + 1)

-------------------------------------------------------------------------------
Init == /\ samples = [i \in Slots |-> NoSample]
        /\ sample_write_idx = 0
        /\ server_time_offset = 0
        /\ true_offset \in Offsets

\* process_time_msg after its checks: one exchange becomes a sample and the
\* offset is computed anew.  (truth is there for the properties only.)
ProcessTimeMsg(orig, out, hold, back) ==
  LET recv == orig + true_offset + out
      xmit == recv + hold
      dest == orig + out + hold + back
      sample == [valid |-> TRUE,
                 delay_us |-> Delay(orig, recv, xmit, dest),
                 offset_us |-> ClockOffset(orig, recv, xmit, dest),
                 truth |-> true_offset]
  IN  /\ samples' = [samples EXCEPT ![sample_write_idx] = sample]
      /\ sample_write_idx' = NextSlot(sample_write_idx)
      /\ server_time_offset' = median_offset(samples')
      /\ UNCHANGED true_offset

\* The server restarts on another clock, or its clock is set.
ClockStep == /\ true_offset' \in Offsets \ {true_offset}
             /\ UNCHANGED <<samples, sample_write_idx, server_time_offset>>

Next == \/ \E orig \in Instants, out, back \in Flights, hold \in Holds :
             ProcessTimeMsg(orig, out, hold, back)
        \/ ClockStep

Spec == Init /\ [][Next]_vars

-------------------------------------------------------------------------------
(***************************************************************************)
(* Properties.                                                             *)
(***************************************************************************)

TypeOK ==
  /\ \A i \in Slots : \/ samples[i] = NoSample
                      \/ /\ samples[i].delay_us \in 0 .. UINT64_MAX
                         /\ samples[i].offset_us \in Int
                         /\ samples[i].truth \in Offsets
  /\ sample_write_idx \in Slots
  /\ server_time_offset \in Int
  /\ true_offset \in Offsets

Current == {i \in Valid(samples) : samples[i].truth = true_offset}

\* How far a server time, put on the controller's clock, is from the truth.
\* (Taken late enough for unsigned arithmetic not to wrap.)
BeatError == LET T == UINT64_MAX \div 2
                 late == server_time_to_local_time(T) - (T - true_offset)
             IN  IF late < 0 THEN -late ELSE late

\* While the server's clock has not been changed behind the samples, a beat
\* is placed on the controller's clock no further from its time than the
\* one-way delay the controller reports to the server (plus 1 us lost in
\* halving): flights may be as unequal as they like, and up to half of the
\* samples may be Wi-Fi retransmits.
AccurateWithinDelay ==
  Valid(samples) # {} /\ Current = Valid(samples)
    => BeatError <= time_sync_owd_estimate_us + 1

\* After the server's clock has changed, the old samples still in the ring
\* are outvoted as soon as more than half of those accepted are new; the
\* error is then bounded by the rejection of outliers alone.  (A median delay
\* of zero switches the rejection off, and the bound with it.)
MajorityDecides ==
  LET accepted == Accepted(samples)
      majority == 2 * Cardinality(Current \cap accepted) > Cardinality(accepted)
  IN  majority /\ median_delay(samples) > 0
        => BeatError <= median_delay(samples) + 1

===============================================================================
