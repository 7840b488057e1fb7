-------------------------- MODULE OffsetFilter_proofs --------------------------
(***************************************************************************)
(* The median filter places a beat within the delay it reports, for every  *)
(* number of samples and every length of flight.                           *)
(*                                                                         *)
(* The argument is a vote.  Every sample is off by half of its own round   *)
(* trip at most (SampleInv).  The median of a finite set of samples exists *)
(* and has, in every majority of the samples, one at most as large and one *)
(* at least as large (MajorityStraddles); so it is no further from the     *)
(* truth than the members of any majority are.                             *)
(***************************************************************************)
EXTENDS OffsetFilter, FiniteSetTheorems, TLAPS

\* A sample is good for half of its round trip, and one microsecond lost in
\* halving the stamps; the round trip is two flights.
SampleOK(s) ==
  /\ s.valid = TRUE
  /\ \E out, back \in Flights : s.delay_us = out + back
  /\ s.truth \in Offsets
  /\ s.offset_us \in Int
  /\ 2 * (s.offset_us - s.truth) <= s.delay_us + 2
  /\ 2 * (s.truth - s.offset_us) <= s.delay_us + 2

FilterInv ==
  /\ DOMAIN samples = Slots
  /\ \A i \in Slots : samples[i] = NoSample \/ SampleOK(samples[i])
  /\ sample_write_idx \in Slots
  /\ true_offset \in Offsets
  /\ server_time_offset = median_offset(samples)

\* The clocks are no further apart than half the range of a 64-bit microsecond
\* counter (292 000 years), flights included.
RoomForOffsets ==
  \A o \in Offsets, out, back \in Flights :
    /\ o + out + back + 1 <= UINT64_MAX \div 2
    /\ out + back + 1 - o <= UINT64_MAX \div 2

-------------------------------------------------------------------------------
(***************************************************************************)
(* The median.                                                             *)
(***************************************************************************)

\* A family of subsets of a finite set has a smallest member.
LEMMA SmallestMember ==
  ASSUME NEW D, IsFiniteSet(D), NEW T, T \subseteq SUBSET D, T # {}
  PROVE  \E x \in T : \A y \in T : y \subseteq x => y = x
<1>1. FiniteSubsetsOf(D) = SUBSET D BY FS_FiniteSubsetsOfFinite
<1>2. IsWellFoundedOn(StrictSubsetOrdering(D), SUBSET D)
  BY <1>1, FS_StrictSubsetOrderingWellFounded
<1>3. \E x \in T : \A y \in T : ~ (<<y, x>> \in StrictSubsetOrdering(D))
  BY <1>2, WFMin
<1>4. PICK x \in T : \A y \in T : ~ (<<y, x>> \in StrictSubsetOrdering(D))
  BY <1>3
<1>5. ASSUME NEW y \in T, y \subseteq x, y # x PROVE FALSE
  BY <1>4, <1>5 DEF StrictSubsetOrdering
<1> QED BY <1>5

\* Those that are at most v, those below it.
AtMost(f, v) == {i \in DOMAIN f : f[i] <= v}
Below(f, v)  == {i \in DOMAIN f : f[i] < v}

\* The operator's CHOOSE has something to choose: the median exists.
LEMMA MedianExists ==
  ASSUME NEW D, IsFiniteSet(D), D # {}, NEW f \in [D -> Int]
  PROVE  \E m \in D : /\ Cardinality(Below(f, f[m])) <= Cardinality(D) \div 2
                      /\ Cardinality(AtMost(f, f[m])) > Cardinality(D) \div 2
<1> DEFINE n == Cardinality(D)
           Good == {i \in D : Cardinality(AtMost(f, f[i])) > n \div 2}
<1>1. n \in Nat /\ n > 0 BY FS_CardinalityType, FS_EmptySet
<1>2. \A i \in D : AtMost(f, f[i]) \in SUBSET D /\ Below(f, f[i]) \in SUBSET D
  BY DEF AtMost, Below
<1>3. \A i \in D : /\ IsFiniteSet(AtMost(f, f[i])) /\ IsFiniteSet(Below(f, f[i]))
                   /\ Cardinality(AtMost(f, f[i])) \in Nat
                   /\ Cardinality(Below(f, f[i])) \in Nat
  BY <1>2, FS_Subset, FS_CardinalityType
<1>4. Good # {}
  <2> DEFINE Over == {D \ AtMost(f, f[i]) : i \in D}
  <2>1. Over \subseteq SUBSET D /\ Over # {} OBVIOUS
  <2> HIDE DEF Over
  <2>2. PICK x \in Over : \A y \in Over : y \subseteq x => y = x
    BY <2>1, SmallestMember
  <2> USE DEF Over
  <2>3. PICK top \in D : x = D \ AtMost(f, f[top]) BY <2>2
  <2>4. ASSUME NEW j \in D PROVE f[j] <= f[top]
    <3> SUFFICES ASSUME f[top] < f[j] PROVE FALSE BY DEF AtMost
    <3>1. D \ AtMost(f, f[j]) \subseteq x BY <2>3 DEF AtMost
    <3>2. D \ AtMost(f, f[j]) = x BY <2>2, <3>1
    <3>3. j \in x /\ j \notin D \ AtMost(f, f[j]) BY <2>3 DEF AtMost
    <3> QED BY <3>2, <3>3
  <2>5. AtMost(f, f[top]) = D BY <2>4 DEF AtMost
  <2>6. n > n \div 2 BY <1>1
  <2> QED BY <2>5, <2>6
<1>5. PICK m \in Good :
        \A k \in Good : AtMost(f, f[k]) \subseteq AtMost(f, f[m])
                        => AtMost(f, f[k]) = AtMost(f, f[m])
  <2> DEFINE T == {AtMost(f, f[i]) : i \in Good}
  <2>1. T \subseteq SUBSET D /\ T # {} BY <1>2, <1>4
  <2> HIDE DEF T
  <2>2. PICK x \in T : \A y \in T : y \subseteq x => y = x
    BY <2>1, SmallestMember
  <2> USE DEF T
  <2> QED BY <2>2
<1>6. Cardinality(Below(f, f[m])) <= n \div 2
  <2>1. CASE Below(f, f[m]) = {}
    <3>1. Cardinality(Below(f, f[m])) = 0 BY <2>1, FS_EmptySet
    <3> QED BY <1>1, <3>1
  <2>2. CASE Below(f, f[m]) # {}
    <3> DEFINE Gap(i) == Below(f, f[m]) \ AtMost(f, f[i])
               T == {Gap(i) : i \in Below(f, f[m])}
    <3>1. T \subseteq SUBSET D /\ T # {} BY <1>2, <2>2
    <3> HIDE DEF T
    <3>2. PICK x \in T : \A y \in T : y \subseteq x => y = x
      BY <3>1, SmallestMember
    <3> USE DEF T
    <3>3. PICK p \in Below(f, f[m]) : x = Gap(p) BY <3>2
    <3>4. p \in D /\ f[p] < f[m] /\ f[p] \in Int /\ f[m] \in Int BY DEF Below
    <3>5. ASSUME NEW j \in Below(f, f[m]) PROVE j \in AtMost(f, f[p])
      <4> SUFFICES ASSUME j \notin AtMost(f, f[p]) PROVE FALSE OBVIOUS
      <4>1. j \in D /\ f[j] \in Int /\ f[p] < f[j] BY <3>4 DEF AtMost, Below
      <4>2. Gap(j) \subseteq x BY <3>3, <3>4, <4>1 DEF AtMost
      <4>3. Gap(j) = x BY <3>2, <4>2
      <4>4. j \in x /\ j \notin Gap(j) BY <3>3, <4>1 DEF AtMost
      <4> QED BY <4>3, <4>4
    <3>6. Cardinality(Below(f, f[m])) <= Cardinality(AtMost(f, f[p]))
      BY <1>3, <3>4, <3>5, FS_Subset
    <3>7. p \notin Good
      <4> SUFFICES ASSUME p \in Good PROVE FALSE OBVIOUS
      <4>1. AtMost(f, f[p]) \subseteq AtMost(f, f[m]) BY <3>4 DEF AtMost
      <4>2. AtMost(f, f[p]) = AtMost(f, f[m]) BY <1>5, <4>1
      <4>3. m \in AtMost(f, f[m]) /\ m \notin AtMost(f, f[p]) BY <3>4 DEF AtMost
      <4> QED BY <4>2, <4>3
    <3>8. Cardinality(AtMost(f, f[p])) <= n \div 2 BY <1>1, <1>3, <3>4, <3>7
    <3> QED BY <1>1, <1>3, <3>4, <3>6, <3>8
  <2> QED BY <2>1, <2>2
<1> QED BY <1>5, <1>6

LEMMA MiddleIsMedian ==
  ASSUME NEW D, IsFiniteSet(D), D # {}, NEW f \in [D -> Int]
  PROVE  /\ \E m \in D : Middle(f) = f[m]
         /\ Middle(f) \in Int
         /\ Cardinality(Below(f, Middle(f))) <= Cardinality(D) \div 2
         /\ Cardinality(AtMost(f, Middle(f))) > Cardinality(D) \div 2
<1> DEFINE P(v) == /\ Cardinality({i \in D : f[i] < v}) <= Cardinality(D) \div 2
                   /\ Cardinality({i \in D : f[i] <= v}) > Cardinality(D) \div 2
           S == {f[i] : i \in D}
<1>1. \E v \in S : P(v)
  <2>1. PICK m \in D : /\ Cardinality(Below(f, f[m])) <= Cardinality(D) \div 2
                       /\ Cardinality(AtMost(f, f[m])) > Cardinality(D) \div 2
    BY MedianExists
  <2>2. Below(f, f[m]) = {i \in D : f[i] < f[m]} /\ AtMost(f, f[m]) = {i \in D : f[i] <= f[m]}
    BY DEF Below, AtMost
  <2>3. P(f[m]) BY <2>1, <2>2
  <2> QED BY <2>3
<1>2. Middle(f) = CHOOSE v \in S : P(v) BY DEF Middle
<1>3. Middle(f) \in S /\ P(Middle(f)) BY <1>1, <1>2
<1> QED BY <1>3 DEF Below, AtMost

\* In any majority there is a value the median does not fall short of, and one
\* it does not exceed.
LEMMA MajorityStraddles ==
  ASSUME NEW D, IsFiniteSet(D), NEW f \in [D -> Int],
         NEW A \in SUBSET D, 2 * Cardinality(A) > Cardinality(D)
  PROVE  /\ \E i \in A : f[i] <= Middle(f)
         /\ \E i \in A : Middle(f) <= f[i]
<1> DEFINE n == Cardinality(D)
           v == Middle(f)
<1>1. IsFiniteSet(A) /\ Cardinality(A) \in Nat /\ n \in Nat
  BY FS_Subset, FS_CardinalityType
<1>2. D # {} BY <1>1, FS_Subset, FS_EmptySet
<1>3. /\ v \in Int
      /\ Cardinality(Below(f, v)) <= n \div 2
      /\ Cardinality(AtMost(f, v)) > n \div 2
  BY <1>2, MiddleIsMedian
<1>4. /\ Below(f, v) \in SUBSET D /\ AtMost(f, v) \in SUBSET D
  BY DEF Below, AtMost
<1>5. /\ IsFiniteSet(Below(f, v)) /\ Cardinality(Below(f, v)) \in Nat
      /\ IsFiniteSet(AtMost(f, v)) /\ Cardinality(AtMost(f, v)) \in Nat
  BY <1>4, FS_Subset, FS_CardinalityType
<1> HIDE DEF n, v
<1>6. A \cap AtMost(f, v) # {}
  <2>1. Cardinality(A) + Cardinality(AtMost(f, v)) > n
    BY <1>1, <1>3, <1>5 DEF n
  <2> QED BY <1>4, <2>1, FS_MajoritiesIntersect DEF n
<1>7. ~ (A \subseteq Below(f, v))
  <2> SUFFICES ASSUME A \subseteq Below(f, v) PROVE FALSE OBVIOUS
  <2>1. Cardinality(A) <= Cardinality(Below(f, v)) BY <1>5, FS_Subset
  <2> QED BY <1>1, <1>3, <1>5, <2>1 DEF n
<1>8. \E i \in A : f[i] <= v BY <1>6 DEF AtMost
<1>9. \E i \in A : v <= f[i]
  <2>1. PICK i \in A : i \notin Below(f, v) BY <1>7
  <2> QED BY <1>3, <2>1 DEF Below
<1> QED BY <1>8, <1>9 DEF v

-------------------------------------------------------------------------------
(***************************************************************************)
(* One exchange.                                                           *)
(***************************************************************************)

\* Halving before subtracting costs one microsecond at most, and what the
\* flights are unequal by is half of the round trip at most.
LEMMA SampleOfExchange ==
  ASSUME NEW orig \in Instants, NEW out \in Flights, NEW back \in Flights,
         NEW hold \in Holds, NEW o \in Offsets
  PROVE  LET recv == orig + o + out
             xmit == recv + hold
             dest == orig + out + hold + back
         IN  /\ Delay(orig, recv, xmit, dest) = out + back
             /\ ClockOffset(orig, recv, xmit, dest) \in Int
             /\ 2 * (ClockOffset(orig, recv, xmit, dest) - o) <= out + back + 2
             /\ 2 * (o - ClockOffset(orig, recv, xmit, dest)) <= out + back + 2
<1> DEFINE recv == orig + o + out
           xmit == recv + hold
           dest == orig + out + hold + back
<1>1. /\ orig \in Int /\ recv \in Int /\ xmit \in Int /\ dest \in Int
      /\ out \in Nat /\ back \in Nat /\ o \in Int /\ hold \in Int
      /\ UINT64_MAX \in Nat /\ out + back <= UINT64_MAX
  BY TimesAssumption
<1>2. (dest - orig) - (xmit - recv) = out + back BY <1>1
<1>3. Delay(orig, recv, xmit, dest) = out + back
  BY <1>1, <1>2 DEF Delay
<1>4. recv - orig = o + out /\ xmit - dest = o - back BY <1>1
<1> HIDE DEF recv, xmit, dest
<1>5. /\ ClockOffset(orig, recv, xmit, dest) \in Int
      /\ 2 * (ClockOffset(orig, recv, xmit, dest) - o) <= out + back + 2
      /\ 2 * (o - ClockOffset(orig, recv, xmit, dest)) <= out + back + 2
  BY <1>1, <1>4 DEF ClockOffset
<1> QED BY <1>3, <1>5 DEF recv, xmit, dest

LEMMA InitFilter == Init => FilterInv
<1> SUFFICES ASSUME Init PROVE FilterInv OBVIOUS
<1>1. samples = [i \in Slots |-> NoSample] BY DEF Init
<1>2. Accepted(samples) = {} BY <1>1 DEF Accepted, Valid
<1>3. median_offset(samples) = 0 BY <1>2 DEF median_offset
<1>4. sample_write_idx \in Slots BY SamplesAssumption DEF Init, Slots
<1> QED BY <1>1, <1>3, <1>4 DEF Init, FilterInv

LEMMA NextFilter == FilterInv /\ [Next]_vars => FilterInv'
<1> SUFFICES ASSUME FilterInv, [Next]_vars PROVE FilterInv' OBVIOUS
<1>1. ASSUME NEW orig \in Instants, NEW out \in Flights, NEW back \in Flights,
             NEW hold \in Holds, ProcessTimeMsg(orig, out, hold, back)
      PROVE FilterInv'
  <2> DEFINE recv == orig + true_offset + out
             xmit == recv + hold
             dest == orig + out + hold + back
             sample == [valid |-> TRUE,
                        delay_us |-> Delay(orig, recv, xmit, dest),
                        offset_us |-> ClockOffset(orig, recv, xmit, dest),
                        truth |-> true_offset]
  <2>1. true_offset \in Offsets BY DEF FilterInv
  <2>2. SampleOK(sample)
    <3>1. /\ Delay(orig, recv, xmit, dest) = out + back
          /\ ClockOffset(orig, recv, xmit, dest) \in Int
          /\ 2 * (ClockOffset(orig, recv, xmit, dest) - true_offset) <= out + back + 2
          /\ 2 * (true_offset - ClockOffset(orig, recv, xmit, dest)) <= out + back + 2
      BY <2>1, SampleOfExchange
    <3> HIDE DEF recv, xmit, dest
    <3> QED BY <2>1, <3>1 DEF SampleOK
  <2>3. /\ samples' = [samples EXCEPT ![sample_write_idx] = sample]
        /\ sample_write_idx' = NextSlot(sample_write_idx)
        /\ server_time_offset' = median_offset(samples')
        /\ UNCHANGED true_offset
    BY <1>1 DEF ProcessTimeMsg
  <2> HIDE DEF sample
  <2>4. DOMAIN samples' = Slots BY <2>3 DEF FilterInv
  <2>5. \A i \in Slots : samples'[i] = NoSample \/ SampleOK(samples'[i])
    BY <2>2, <2>3 DEF FilterInv
  <2>6. sample_write_idx' \in Slots
    <3> DEFINE next == sample_write_idx + 1
    <3>1. next \in Nat /\ next <= TIME_SYNC_SAMPLES /\ TIME_SYNC_SAMPLES \in Nat \ {0}
      BY SamplesAssumption DEF FilterInv, Slots
    <3> HIDE DEF next
    <3>2. next % TIME_SYNC_SAMPLES \in 0 .. TIME_SYNC_SAMPLES - 1 BY <3>1
    <3> QED BY <2>3, <3>2 DEF NextSlot, Slots, next
  <2> QED BY <2>1, <2>3, <2>4, <2>5, <2>6 DEF FilterInv
<1>2. CASE ClockStep
  BY <1>2 DEF ClockStep, FilterInv
<1>3. CASE UNCHANGED vars
  BY <1>3 DEF vars, FilterInv
<1> QED BY <1>1, <1>2, <1>3 DEF Next

LEMMA FilterInvariant == Spec => []FilterInv
BY InitFilter, NextFilter, PTL DEF Spec

-------------------------------------------------------------------------------
(***************************************************************************)
(* What the filter makes of the samples.                                   *)
(***************************************************************************)

LEMMA ValidSamples ==
  ASSUME FilterInv
  PROVE  /\ Valid(samples) \subseteq Slots /\ Accepted(samples) \subseteq Valid(samples)
         /\ IsFiniteSet(Valid(samples)) /\ IsFiniteSet(Accepted(samples))
         /\ \A i \in Valid(samples) :
              /\ SampleOK(samples[i])
              /\ samples[i].delay_us \in Nat
              /\ 2 * samples[i].delay_us <= UINT32_MAX
              /\ 2 * samples[i].delay_us <= UINT64_MAX
<1>1. Valid(samples) \subseteq Slots /\ Accepted(samples) \subseteq Valid(samples)
  BY DEF Valid, Accepted
<1>2. IsFiniteSet(Slots) BY SamplesAssumption, FS_Interval DEF Slots
<1>3. IsFiniteSet(Valid(samples)) /\ IsFiniteSet(Accepted(samples))
  BY <1>1, <1>2, FS_Subset
<1>4. \A i \in Valid(samples) : SampleOK(samples[i]) BY DEF Valid, FilterInv
<1>5. ASSUME NEW i \in Valid(samples)
      PROVE  /\ samples[i].delay_us \in Nat
             /\ 2 * samples[i].delay_us <= UINT32_MAX
             /\ 2 * samples[i].delay_us <= UINT64_MAX
  <2>1. PICK out \in Flights, back \in Flights : samples[i].delay_us = out + back
    BY <1>4 DEF SampleOK
  <2> QED BY <2>1, TimesAssumption
<1> QED BY <1>1, <1>3, <1>4, <1>5

\* The median delay is some sample's; doubling it does not overflow; and more
\* than half of the samples had no longer round trip.
LEMMA MedianDelay ==
  ASSUME FilterInv, Valid(samples) # {}
  PROVE  LET med  == median_delay(samples)
             fast == {i \in Valid(samples) : samples[i].delay_us <= med}
         IN  /\ med \in Nat /\ 2 * med <= UINT32_MAX /\ 2 * med <= UINT64_MAX
             /\ Cardinality(fast) > Cardinality(Valid(samples)) \div 2
<1> DEFINE V == Valid(samples)
           f == [i \in V |-> samples[i].delay_us]
           med == median_delay(samples)
           fast == {i \in V : samples[i].delay_us <= med}
<1>1. IsFiniteSet(V) /\ V # {} /\ f \in [V -> Int] BY ValidSamples
<1>2. med = Middle(f) BY DEF median_delay
<1> HIDE DEF med
<1>3. /\ \E m \in V : Middle(f) = f[m]
      /\ Cardinality(AtMost(f, Middle(f))) > Cardinality(V) \div 2
  <2> HIDE DEF V, f
  <2> QED BY <1>1, MiddleIsMedian
<1>4. AtMost(f, med) = fast BY DEF AtMost
<1>5. med \in Nat /\ 2 * med <= UINT32_MAX /\ 2 * med <= UINT64_MAX
  BY <1>2, <1>3, ValidSamples
<1> QED BY <1>2, <1>3, <1>4, <1>5 DEF med

LEMMA ThresholdIs ==
  ASSUME NEW med \in Nat, 2 * med <= UINT64_MAX
  PROVE  Threshold(med) = IF med > 0 THEN 2 * med ELSE UINT64_MAX
<1>1. UINT64_MAX \in Nat BY TimesAssumption
<1>2. (med * 2) % (UINT64_MAX + 1) = 2 * med BY <1>1
<1> QED BY <1>2 DEF Threshold

\* The vote: if more than half of the accepted samples were taken by the
\* server's clock as it is now, in round trips of at most d, the offset is good
\* for half of d.
LEMMA MajorityBoundsOffset ==
  ASSUME FilterInv, NEW A \in SUBSET Accepted(samples),
         2 * Cardinality(A) > Cardinality(Accepted(samples)),
         NEW d \in Nat,
         \A i \in A : samples[i].truth = true_offset /\ samples[i].delay_us <= d
  PROVE  /\ 2 * (server_time_offset - true_offset) <= d + 2
         /\ 2 * (true_offset - server_time_offset) <= d + 2
         /\ Accepted(samples) # {}
<1> DEFINE D == Accepted(samples)
           f == [i \in D |-> samples[i].offset_us]
<1>1. IsFiniteSet(D) /\ D \subseteq Valid(samples) BY ValidSamples
<1>2. \A i \in D : SampleOK(samples[i]) /\ samples[i].delay_us \in Nat
  BY <1>1, ValidSamples
<1>3. f \in [D -> Int] BY <1>2 DEF SampleOK
<1>4. IsFiniteSet(A) /\ Cardinality(A) \in Nat /\ Cardinality(D) \in Nat
  BY <1>1, FS_Subset, FS_CardinalityType
<1>5. D # {}
  BY <1>1, <1>4, FS_Subset, FS_EmptySet
<1>6. server_time_offset = Middle(f) BY <1>5 DEF FilterInv, median_offset
<1>7. Middle(f) \in Int
  <2> HIDE DEF D, f
  <2> QED BY <1>1, <1>3, <1>5, MiddleIsMedian
<1>8. (\E i \in A : f[i] <= Middle(f)) /\ (\E i \in A : Middle(f) <= f[i])
  <2>1. A \in SUBSET D /\ 2 * Cardinality(A) > Cardinality(D) OBVIOUS
  <2> HIDE DEF D, f
  <2> QED BY <1>1, <1>3, <2>1, MajorityStraddles
<1>9. true_offset \in Int BY TimesAssumption DEF FilterInv
<1>10. \A i \in A : /\ f[i] \in Int
                    /\ 2 * (f[i] - true_offset) <= d + 2
                    /\ 2 * (true_offset - f[i]) <= d + 2
  <2> SUFFICES ASSUME NEW i \in A
               PROVE  /\ f[i] \in Int
                      /\ 2 * (f[i] - true_offset) <= d + 2
                      /\ 2 * (true_offset - f[i]) <= d + 2
    OBVIOUS
  <2>1. /\ f[i] = samples[i].offset_us /\ f[i] \in Int
        /\ samples[i].truth = true_offset
        /\ samples[i].delay_us \in Nat /\ samples[i].delay_us <= d
        /\ 2 * (samples[i].offset_us - samples[i].truth) <= samples[i].delay_us + 2
        /\ 2 * (samples[i].truth - samples[i].offset_us) <= samples[i].delay_us + 2
    BY <1>2 DEF SampleOK
  <2> QED BY <1>9, <2>1
<1> HIDE DEF f
<1> QED BY <1>5, <1>6, <1>7, <1>8, <1>9, <1>10

\* The subtraction on the clock does not wrap.
LEMMA BeatErrorIs ==
  ASSUME RoomForOffsets, FilterInv, Accepted(samples) # {}
  PROVE  /\ server_time_offset \in Int /\ true_offset \in Int
         /\ BeatError = IF server_time_offset < true_offset
                        THEN true_offset - server_time_offset
                        ELSE server_time_offset - true_offset
<1> DEFINE D == Accepted(samples)
           f == [i \in D |-> samples[i].offset_us]
           T == UINT64_MAX \div 2
<1>1. IsFiniteSet(D) /\ D \subseteq Valid(samples) BY ValidSamples
<1>2. \A i \in D : SampleOK(samples[i]) BY <1>1, ValidSamples
<1>3. f \in [D -> Int] BY <1>2 DEF SampleOK
<1>4. server_time_offset = Middle(f) BY DEF FilterInv, median_offset
<1>5. PICK i \in D : Middle(f) = f[i]
  <2> HIDE DEF D, f
  <2>1. D # {} BY DEF D
  <2> QED BY <1>1, <1>3, <2>1, MiddleIsMedian
<1>6. PICK out \in Flights, back \in Flights : samples[i].delay_us = out + back
  BY <1>2 DEF SampleOK
<1>7. /\ samples[i].truth \in Offsets /\ samples[i].offset_us \in Int
      /\ 2 * (samples[i].offset_us - samples[i].truth) <= out + back + 2
      /\ 2 * (samples[i].truth - samples[i].offset_us) <= out + back + 2
  BY <1>2, <1>6 DEF SampleOK
<1>8. /\ samples[i].truth + out + back + 1 <= UINT64_MAX \div 2
      /\ out + back + 1 - samples[i].truth <= UINT64_MAX \div 2
      /\ out \in Nat /\ back \in Nat /\ samples[i].truth \in Int /\ UINT64_MAX \in Nat
  BY <1>7, TimesAssumption DEF RoomForOffsets
<1>9. T \in Nat /\ T <= UINT64_MAX - T BY <1>8
<1>10. /\ server_time_offset \in Int
       /\ server_time_offset <= T /\ -server_time_offset <= T
  <2>1. server_time_offset = samples[i].offset_us BY <1>4, <1>5
  <2> HIDE DEF T
  <2>2. /\ samples[i].truth + out + back + 1 <= T
        /\ out + back + 1 - samples[i].truth <= T
    BY <1>8 DEF T
  <2> QED BY <1>7, <1>8, <1>9, <2>1, <2>2
<1>11. true_offset \in Int BY TimesAssumption DEF FilterInv
<1> HIDE DEF T
<1>12. server_time_to_local_time(T) = T - server_time_offset
  <2>1. T - server_time_offset \in 0 .. UINT64_MAX /\ UINT64_MAX \in Nat
    BY <1>8, <1>9, <1>10
  <2>2. (T - server_time_offset) % (UINT64_MAX + 1) = T - server_time_offset
    BY <2>1
  <2>3. T + (-server_time_offset) = T - server_time_offset BY <1>9, <1>10
  <2> QED BY <2>2, <2>3 DEF server_time_to_local_time
<1>13. BeatError = LET late == server_time_to_local_time(T) - (T - true_offset)
                   IN  IF late < 0 THEN -late ELSE late
  BY DEF BeatError, T
<1> QED BY <1>9, <1>10, <1>11, <1>12, <1>13

-------------------------------------------------------------------------------
\* Round trips, offsets and slots keep their types, whatever the flights.
THEOREM FilterTypeCorrect == Spec => []TypeOK
<1>1. FilterInv => TypeOK
  <2> SUFFICES ASSUME FilterInv PROVE TypeOK OBVIOUS
  <2>1. ASSUME NEW i \in Slots, samples[i] # NoSample
        PROVE  /\ samples[i].delay_us \in 0 .. UINT64_MAX
               /\ samples[i].offset_us \in Int
               /\ samples[i].truth \in Offsets
    <3>1. i \in Valid(samples) BY <2>1 DEF Valid
    <3>2. SampleOK(samples[i]) /\ samples[i].delay_us \in Nat /\ 2 * samples[i].delay_us <= UINT64_MAX
      BY <3>1, ValidSamples
    <3>3. samples[i].offset_us \in Int /\ samples[i].truth \in Offsets
      BY <3>2 DEF SampleOK
    <3>4. samples[i].delay_us \in 0 .. UINT64_MAX BY <3>2, TimesAssumption
    <3> QED BY <3>3, <3>4
  <2>2. server_time_offset \in Int
    <3>1. CASE Accepted(samples) = {} BY <3>1 DEF FilterInv, median_offset
    <3>2. CASE Accepted(samples) # {}
      <4> DEFINE D == Accepted(samples)
                 f == [i \in D |-> samples[i].offset_us]
      <4>1. IsFiniteSet(D) /\ D # {} /\ f \in [D -> Int]
        BY <3>2, ValidSamples DEF SampleOK
      <4>2. server_time_offset = Middle(f) BY <3>2 DEF FilterInv, median_offset
      <4> HIDE DEF D, f
      <4> QED BY <4>1, <4>2, MiddleIsMedian
    <3> QED BY <3>1, <3>2
  <2> QED BY <2>1, <2>2 DEF TypeOK, FilterInv
<1> QED BY <1>1, FilterInvariant, PTL

\* While all samples were taken by the server's clock as it is, a beat is
\* placed no further from its time than the one-way delay the controller
\* reports, plus one microsecond: for any number of samples and any flights,
\* of which up to half may be late.
THEOREM OffsetWithinDelay == RoomForOffsets /\ Spec => []AccurateWithinDelay
<1> SUFFICES ASSUME RoomForOffsets PROVE Spec => []AccurateWithinDelay OBVIOUS
<1>1. FilterInv => AccurateWithinDelay
  <2> SUFFICES ASSUME FilterInv, Valid(samples) # {}, Current = Valid(samples)
               PROVE  BeatError <= time_sync_owd_estimate_us + 1
    BY DEF AccurateWithinDelay
  <2> DEFINE V == Valid(samples)
             med == median_delay(samples)
             fast == {i \in V : samples[i].delay_us <= med}
  <2>1. /\ med \in Nat /\ 2 * med <= UINT32_MAX /\ 2 * med <= UINT64_MAX
        /\ Cardinality(fast) > Cardinality(V) \div 2
    BY MedianDelay
  <2>2. fast \subseteq Accepted(samples)
    <3>1. Threshold(med) = IF med > 0 THEN 2 * med ELSE UINT64_MAX
      BY <2>1, ThresholdIs
    <3>2. \A i \in fast : /\ samples[i].delay_us \in Nat /\ samples[i].delay_us <= med
                          /\ 2 * samples[i].delay_us <= UINT64_MAX
      BY ValidSamples
    <3>3. \A i \in fast : samples[i].delay_us <= Threshold(med)
      BY <2>1, <3>1, <3>2, TimesAssumption
    <3> QED BY <3>3 DEF Accepted
  <2>3. 2 * Cardinality(fast) > Cardinality(Accepted(samples))
    <3>1. /\ Cardinality(Accepted(samples)) <= Cardinality(V)
          /\ Cardinality(Accepted(samples)) \in Nat /\ Cardinality(V) \in Nat
          /\ Cardinality(fast) \in Nat
      BY <2>2, ValidSamples, FS_Subset, FS_CardinalityType
    <3> QED BY <2>1, <3>1
  <2>4. \A i \in fast : samples[i].truth = true_offset /\ samples[i].delay_us <= med
    BY DEF Current
  <2>5. /\ 2 * (server_time_offset - true_offset) <= med + 2
        /\ 2 * (true_offset - server_time_offset) <= med + 2
        /\ Accepted(samples) # {}
    <3> HIDE DEF fast, med
    <3> QED BY <2>1, <2>2, <2>3, <2>4, MajorityBoundsOffset
  <2>6. time_sync_owd_estimate_us = med \div 2
    BY <2>1, TimesAssumption DEF time_sync_owd_estimate_us
  <2>7. /\ server_time_offset \in Int /\ true_offset \in Int
        /\ BeatError = IF server_time_offset < true_offset
                       THEN true_offset - server_time_offset
                       ELSE server_time_offset - true_offset
    BY <2>5, BeatErrorIs
  <2> HIDE DEF med
  <2> QED BY <2>1, <2>5, <2>6, <2>7
<1> QED BY <1>1, FilterInvariant, PTL

\* After the server's clock has changed, the samples taken before are outvoted
\* as soon as more than half of those accepted are new; the error is then the
\* rejection threshold's at most.
THEOREM NewSamplesDecide == RoomForOffsets /\ Spec => []MajorityDecides
<1> SUFFICES ASSUME RoomForOffsets PROVE Spec => []MajorityDecides OBVIOUS
<1>1. FilterInv => MajorityDecides
  <2> DEFINE D == Accepted(samples)
             A == Current \cap D
             med == median_delay(samples)
  <2> SUFFICES ASSUME FilterInv, 2 * Cardinality(A) > Cardinality(D), med > 0
               PROVE  BeatError <= med + 1
    BY DEF MajorityDecides
  <2>1. IsFiniteSet(D) /\ D \subseteq Valid(samples) /\ Cardinality(D) \in Nat
    BY ValidSamples, FS_CardinalityType
  <2>2. Valid(samples) # {}
    <3> SUFFICES ASSUME Valid(samples) = {} PROVE FALSE OBVIOUS
    <3>1. A = {} /\ D = {} BY <2>1
    <3>2. Cardinality(A) = 0 /\ Cardinality(D) = 0 BY <3>1, FS_EmptySet
    <3> HIDE DEF A, D
    <3> QED BY <3>2
  <2>3. med \in Nat /\ 2 * med <= UINT64_MAX BY <2>2, MedianDelay
  <2>4. Threshold(med) = 2 * med
    BY <2>3, ThresholdIs
  <2>5. \A i \in A : samples[i].truth = true_offset /\ samples[i].delay_us <= 2 * med
    BY <2>4 DEF Current, Accepted
  <2>6. /\ 2 * (server_time_offset - true_offset) <= 2 * med + 2
        /\ 2 * (true_offset - server_time_offset) <= 2 * med + 2
        /\ D # {}
    <3>1. 2 * med \in Nat BY <2>3
    <3>2. A \in SUBSET D OBVIOUS
    <3> HIDE DEF A, med
    <3> QED BY <2>5, <3>1, <3>2, MajorityBoundsOffset
  <2>7. /\ server_time_offset \in Int /\ true_offset \in Int
        /\ BeatError = IF server_time_offset < true_offset
                       THEN true_offset - server_time_offset
                       ELSE server_time_offset - true_offset
    BY <2>6, BeatErrorIs
  <2> HIDE DEF med
  <2> QED BY <2>3, <2>6, <2>7
<1> QED BY <1>1, FilterInvariant, PTL

-------------------------------------------------------------------------------
(***************************************************************************)
(* The code sorts a copy of the values and takes the element n / 2.        *)
(***************************************************************************)

\* The places of a sorted array hold the members of f's domain, each once, in
\* the order of their values; how qsort orders equal ones is left open.
SortedBy(f, array) ==
  LET places == 0 .. Cardinality(DOMAIN f) - 1
  IN  /\ array \in [places -> DOMAIN f]
      /\ \A i, j \in places : i # j => array[i] # array[j]
      /\ \A x \in DOMAIN f : \E i \in places : array[i] = x
      /\ \A i, j \in places : i <= j => f[array[i]] <= f[array[j]]

\* Of any number of values, one at least, Middle is the one that qsort leaves at
\* the index n / 2, whichever order it gives to equal ones.
THEOREM MiddleOfSorted ==
  ASSUME NEW D, IsFiniteSet(D), D # {}, NEW f \in [D -> Int],
         NEW array, SortedBy(f, array)
  PROVE  /\ Cardinality(D) \div 2 \in 0 .. Cardinality(D) - 1
         /\ f[array[Cardinality(D) \div 2]] = Middle(f)
<1> DEFINE n == Cardinality(D)
           h == n \div 2
           places == 0 .. n - 1
           v == f[array[h]]
           w == Middle(f)
<1>1. n \in Nat /\ n # 0 BY FS_CardinalityType, FS_EmptySet
<1>2. /\ array \in [places -> D]
      /\ \A i, j \in places : i # j => array[i] # array[j]
      /\ \A x \in D : \E i \in places : array[i] = x
      /\ \A i, j \in places : i <= j => f[array[i]] <= f[array[j]]
  BY DEF SortedBy
<1>3. /\ w \in Int
      /\ Cardinality(Below(f, w)) <= h
      /\ Cardinality(AtMost(f, w)) > h
  BY MiddleIsMedian
<1> HIDE DEF n, w
<1>4. h \in Nat /\ h <= n - 1 BY <1>1
<1> HIDE DEF h
<1>5. h \in places BY <1>1, <1>4
<1>6. v \in Int BY <1>2, <1>5
<1>7. ~ (w < v)
  <2> SUFFICES ASSUME w < v PROVE FALSE OBVIOUS
  <2> DEFINE front == [i \in 0 .. h - 1 |-> array[i]]
             T == {array[i] : i \in 0 .. h - 1}
  <2>1. 0 .. h - 1 \subseteq places BY <1>1, <1>4
  <2>2. AtMost(f, w) \subseteq T
    <3> SUFFICES ASSUME NEW x \in AtMost(f, w) PROVE x \in T OBVIOUS
    <3>1. x \in D /\ f[x] <= w BY DEF AtMost
    <3>2. PICK i \in places : array[i] = x BY <1>2, <3>1
    <3>3. i < h
      <4> SUFFICES ASSUME h <= i PROVE FALSE BY <1>1, <1>4, <3>2
      <4>1. v <= f[x] BY <1>2, <1>5, <3>2
      <4>2. f[x] \in Int BY <3>1
      <4> QED BY <1>3, <1>6, <3>1, <4>1, <4>2
    <3>4. i \in 0 .. h - 1 BY <1>1, <1>4, <3>2, <3>3
    <3> QED BY <3>2, <3>4
  <2>3. front \in Surjection(0 .. h - 1, T) BY DEF Surjection
  <2>4. IsFiniteSet(0 .. h - 1) /\ Cardinality(0 .. h - 1) = h
    <3>1. 0 \in Int /\ h - 1 \in Int BY <1>4
    <3>2. /\ IsFiniteSet(0 .. h - 1)
          /\ Cardinality(0 .. h - 1) = IF 0 > h - 1 THEN 0 ELSE (h - 1) - 0 + 1
      BY <3>1, FS_Interval
    <3> QED BY <1>4, <3>2
  <2> HIDE DEF front, T
  <2>5. IsFiniteSet(T) /\ Cardinality(T) <= h BY <2>3, <2>4, FS_Surjection
  <2>6. Cardinality(AtMost(f, w)) <= Cardinality(T) BY <2>2, <2>5, FS_Subset
  <2>7. Cardinality(T) \in Nat /\ Cardinality(AtMost(f, w)) \in Nat
    <3>1. IsFiniteSet(AtMost(f, w)) BY <2>2, <2>5, FS_Subset
    <3> QED BY <2>5, <3>1, FS_CardinalityType
  <2> QED BY <1>3, <1>4, <2>5, <2>6, <2>7
<1>8. ~ (v < w)
  <2> SUFFICES ASSUME v < w PROVE FALSE OBVIOUS
  <2> DEFINE front == [i \in 0 .. h |-> array[i]]
  <2>1. 0 .. h \subseteq places BY <1>1, <1>4
  <2>2. ASSUME NEW i \in 0 .. h PROVE array[i] \in Below(f, w)
    <3>1. i \in places /\ i <= h BY <2>1
    <3>2. array[i] \in D /\ f[array[i]] \in Int BY <1>2, <3>1
    <3>3. f[array[i]] <= v BY <1>2, <1>5, <3>1
    <3>4. f[array[i]] < w BY <1>3, <1>6, <3>2, <3>3
    <3> QED BY <3>2, <3>4 DEF Below
  <2>3. front \in Injection(0 .. h, Below(f, w))
    <3>1. front \in [0 .. h -> Below(f, w)] BY <2>2
    <3>2. \A i, j \in 0 .. h : front[i] = front[j] => i = j BY <1>2, <2>1
    <3> HIDE DEF front
    <3> QED BY <3>1, <3>2 DEF Injection, IsInjective
  <2> HIDE DEF front
  <2>4. IsFiniteSet(Below(f, w))
    <3>1. Below(f, w) \subseteq D BY DEF Below
    <3> QED BY <3>1, FS_Subset
  <2>5. Cardinality(0 .. h) <= Cardinality(Below(f, w)) BY <2>3, <2>4, FS_Injection
  <2>6. Cardinality(0 .. h) = h + 1
    <3>1. 0 \in Int /\ h \in Int BY <1>4
    <3>2. Cardinality(0 .. h) = IF 0 > h THEN 0 ELSE h - 0 + 1 BY <3>1, FS_Interval
    <3> QED BY <1>4, <3>2
  <2>7. Cardinality(Below(f, w)) \in Nat BY <2>4, FS_CardinalityType
  <2> QED BY <1>3, <1>4, <2>5, <2>6, <2>7
<1>9. v = w BY <1>3, <1>6, <1>7, <1>8
<1> QED BY <1>5, <1>9 DEF n, h, w

===============================================================================
