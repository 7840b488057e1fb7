------------------------------ MODULE LedClock -------------------------------
(***************************************************************************)
(* The LED core's own clock, ws2812/ws2812.c: update_tempo moves the beat  *)
(* it is in when the server announces the next one, led_update finds the   *)
(* beat a frame falls in, the fraction of it that has passed, and counts   *)
(* beats by the fraction's drops.  Times are unsigned and wrap.            *)
(*                                                                         *)
(* Core 0 writes the registry (NEXT_BEAT, TEMPO_RESPONSE) and then notifies*)
(* the LED core, which reads the registry later: see Controller for the    *)
(* queue between them.                                                     *)
(***************************************************************************)
EXTENDS BeatFraction, FiniteSets

CONSTANTS
  UINT64_MAX,    \* the largest time
  Periods,       \* tempo_period_us the server may send
  Leads,         \* how far ahead of now the announced beat may be
  LateBy,        \* and how long it may already have passed
  MaxFrameGap,   \* frames are no further apart (LED_CORE_SLEEP_MS and drawing)
  MaxCount,      \* bound: beats are announced up to this one
  EndOfTime      \* bound

ASSUME LedAssumption ==
  /\ Periods \subseteq Nat /\ Leads \subseteq Nat /\ LateBy \subseteq Nat
  /\ MaxFrameGap \in Nat \ {0} /\ MaxCount \in Nat /\ EndOfTime \in Nat \ {0}
  /\ UINT64_MAX \in Nat
  /\ \A d \in Leads \cup Periods \cup {0} : 2 * (EndOfTime + d) <= UINT64_MAX

VARIABLES
  now,        \* time_us_64()
  registry,   \* next_beat_time_ref, beat_count, tempo_period_us
  told,       \* the bits of messages on their way to the LED core
  _time_ref, _last_beat_time, _next_beat_time, _tempo_period_us,
  _beat_count, _next_beat_count,
  prev_beat_frac, prev_time,   \* led_update's statics
  anchor      \* not in the code: the beat from which periods of this tempo count

tempo  == <<_time_ref, _tempo_period_us>>
beat   == <<_last_beat_time, _next_beat_time>>
counts == <<_beat_count, _next_beat_count>>
frame  == <<prev_beat_frac, prev_time>>
core0  == <<registry, told>>
vars   == <<now, core0, tempo, beat, counts, frame, anchor>>

U64(t) == t % (UINT64_MAX + 1)

calculate_beat_fraction(current, last, next) ==
  scale8(U64(current - last), U64(next - last))

Init == /\ now = 1
        /\ registry = [next_beat_time_ref |-> 0, beat_count |-> 0, tempo_period_us |-> 0]
        /\ told = {}
        /\ _time_ref = 0 /\ _tempo_period_us = 0
        /\ _last_beat_time = 0 /\ _next_beat_time = 0
        /\ _beat_count = 0 /\ _next_beat_count = 0
        /\ prev_beat_frac = 0 /\ prev_time = 0
        /\ anchor = 0

\* led_update draws only when it has both a tempo and a beat.
Drawing == _time_ref # 0 /\ _tempo_period_us # 0

Tick == /\ now < EndOfTime
        /\ Drawing => now - prev_time < MaxFrameGap
        /\ now' = now + 1
        /\ UNCHANGED <<core0, tempo, beat, counts, frame, anchor>>

\* NEXT_BEAT: process_next_beat_msg writes the registry and notifies.
AnnounceBeat ==
  \E ref \in {now + d : d \in Leads} \cup {now - d : d \in {l \in LateBy : l < now}},
     count \in registry.beat_count + 1 .. MaxCount :
       /\ registry' = [registry EXCEPT !.next_beat_time_ref = ref, !.beat_count = count]
       /\ told' = told \cup {"time_ref"}
       /\ UNCHANGED <<now, tempo, beat, counts, frame, anchor>>

\* TEMPO_RESPONSE.
AnnounceTempo ==
  \E period \in Periods :
    /\ registry' = [registry EXCEPT !.tempo_period_us = period]
    /\ told' = told \cup {"tempo"}
    /\ UNCHANGED <<now, tempo, beat, counts, frame, anchor>>

\* The message may be the first of two whose registry writes it both sees.
Taken(bit) == told' \in {told, told \ {bit}}

\* MUTANT of Shifted: in signed arithmetic, the first announcement puts the
\* last beat before time zero.
ShiftedSigned(last, next, ref) == last - (ref - next)

\* The last beat is moved by as much as the next one, the other way.
Shifted(last, next, ref) == U64(last - U64(ref - next))

UpdateTimeRef ==
  /\ "time_ref" \in told /\ Taken("time_ref")
  /\ LET ref == registry.next_beat_time_ref
     IN  /\ _time_ref' = ref
         /\ _last_beat_time' = Shifted(_last_beat_time, _next_beat_time, ref)
         /\ _next_beat_time' = ref
         /\ anchor' = ref
  /\ _next_beat_count' = registry.beat_count
  /\ UNCHANGED <<now, registry, _tempo_period_us, _beat_count, frame>>

\* The first tempo starts the beat now, unless the server has set one.
UpdateTempo ==
  /\ "tempo" \in told /\ Taken("tempo")
  /\ _tempo_period_us' = registry.tempo_period_us
  /\ IF _time_ref = 0 /\ registry.tempo_period_us > 0
     THEN /\ _time_ref' = now
          /\ _last_beat_time' = now
          /\ _next_beat_time' = now + registry.tempo_period_us
     ELSE UNCHANGED <<_time_ref, beat>>
  /\ anchor' = _next_beat_time'
  /\ UNCHANGED <<now, registry, counts, frame>>

\* MUTANT of BeatOf: a late frame is taken for one in the very next beat.
NextBeatOnly(last, next, period, time) ==
  IF next < time THEN <<next, next + period>> ELSE <<last, next>>

\* The loop: whole periods are added to the next beat until it is not past.
BeatOf(last, next, period, time) ==
  IF next < time
  THEN LET beats == (time - next + period - 1) \div period
       IN  <<next + (beats - 1) * period, next + beats * period>>
  ELSE <<last, next>>

\* MUTANT of Counted: the server's count is never looked at.
CountedAlone(count, announced) == count + 1

\* One beat more, or as many as the server has counted.
Counted(count, announced) ==
  IF announced > count + 1 THEN announced ELSE count + 1

\* One frame.  Nothing else runs on this core meanwhile, so that what is
\* written back at the end has not changed since it was read.
LedUpdate ==
  /\ Drawing
  /\ now > prev_time
  /\ LET in == BeatOf(_last_beat_time, _next_beat_time, _tempo_period_us, now)
         frac == calculate_beat_fraction(now, in[1], in[2])
     IN  /\ _last_beat_time' = in[1] /\ _next_beat_time' = in[2]
         /\ _beat_count' = IF prev_beat_frac > frac
                           THEN Counted(_beat_count, _next_beat_count) ELSE _beat_count
         /\ prev_beat_frac' = frac
  /\ prev_time' = now
  /\ UNCHANGED <<now, core0, tempo, _next_beat_count, anchor>>

Next == Tick \/ AnnounceBeat \/ AnnounceTempo \/ UpdateTimeRef \/ UpdateTempo \/ LedUpdate

Spec == Init /\ [][Next]_vars

-------------------------------------------------------------------------------
(***************************************************************************)
(* Properties.                                                             *)
(***************************************************************************)

Times == 0 .. UINT64_MAX

\* Types; in particular the fraction is one byte whatever the shifts have
\* made of the beat's two ends, and the next beat does not wrap.
TypeOK ==
  /\ now \in 1 .. EndOfTime
  /\ registry.beat_count \in 0 .. MaxCount
  /\ registry.tempo_period_us \in Periods \cup {0}
  /\ told \subseteq {"time_ref", "tempo"}
  /\ _time_ref \in Times /\ _tempo_period_us \in Periods \cup {0}
  /\ _last_beat_time \in Times /\ _next_beat_time \in Times
  /\ prev_beat_frac \in 0 .. Full
  /\ anchor \in Times

\* A frame drawn after the last announced beat shows the true fraction of the
\* server's beat, counted in whole periods from that announcement - or, if the
\* tempo has changed since, from the end of the beat in which it did - (at the
\* very end of a beat: all of it), whatever announcement, shift or wrap came
\* before.
FramesInPhase ==
  [][prev_time' # prev_time /\ now > anchor
       => LET since == (now - anchor) % _tempo_period_us
          IN  prev_beat_frac' = IF since = 0 THEN Full
                                ELSE scale8(since, _tempo_period_us)]_vars

\* No beat goes uncounted once the announced one is past: two frames on
\* either side of a beat always show a drop, however late they are and
\* whatever the tempo has become (frames stop while there is none), and the
\* count is then no lower than the server's.  (The frame before was drawn since the announcement, which it
\* was if the beat it left behind had not passed.)
EveryBeatCounted ==
  [][LET drawn   == prev_time' # prev_time /\ now - prev_time <= MaxFrameGap
         inPhase == _time_ref < prev_time /\ prev_time <= _next_beat_time
         passed  == _next_beat_time < now
     IN  drawn /\ inPhase /\ passed
           => _beat_count' > _beat_count /\ _beat_count' >= _next_beat_count]_vars

\* Inside its beat a frame shows the quotient of two times, never less and no
\* more than if the beat had begun one unit earlier for every bit (8 us in the
\* code), however many bits of the range scale8's halvings drop.
FractionIsQuotient ==
  [][LET frac == prev_beat_frac'
         range == _next_beat_time' - _last_beat_time'
         value == now - _last_beat_time'
     IN  prev_time' # prev_time /\ range > 0 /\ value \in 0 .. range
           => /\ (frac < Full => frac >= (value * 2 ^ BITS) \div range)
              /\ frac * range <= (value + BITS) * 2 ^ BITS]_vars

\* Between frames in a beat that no message has moved since the first of them
\* the fraction never falls, although each halving of the range drops a bit:
\* a beat is counted only when one has passed.
NoBeatInvented ==
  [][LET unmoved == /\ _last_beat_time <= prev_time
                    /\ prev_beat_frac = calculate_beat_fraction(prev_time, _last_beat_time, _next_beat_time)
     IN  _beat_count' # _beat_count /\ unmoved => _next_beat_time < now]_vars

===============================================================================
