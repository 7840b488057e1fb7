------------------------------ MODULE Broadcasts ------------------------------
(***************************************************************************)
(* The server's numbered broadcasts and how a controller sifts them:       *)
(* NEXT_BEAT (command/next_beat/next_beat.c), which also counts what was   *)
(* missed, and PROGRAM (command/command.c) together with TEMPO_RESPONSE    *)
(* (command/tempo/tempo.c), which sets a program too but has no number.    *)
(*                                                                         *)
(* Numbers wrap.  What is true of a datagram, of the last number applied   *)
(* and of the registry is known here by age: how many numbers the server   *)
(* has given out since.  The controller sees numbers only.                 *)
(*                                                                         *)
(* The two streams share neither numbers nor registry fields, and so a     *)
(* behaviour follows one of them.                                          *)
(***************************************************************************)
EXTENDS SeqNumbers, FiniteSets

CONSTANTS
  MaxAge,       \* a datagram this many numbers old is gone from the network
  GapModulus,   \* 2^32, the range of next_beat_gap_total
  MaxFlight,    \* bound: different datagrams under way at once
  MaxRestarts   \* bound: how often the server starts its numbers afresh

ASSUME BroadcastsAssumption ==
  /\ MaxAge \in Nat /\ 2 * MaxAge < SeqModulus - 1
  /\ GapModulus \in Nat \ {0}
  /\ MaxFlight \in Nat \ {0}
  /\ MaxRestarts \in Nat

\* Half the range or more, or the age of what an earlier life of the server sent.
Far == SeqModulus \div 2
Ages == 0 .. Far

Datagrams == [kind : {"push"}, seq : SeqNumber, age : Ages]
               \cup [kind : {"tempo"}, age : Ages]
Push(seq)   == [kind |-> "push", seq |-> seq, age |-> 0]
TempoAnswer == [kind |-> "tempo", age |-> 0]

VARIABLES
  stream,       \* "NEXT_BEAT" or "PROGRAM"
  newest,       \* the number the server gave out last
  restarts,
  settled,      \* nobody changes the program any more
  flight,       \* datagrams under way, any number of copies each
  state,        \* of the controller, as far as the handlers ask
  last,         \* last_next_beat_seq or last_program_seq; NoSeq: have_seen_... is false
  gap_total,    \* next_beat_gap_total
  shown,        \* age of what the registry holds
  behind,       \* not in the code: the age of `last`
  books,        \* not in the code: broadcasts since the first one accepted
                \* that were not accepted
  tracked       \* not in the code: no restart and no outage of half the range
                \* since then

server == <<stream, newest, restarts, settled>>
ghosts == <<behind, books, tracked>>
vars == <<server, flight, state, last, gap_total, shown, ghosts>>

Init ==
  /\ stream \in {"NEXT_BEAT", "PROGRAM"}
  /\ newest \in SeqNumber
  /\ restarts = 0 /\ settled = FALSE
  /\ flight = {}
  /\ state = "REGISTERED"
  /\ last = NoSeq /\ gap_total = 0
  /\ shown = Far /\ behind = Far /\ books = 0 /\ tracked = TRUE

-------------------------------------------------------------------------------
(* The server and the network. *)

\* Whether a copy arrives, and how many do, is up to Lose and Receive.
Sent(under_way, m) ==
  IF Cardinality(under_way) < MaxFlight THEN under_way \cup {m} ELSE under_way

Older(age) == IF age < Far THEN age + 1 ELSE Far

\* A number more: the next beat, or a change of program.
Broadcast ==
  /\ ~settled
  /\ newest' = (newest + 1) % SeqModulus
  /\ flight' = Sent({[m EXCEPT !.age = Older(@)] : m \in {f \in flight : f.age # MaxAge}},
                    Push(newest'))
  /\ shown' = Older(shown) /\ behind' = Older(behind)
  /\ tracked' = (tracked /\ (last # NoSeq => behind' < Far))
  /\ books' = IF last = NoSeq \/ ~tracked' THEN 0 ELSE (books + 1) % GapModulus
  /\ UNCHANGED <<stream, restarts, settled, state, last, gap_total>>

\* The low-rate refresh of PROGRAM; a request for the tempo is answered.
Refresh ==
  /\ stream = "PROGRAM"
  /\ flight' = Sent(flight, Push(newest))
  /\ UNCHANGED <<server, state, last, gap_total, shown, ghosts>>

AnswerTempo ==
  /\ stream = "PROGRAM"
  /\ flight' = Sent(flight, TempoAnswer)
  /\ UNCHANGED <<server, state, last, gap_total, shown, ghosts>>

Settle ==
  /\ stream = "PROGRAM"
  /\ settled' = TRUE
  /\ UNCHANGED <<stream, newest, restarts, flight, state, last, gap_total, shown, ghosts>>

Restart ==
  /\ restarts < MaxRestarts
  /\ restarts' = restarts + 1
  /\ newest' = 0
  /\ flight' = {[m EXCEPT !.age = Far] : m \in flight}
  /\ shown' = Far /\ behind' = Far
  /\ tracked' = (tracked /\ last = NoSeq)
  /\ books' = IF tracked' THEN books ELSE 0
  /\ UNCHANGED <<stream, settled, state, last, gap_total>>

Lose(m) ==
  /\ flight' = flight \ {m}
  /\ UNCHANGED <<server, state, last, gap_total, shown, ghosts>>

-------------------------------------------------------------------------------
(* The controller. *)

\* Transitions carried out: see Controller for how they come about.
EnterTimeSynced ==
  /\ state = "REGISTERED" /\ state' = "TIME_SYNCED"
  /\ UNCHANGED <<server, flight, last, gap_total, shown, ghosts>>

EnterTempoSynced ==
  /\ state = "TIME_SYNCED" /\ state' = "TEMPO_SYNCED"
  /\ UNCHANGED <<server, flight, last, gap_total, shown, ghosts>>

Synced == state \in {"TIME_SYNCED", "TEMPO_SYNCED"}

\* A copy of the datagram may follow.
Delivered(m) == flight' \in {flight, flight \ {m}}

\* The handler returns before it has changed anything.
Ignored == UNCHANGED <<server, state, last, gap_total, shown, ghosts>>

\* MUTANT of Missed: the broadcast at hand is counted as well.
MissedToo(seq) == IF last = NoSeq THEN 0 ELSE SeqDelta(seq, last)

\* What was given out between the last broadcast applied and this one.
Missed(seq) == IF last = NoSeq THEN 0 ELSE SeqDelta(seq, last) - 1

GapTotal(seq) == (gap_total + Missed(seq)) % GapModulus

\* process_next_beat_msg, in a state and with a number it accepts.  Number and
\* gap are recorded before a transition is scheduled, if one is needed, and
\* when the event queue has no room for it the beat is not.
TakeBeat(m, room) ==
  /\ stream = "NEXT_BEAT" /\ Delivered(m)
  /\ Synced /\ NextBeatFresh(m.seq, last)
  /\ last' = m.seq
  /\ gap_total' = GapTotal(m.seq)
  /\ shown' = IF state = "TEMPO_SYNCED" \/ room THEN m.age ELSE shown
  /\ behind' = m.age
  /\ tracked' = (tracked /\ m.age # Far)
  /\ books' = IF ~tracked' THEN 0
              ELSE IF last = NoSeq THEN m.age % GapModulus ELSE (books - 1) % GapModulus
  /\ UNCHANGED <<server, state>>

DropBeat(m) ==
  /\ stream = "NEXT_BEAT" /\ Delivered(m)
  /\ ~(Synced /\ NextBeatFresh(m.seq, last))
  /\ Ignored

\* command_program, in every state.
TakeProgram(m) ==
  /\ stream = "PROGRAM" /\ Delivered(m)
  /\ ProgramFresh(m.seq, last)
  /\ last' = m.seq
  /\ shown' = m.age
  /\ behind' = m.age
  /\ UNCHANGED <<server, state, gap_total, books, tracked>>

DropProgram(m) ==
  /\ stream = "PROGRAM" /\ Delivered(m)
  /\ ~ProgramFresh(m.seq, last)
  /\ Ignored

\* process_tempo_msg sets the program it finds, whatever has been pushed since.
TakeTempo(m) ==
  /\ Delivered(m)
  /\ IF Synced
     THEN shown' = m.age /\ UNCHANGED <<server, state, last, gap_total, ghosts>>
     ELSE Ignored

Receive(m) ==
  \/ /\ m.kind = "push"
     /\ \/ \E room \in BOOLEAN : TakeBeat(m, room)
        \/ DropBeat(m)
        \/ TakeProgram(m)
        \/ DropProgram(m)
  \/ m.kind = "tempo" /\ TakeTempo(m)

Next ==
  \/ Broadcast \/ Refresh \/ AnswerTempo \/ Settle \/ Restart
  \/ EnterTimeSynced \/ EnterTempoSynced
  \/ \E m \in flight : Receive(m) \/ Lose(m)

Spec == Init /\ [][Next]_vars

(***************************************************************************)
(* Beats are broadcast for ever, and of those the controller would accept  *)
(* one gets through if they are sent again and again; the controller gets  *)
(* as far as TIME_SYNCED.  The refresh of PROGRAM is sent for ever and gets*)
(* through now and then.  No old datagram is delivered for ever.           *)
(* Nothing is assumed of TEMPO_RESPONSE.                                   *)
(***************************************************************************)
Fairness ==
  /\ WF_vars(stream = "NEXT_BEAT" /\ Broadcast)
  /\ SF_vars(\E m \in flight : TakeBeat(m, TRUE))
  /\ WF_vars(EnterTimeSynced)
  /\ WF_vars(Refresh)
  /\ SF_vars(\E m \in flight : m = Push(newest) /\ Receive(m))
  /\ WF_vars(\E m \in flight : m.age > 0 /\ Lose(m))
  /\ WF_vars(\E m \in flight : m.age = Far /\ Lose(m))

FairSpec == Spec /\ Fairness

-------------------------------------------------------------------------------
(***************************************************************************)
(* Properties.                                                             *)
(***************************************************************************)

TypeOK ==
  /\ stream \in {"NEXT_BEAT", "PROGRAM"}
  /\ newest \in SeqNumber
  /\ restarts \in 0 .. MaxRestarts /\ settled \in BOOLEAN
  /\ flight \subseteq Datagrams
  /\ state \in {"REGISTERED", "TIME_SYNCED", "TEMPO_SYNCED"}
  /\ last \in LastSeq
  /\ gap_total \in 0 .. GapModulus - 1
  /\ shown \in Ages /\ behind \in Ages
  /\ books \in 0 .. GapModulus - 1
  /\ tracked \in BOOLEAN

\* The controller tells newer from older as one who could count without
\* wrapping would, through wraps, losses and reordering ("Wraparound is handled
\* by treating the signed 16-bit difference as the actual increment"), as long
\* as it has not missed half the range.  A broadcast it has applied is applied
\* again if it is a PROGRAM and not if it is a NEXT_BEAT.
Comparable(m) == m.kind = "push" /\ m.age < Far /\ last # NoSeq /\ behind < Far

FilterKnowsAge ==
  \A m \in flight : Comparable(m) =>
    /\ NextBeatFresh(m.seq, last) <=> m.age < behind
    /\ ProgramFresh(m.seq, last) <=> m.age <= behind

\* Each beat since the first is applied, or counted as missed, or newer than the
\* last: stragglers and copies do not upset the count, nor do wraps.
MissedBeatsAreCounted ==
  (stream = "NEXT_BEAT" /\ tracked /\ last # NoSeq) =>
    (gap_total + behind - books) % GapModulus = 0

\* No outage, no restart of the server with other numbers and no full event
\* queue makes a controller deaf: the registry gets a beat of the last few again
\* and again.
BeatsKeepComing == []<>(stream = "NEXT_BEAT" => shown <= MaxAge)

\* When the program is changed no more, every controller comes to hold the last
\* one and keeps it, although answers with no number arrive late: the refresh,
\* accepted with the number already applied, puts them right.  A server that
\* has restarted or an outage of half the range may break this.
NeverFarBehind == restarts = 0 /\ (last # NoSeq => behind < Far)

ProgramSettles ==
  (stream = "PROGRAM" /\ []NeverFarBehind /\ <>[]settled) => <>[](shown = 0)

===============================================================================
