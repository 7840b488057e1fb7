--------------------------- MODULE Broadcasts_proofs ---------------------------
(***************************************************************************)
(* The filters of Broadcasts are right for every range of numbers.  The    *)
(* inductive invariant says what the model's ages are worth: a datagram or *)
(* a last number of a known age is that many steps before the newest, modulo*)
(* the range.                                                              *)
(***************************************************************************)
EXTENDS Broadcasts, TLAPS

-------------------------------------------------------------------------------
(* Arithmetic modulo M. *)

LEMMA ModRange ==
  ASSUME NEW M \in Nat \ {0}, NEW x \in Int
  PROVE  x % M \in 0 .. M - 1
OBVIOUS

LEMMA ModSmall ==
  ASSUME NEW M \in Nat \ {0}, NEW x \in 0 .. M - 1
  PROVE  x % M = x /\ (x - M) % M = x /\ (x + M) % M = x
OBVIOUS

LEMMA ModDifference ==
  ASSUME NEW M \in Nat \ {0}, NEW x \in 0 .. M - 1, NEW y \in 0 .. M - 1
  PROVE  (x - y) % M = IF x >= y THEN x - y ELSE x - y + M
<1>1. CASE x >= y
  <2>1. x - y \in 0 .. M - 1
    BY <1>1
  <2> QED BY <1>1, <2>1, ModSmall
<1>2. CASE ~(x >= y)
  <2>1. x - y + M \in 0 .. M - 1
    BY <1>2
  <2>2. ((x - y + M) - M) % M = x - y + M
    BY <2>1, ModSmall
  <2>3. (x - y + M) - M = x - y
    OBVIOUS
  <2> QED BY <1>2, <2>2, <2>3
<1> QED BY <1>1, <1>2

\* One more step before a newest number that is one higher.
LEMMA ModShift ==
  ASSUME NEW M \in Nat \ {0}, NEW n \in 0 .. M - 1, NEW a \in Nat, a + 1 <= M - 1
  PROVE  (((n + 1) % M) - (a + 1)) % M = (n - a) % M
<1>1. a \in 0 .. M - 1 /\ a + 1 \in 0 .. M - 1
  OBVIOUS
<1>2. (n - a) % M = IF n >= a THEN n - a ELSE n - a + M
  BY <1>1, ModDifference
<1>3. CASE n + 1 \in 0 .. M - 1
  <2>1. (n + 1) % M = n + 1
    BY <1>3, ModSmall
  <2>2. (n + 1 - (a + 1)) % M = IF n + 1 >= a + 1 THEN n + 1 - (a + 1)
                                ELSE n + 1 - (a + 1) + M
    BY <1>1, <1>3, ModDifference
  <2> QED BY <1>2, <2>1, <2>2
<1>4. CASE n + 1 = M
  <2>1. 0 \in 0 .. M - 1 /\ (0 + M) % M = 0
    BY ModSmall
  <2>2. (n + 1) % M = 0
    BY <1>4, <2>1
  <2>3. (0 - (a + 1)) % M = 0 - (a + 1) + M
    <3>1. ~(0 >= a + 1)
      OBVIOUS
    <3> QED BY <1>1, <2>1, <3>1, ModDifference
  <2> QED BY <1>2, <1>4, <2>2, <2>3
<1> QED BY <1>3, <1>4

\* Whole multiples.
LEMMA ModQuotient ==
  ASSUME NEW M \in Nat \ {0}, NEW x \in Int
  PROVE  \E q \in Int : x = (q * M) + (x % M)
<1>1. x \div M \in Int /\ x = ((x \div M) * M) + (x % M)
  OBVIOUS
<1> QED BY <1>1

LEMMA ModMultiple ==
  ASSUME NEW M \in Nat \ {0}, NEW q \in Int
  PROVE  (q * M) % M = 0
OBVIOUS

\* x and y are congruent when they differ by a multiple: what keeps the count
\* right although each of its terms is reduced on its own.
LEMMA ModZeroShift ==
  ASSUME NEW M \in Nat \ {0}, NEW x \in Int, NEW k \in Int, x % M = 0
  PROVE  (x + (k * M)) % M = 0
<1>1. PICK q \in Int : x = (q * M) + (x % M)
  BY ModQuotient
<1>2. x + (k * M) = (q + k) * M
  BY <1>1
<1>3. ((q + k) * M) % M = 0
  BY ModMultiple
<1> QED BY <1>2, <1>3

LEMMA FarFacts ==
  /\ SeqModulus \in Nat \ {0} /\ Far \in Nat
  /\ 2 * Far <= SeqModulus /\ Far <= SeqModulus - 1 /\ MaxAge < Far
  /\ GapModulus \in Nat \ {0} /\ MaxAge \in Nat
BY SeqAssumption, BroadcastsAssumption DEF Far

-------------------------------------------------------------------------------
(* The difference the controller computes. *)

\* Two numbers less than half the range old differ by what their ages do.
LEMMA DeltaOfAges ==
  ASSUME NEW n \in SeqNumber, NEW a \in 0 .. Far - 1, NEW b \in 0 .. Far - 1
  PROVE  SeqDelta((n - a) % SeqModulus, (n - b) % SeqModulus) = b - a
<1> DEFINE x == (n - a) % SeqModulus
           y == (n - b) % SeqModulus
<1>1. /\ SeqModulus \in Nat \ {0} /\ n \in 0 .. SeqModulus - 1
      /\ a \in 0 .. SeqModulus - 1 /\ b \in 0 .. SeqModulus - 1
      /\ 2 * a < SeqModulus /\ 2 * b < SeqModulus /\ SeqModulus \in Int
  BY FarFacts DEF SeqNumber
<1>2. x = IF n >= a THEN n - a ELSE n - a + SeqModulus
  BY <1>1, ModDifference
<1>3. y = IF n >= b THEN n - b ELSE n - b + SeqModulus
  BY <1>1, ModDifference
<1>4. x \in 0 .. SeqModulus - 1 /\ y \in 0 .. SeqModulus - 1
  <2> HIDE DEF x, y
  <2> QED BY <1>1, <1>2, <1>3
<1>5. (x - y) % SeqModulus = IF x >= y THEN x - y ELSE x - y + SeqModulus
  <2> HIDE DEF x, y
  <2> QED BY <1>1, <1>4, ModDifference
<1>6. SeqDelta(x, y) = IF 2 * ((x - y) % SeqModulus) < SeqModulus
                       THEN (x - y) % SeqModulus ELSE ((x - y) % SeqModulus) - SeqModulus
  BY DEF SeqDelta
<1>7. SeqDelta(x, y) = b - a
  <2> HIDE DEF x, y
  <2> QED BY <1>1, <1>2, <1>3, <1>4, <1>5, <1>6
<1> QED BY <1>7

-------------------------------------------------------------------------------
(* Types. *)

\* A datagram that is sent is added to what is under way, or it is lost at once.
LEMMA SentIsKept ==
  ASSUME NEW under_way, NEW m
  PROVE  Sent(under_way, m) \subseteq under_way \cup {m}
BY DEF Sent

LEMMA OlderIsAge ==
  ASSUME NEW age \in Ages
  PROVE  Older(age) \in Ages
BY FarFacts DEF Older, Ages

\* What Broadcast leaves under way.
LEMMA BroadcastFlight ==
  ASSUME TypeOK, Broadcast, NEW m \in flight'
  PROVE  \/ m = Push(newest')
         \/ \E f \in flight : m = [f EXCEPT !.age = Older(@)]
BY SentIsKept DEF Broadcast

LEMMA AgedDatagram ==
  ASSUME NEW f \in Datagrams, NEW age \in Ages
  PROVE  [f EXCEPT !.age = age] \in Datagrams
BY DEF Datagrams

LEMMA PushIsDatagram ==
  ASSUME NEW seq \in SeqNumber
  PROVE  Push(seq) \in Datagrams
BY FarFacts DEF Push, Datagrams, Ages

LEMMA BroadcastType ==
  ASSUME TypeOK, Broadcast
  PROVE  TypeOK'
<1>1. newest' \in SeqNumber
  <2>1. newest + 1 \in Int
    BY FarFacts DEF TypeOK, SeqNumber
  <2> QED BY <2>1, FarFacts, ModRange DEF Broadcast, SeqNumber
<1>2. flight' \subseteq Datagrams
  <2> SUFFICES ASSUME NEW m \in flight'
               PROVE  m \in Datagrams
    OBVIOUS
  <2>1. CASE m = Push(newest')
    BY <1>1, <2>1, PushIsDatagram
  <2>2. CASE \E f \in flight : m = [f EXCEPT !.age = Older(@)]
    <3>1. PICK f \in flight : m = [f EXCEPT !.age = Older(@)]
      BY <2>2
    <3>2. f \in Datagrams /\ f.age \in Ages
      BY DEF TypeOK, Datagrams
    <3>3. m = [f EXCEPT !.age = Older(f.age)]
      BY <3>1
    <3> QED BY <3>2, <3>3, OlderIsAge, AgedDatagram
  <2> QED BY <2>1, <2>2, BroadcastFlight
<1>3. shown' \in Ages /\ behind' \in Ages
  BY OlderIsAge DEF TypeOK, Broadcast
<1>4. tracked' \in BOOLEAN
  BY DEF TypeOK, Broadcast
<1>5. books' \in 0 .. GapModulus - 1
  <2>1. books + 1 \in Int
    BY FarFacts DEF TypeOK
  <2>2. (books + 1) % GapModulus \in 0 .. GapModulus - 1
    BY <2>1, FarFacts, ModRange
  <2>3. 0 \in 0 .. GapModulus - 1
    BY FarFacts
  <2> QED BY <2>2, <2>3 DEF Broadcast
<1> QED BY <1>1, <1>2, <1>3, <1>4, <1>5 DEF TypeOK, Broadcast

LEMMA SeqDeltaInt ==
  ASSUME NEW seq \in SeqNumber, NEW l \in LastSeq
  PROVE  SeqDelta(seq, l) \in Int
<1>1. seq - l \in Int
  BY FarFacts DEF SeqNumber, LastSeq, NoSeq
<1>2. (seq - l) % SeqModulus \in 0 .. SeqModulus - 1
  BY <1>1, FarFacts, ModRange
<1> QED BY <1>2, FarFacts DEF SeqDelta

LEMMA TakeBeatType ==
  ASSUME TypeOK, NEW m \in flight, m.kind = "push", NEW room \in BOOLEAN, TakeBeat(m, room)
  PROVE  TypeOK'
<1>1. m.seq \in SeqNumber /\ m.age \in Ages
  BY DEF TypeOK, Datagrams
<1>2. last' \in LastSeq
  BY <1>1 DEF TakeBeat, SeqNumber, LastSeq, NoSeq
<1>3. gap_total' \in 0 .. GapModulus - 1
  <2>1. SeqDelta(m.seq, last) \in Int
    BY <1>1, SeqDeltaInt DEF TypeOK
  <2>2. gap_total + Missed(m.seq) \in Int
    BY <2>1, FarFacts DEF TypeOK, Missed
  <2> QED BY <2>2, FarFacts, ModRange DEF TakeBeat, GapTotal
<1>4. shown' \in Ages /\ behind' \in Ages /\ tracked' \in BOOLEAN
  BY <1>1 DEF TakeBeat, TypeOK
<1>5. books' \in 0 .. GapModulus - 1
  <2>1. m.age \in Int /\ books - 1 \in Int
    BY <1>1, FarFacts DEF TypeOK, Ages
  <2>2. /\ m.age % GapModulus \in 0 .. GapModulus - 1
        /\ (books - 1) % GapModulus \in 0 .. GapModulus - 1
    BY <2>1, FarFacts, ModRange
  <2>3. 0 \in 0 .. GapModulus - 1
    BY FarFacts
  <2> QED BY <2>2, <2>3 DEF TakeBeat
<1>6. flight' \subseteq Datagrams
  BY DEF TakeBeat, Delivered, TypeOK
<1> QED BY <1>2, <1>3, <1>4, <1>5, <1>6 DEF TypeOK, TakeBeat, server

LEMMA RestartType ==
  ASSUME TypeOK, Restart
  PROVE  TypeOK'
<1>1. Far \in Ages /\ 0 \in SeqNumber
  BY FarFacts DEF Ages, SeqNumber
<1>2. flight' \subseteq Datagrams
  <2> SUFFICES ASSUME NEW f \in flight
               PROVE  [f EXCEPT !.age = Far] \in Datagrams
    BY DEF Restart
  <2> QED BY <1>1, AgedDatagram DEF TypeOK
<1>3. restarts' \in 0 .. MaxRestarts
  BY BroadcastsAssumption DEF Restart, TypeOK
<1>4. books' \in 0 .. GapModulus - 1
  BY FarFacts DEF Restart, TypeOK
<1> QED BY <1>1, <1>2, <1>3, <1>4 DEF TypeOK, Restart

\* The numbers are left alone by all that does not change them.
LEMMA NumbersUnchangedType ==
  ASSUME TypeOK, UNCHANGED <<stream, newest, restarts, last, gap_total, ghosts>>,
         settled' \in BOOLEAN, shown' \in Ages, flight' \subseteq Datagrams,
         state' \in {"REGISTERED", "TIME_SYNCED", "TEMPO_SYNCED"}
  PROVE  TypeOK'
BY DEF TypeOK, ghosts

\* A datagram is added to what is under way, or it is lost.
LEMMA AnsweredType ==
  ASSUME TypeOK, Refresh \/ AnswerTempo
  PROVE  TypeOK'
<1>1. Push(newest) \in Datagrams /\ TempoAnswer \in Datagrams
  BY PushIsDatagram, FarFacts DEF TypeOK, TempoAnswer, Datagrams, Ages
<1>2. flight' \subseteq Datagrams
  BY <1>1, SentIsKept DEF Refresh, AnswerTempo, TypeOK
<1>3. /\ UNCHANGED <<stream, newest, restarts, last, gap_total, ghosts>>
      /\ settled' = settled /\ shown' = shown /\ state' = state
  BY DEF Refresh, AnswerTempo, server
<1> QED BY <1>2, <1>3, NumbersUnchangedType DEF TypeOK

LEMMA ProgramType ==
  ASSUME TypeOK, NEW m \in flight, m.kind = "push", TakeProgram(m)
  PROVE  TypeOK'
<1>1. m.seq \in SeqNumber /\ m.age \in Ages
  BY DEF TypeOK, Datagrams
<1>2. last' \in LastSeq
  BY <1>1 DEF TakeProgram, SeqNumber, LastSeq, NoSeq
<1>3. flight' \subseteq Datagrams
  BY DEF TakeProgram, Delivered, TypeOK
<1> QED BY <1>1, <1>2, <1>3 DEF TypeOK, TakeProgram, server

LEMMA TempoType ==
  ASSUME TypeOK, NEW m \in flight, TakeTempo(m)
  PROVE  TypeOK'
<1>1. m.age \in Ages
  BY DEF TypeOK, Datagrams
<1>2. /\ UNCHANGED <<stream, newest, restarts, last, gap_total, ghosts>>
      /\ settled' = settled /\ shown' \in Ages /\ state' = state
  BY <1>1 DEF TakeTempo, Ignored, server, TypeOK
<1>3. flight' \subseteq Datagrams
  BY DEF TakeTempo, Delivered, TypeOK
<1> QED BY <1>2, <1>3, NumbersUnchangedType DEF TypeOK

LEMMA DroppedType ==
  ASSUME TypeOK, NEW m \in flight, DropBeat(m) \/ DropProgram(m) \/ Lose(m)
  PROVE  TypeOK'
<1>1. /\ UNCHANGED <<stream, newest, restarts, last, gap_total, ghosts>>
      /\ settled' = settled /\ shown' = shown /\ state' = state
  BY DEF DropBeat, DropProgram, Lose, Ignored, server
<1>2. flight' \subseteq Datagrams
  BY DEF DropBeat, DropProgram, Lose, Delivered, TypeOK
<1> QED BY <1>1, <1>2, NumbersUnchangedType DEF TypeOK

LEMMA TransitionType ==
  ASSUME TypeOK, Settle \/ EnterTimeSynced \/ EnterTempoSynced
  PROVE  TypeOK'
<1>1. /\ UNCHANGED <<stream, newest, restarts, last, gap_total, ghosts>>
      /\ settled' \in BOOLEAN /\ shown' = shown /\ flight' = flight
      /\ state' \in {"REGISTERED", "TIME_SYNCED", "TEMPO_SYNCED"}
  BY DEF Settle, EnterTimeSynced, EnterTempoSynced, server, ghosts, TypeOK
<1> QED BY <1>1, NumbersUnchangedType DEF TypeOK

LEMMA TypeInit == Init => TypeOK
<1>1. /\ NoSeq \in LastSeq /\ Far \in Ages /\ 0 \in 0 .. GapModulus - 1
      /\ 0 \in 0 .. MaxRestarts
  BY FarFacts, BroadcastsAssumption DEF LastSeq, NoSeq, Ages
<1> QED BY <1>1 DEF Init, TypeOK

LEMMA TypeNext == TypeOK /\ [Next]_vars => TypeOK'
<1> SUFFICES ASSUME TypeOK, [Next]_vars PROVE TypeOK'
  OBVIOUS
<1>1. CASE Broadcast
  BY <1>1, BroadcastType
<1>2. CASE Refresh \/ AnswerTempo
  BY <1>2, AnsweredType
<1>3. CASE Settle \/ EnterTimeSynced \/ EnterTempoSynced
  BY <1>3, TransitionType
<1>4. CASE Restart
  BY <1>4, RestartType
<1>5. ASSUME NEW m \in flight, Receive(m) \/ Lose(m)
      PROVE  TypeOK'
  <2>1. CASE DropBeat(m) \/ DropProgram(m) \/ Lose(m)
    BY <2>1, DroppedType
  <2>2. CASE m.kind = "push" /\ \E room \in BOOLEAN : TakeBeat(m, room)
    BY <2>2, TakeBeatType
  <2>3. CASE m.kind = "push" /\ TakeProgram(m)
    BY <2>3, ProgramType
  <2>4. CASE TakeTempo(m)
    BY <2>4, TempoType
  <2> QED BY <1>5, <2>1, <2>2, <2>3, <2>4 DEF Receive
<1>6. CASE UNCHANGED vars
  BY <1>6 DEF TypeOK, vars, server, ghosts
<1> QED BY <1>1, <1>2, <1>3, <1>4, <1>5, <1>6 DEF Next

\* Every variable keeps its type: numbers, ages and the gap counter stay in
\* their ranges whatever is lost, repeated or reordered.
THEOREM TypeCorrect == Spec => []TypeOK
BY TypeInit, TypeNext, PTL DEF Spec

-------------------------------------------------------------------------------
(* What the ages are worth. *)

AgesTrue ==
  \A m \in flight :
    (m.kind = "push" /\ m.age < Far) => m.seq = (newest - m.age) % SeqModulus

BehindTrue ==
  (last # NoSeq /\ behind < Far) => last = (newest - behind) % SeqModulus

IInv == TypeOK /\ AgesTrue /\ BehindTrue

LEMMA IInvImpliesFilter == IInv => FilterKnowsAge
<1> SUFFICES ASSUME IInv, NEW m \in flight, Comparable(m)
             PROVE  /\ NextBeatFresh(m.seq, last) <=> m.age < behind
                    /\ ProgramFresh(m.seq, last) <=> m.age <= behind
  BY DEF FilterKnowsAge
<1>1. m.kind = "push" /\ m.age < Far /\ last # NoSeq /\ behind < Far
  BY DEF Comparable
<1>2. m.age \in 0 .. Far - 1 /\ behind \in 0 .. Far - 1 /\ newest \in SeqNumber
  BY <1>1, FarFacts DEF IInv, TypeOK, Datagrams, Ages
<1>3. /\ m.seq = (newest - m.age) % SeqModulus
      /\ last = (newest - behind) % SeqModulus
  BY <1>1 DEF IInv, AgesTrue, BehindTrue
<1>4. SeqDelta(m.seq, last) = behind - m.age
  BY <1>2, <1>3, DeltaOfAges
<1> QED BY <1>1, <1>2, <1>4, FarFacts DEF NextBeatFresh, ProgramFresh

LEMMA AgedFields ==
  ASSUME NEW f \in Datagrams, NEW age \in Ages
  PROVE  /\ [f EXCEPT !.age = age].kind = f.kind
         /\ [f EXCEPT !.age = age].age = age
         /\ f.kind = "push" => [f EXCEPT !.age = age].seq = f.seq
BY DEF Datagrams

\* A number more: what was sent and what was applied are one step older.
LEMMA NewestMoves ==
  ASSUME NEW n \in SeqNumber, NEW age \in Ages, Older(age) < Far
  PROVE  (((n + 1) % SeqModulus) - Older(age)) % SeqModulus = (n - age) % SeqModulus
<1>1. Older(age) = age + 1 /\ age \in Nat /\ age + 1 <= SeqModulus - 1
  BY FarFacts DEF Older, Ages
<1>2. SeqModulus \in Nat \ {0} /\ n \in 0 .. SeqModulus - 1
  BY FarFacts DEF SeqNumber
<1>3. (((n + 1) % SeqModulus) - (age + 1)) % SeqModulus = (n - age) % SeqModulus
  BY <1>1, <1>2, ModShift
<1> QED BY <1>1, <1>3

LEMMA BroadcastInv ==
  ASSUME IInv, Broadcast
  PROVE  AgesTrue' /\ BehindTrue'
<1>1. newest' = (newest + 1) % SeqModulus /\ newest' \in SeqNumber /\ newest \in SeqNumber
  BY BroadcastType DEF IInv, TypeOK, Broadcast
<1>2. AgesTrue'
  <2> SUFFICES ASSUME NEW m \in flight', m.kind = "push", m.age < Far
               PROVE  m.seq = (newest' - m.age) % SeqModulus
    BY DEF AgesTrue
  <2>1. CASE m = Push(newest')
    <3>1. m.seq = newest' /\ m.age = 0
      BY <2>1 DEF Push
    <3>2. newest' \in 0 .. SeqModulus - 1 /\ newest' - 0 = newest'
      BY <1>1, FarFacts DEF SeqNumber
    <3>3. newest' % SeqModulus = newest'
      BY <3>2, FarFacts, ModSmall
    <3> QED BY <3>1, <3>2, <3>3
  <2>2. CASE \E f \in flight : m = [f EXCEPT !.age = Older(@)]
    <3>1. PICK f \in flight : m = [f EXCEPT !.age = Older(f.age)]
      BY <2>2
    <3>2. f \in Datagrams /\ f.age \in Ages /\ Older(f.age) \in Ages
      BY OlderIsAge DEF IInv, TypeOK, Datagrams
    <3>3. f.kind = "push" /\ m.age = Older(f.age) /\ m.seq = f.seq
      BY <3>1, <3>2, AgedFields
    <3>4. f.age < Far
      BY <3>2, <3>3, FarFacts DEF Older, Ages
    <3>5. f.seq = (newest - f.age) % SeqModulus
      BY <3>3, <3>4 DEF IInv, AgesTrue
    <3>6. (newest' - m.age) % SeqModulus = (newest - f.age) % SeqModulus
      BY <1>1, <3>2, <3>3, NewestMoves
    <3> QED BY <3>3, <3>5, <3>6
  <2> QED BY <2>1, <2>2, BroadcastFlight DEF IInv
<1>3. BehindTrue'
  <2> SUFFICES ASSUME last # NoSeq, Older(behind) < Far
               PROVE  last = (newest' - Older(behind)) % SeqModulus
    BY DEF BehindTrue, Broadcast
  <2>1. behind \in Ages /\ behind < Far
    BY FarFacts DEF IInv, TypeOK, Older, Ages
  <2> QED BY <1>1, <2>1, NewestMoves DEF IInv, BehindTrue
<1> QED BY <1>2, <1>3

LEMMA RestartInv ==
  ASSUME IInv, Restart
  PROVE  AgesTrue' /\ BehindTrue'
<1>1. Far \in Ages /\ ~(Far < Far)
  BY FarFacts DEF Ages
<1>2. \A f \in flight : [f EXCEPT !.age = Far].age = Far
  BY <1>1, AgedFields DEF IInv, TypeOK
<1>3. AgesTrue'
  BY <1>1, <1>2 DEF Restart, AgesTrue
<1> QED BY <1>1, <1>3 DEF Restart, BehindTrue

\* A number that is applied brings its age along.
LEMMA AppliedInv ==
  ASSUME IInv, NEW m \in flight, m.kind = "push", UNCHANGED newest,
         flight' \subseteq flight, last' = m.seq, behind' = m.age
  PROVE  AgesTrue' /\ BehindTrue'
BY DEF IInv, AgesTrue, BehindTrue

LEMMA UnchangedInv ==
  ASSUME IInv, UNCHANGED <<newest, last, behind>>,
         \A m \in flight' : m \in flight \/ m = Push(newest) \/ m.kind = "tempo"
  PROVE  AgesTrue' /\ BehindTrue'
<1>1. Push(newest).seq = newest /\ Push(newest).age = 0
  BY DEF Push
<1>2. newest \in 0 .. SeqModulus - 1 /\ newest - 0 = newest
  BY FarFacts DEF IInv, TypeOK, SeqNumber
<1>3. newest % SeqModulus = newest
  BY <1>2, FarFacts, ModSmall
<1>4. \A m \in flight' : m.kind = "push" => (m \in flight \/ m = Push(newest))
  OBVIOUS
<1>5. AgesTrue'
  BY <1>1, <1>2, <1>3, <1>4 DEF IInv, AgesTrue
<1> QED BY <1>5 DEF IInv, BehindTrue

LEMMA IInvNext == IInv /\ [Next]_vars => IInv'
<1> SUFFICES ASSUME IInv, [Next]_vars PROVE IInv'
  OBVIOUS
<1>1. TypeOK'
  BY TypeNext DEF IInv
<1>2. AgesTrue' /\ BehindTrue'
  <2>1. CASE Broadcast
    BY <2>1, BroadcastInv
  <2>2. CASE Restart
    BY <2>2, RestartInv
  <2>3. CASE Refresh \/ AnswerTempo
    <3>1. TempoAnswer.kind = "tempo"
      BY DEF TempoAnswer
    <3>2. \A m \in flight' : m \in flight \/ m = Push(newest) \/ m.kind = "tempo"
      BY <2>3, <3>1, SentIsKept DEF Refresh, AnswerTempo
    <3> QED BY <2>3, <3>2, UnchangedInv DEF Refresh, AnswerTempo, server, ghosts
  <2>4. CASE Settle \/ EnterTimeSynced \/ EnterTempoSynced \/ UNCHANGED vars
    <3>1. UNCHANGED <<newest, last, behind, flight>>
      BY <2>4 DEF Settle, EnterTimeSynced, EnterTempoSynced, vars, server, ghosts
    <3> QED BY <3>1, UnchangedInv
  <2>5. ASSUME NEW m \in flight, Receive(m) \/ Lose(m)
        PROVE  AgesTrue' /\ BehindTrue'
    <3>1. CASE DropBeat(m) \/ DropProgram(m) \/ Lose(m) \/ TakeTempo(m)
      <4>1. UNCHANGED <<newest, last, behind>> /\ flight' \subseteq flight
        BY <3>1 DEF DropBeat, DropProgram, Lose, TakeTempo, Ignored, Delivered, server, ghosts
      <4> QED BY <4>1, UnchangedInv
    <3>2. CASE m.kind = "push" /\ \E room \in BOOLEAN : TakeBeat(m, room)
      BY <3>2, AppliedInv DEF TakeBeat, Delivered, server
    <3>3. CASE m.kind = "push" /\ TakeProgram(m)
      BY <3>3, AppliedInv DEF TakeProgram, Delivered, server
    <3> QED BY <2>5, <3>1, <3>2, <3>3 DEF Receive
  <2> QED BY <2>1, <2>2, <2>3, <2>4, <2>5 DEF Next
<1> QED BY <1>1, <1>2 DEF IInv

LEMMA IInvInit == Init => IInv
<1>1. Init => AgesTrue /\ BehindTrue
  BY DEF Init, AgesTrue, BehindTrue
<1> QED BY <1>1, TypeInit DEF IInv

\* Whatever the range of the numbers: as long as neither a datagram nor the last
\* number applied is half of it old, NEXT_BEAT is accepted exactly when it is
\* newer, and PROGRAM when it is not older, than the last one applied.
THEOREM FilterIsRight == Spec => []FilterKnowsAge
<1>1. Spec => []IInv
  BY IInvInit, IInvNext, PTL DEF Spec
<1> QED BY <1>1, IInvImpliesFilter, PTL

-------------------------------------------------------------------------------
(* What is missed is counted. *)

Counted ==
  (tracked /\ last # NoSeq) =>
    /\ behind < Far
    /\ (gap_total + behind - books) % GapModulus = 0

CountInv ==
  stream = "NEXT_BEAT" =>
    /\ last = NoSeq => gap_total = 0
    /\ Counted

\* Both sides of the account are one higher.
LEMMA BroadcastCount ==
  ASSUME IInv, CountInv, Broadcast
  PROVE  CountInv'
<1> SUFFICES ASSUME stream = "NEXT_BEAT", tracked', last # NoSeq
             PROVE  behind' < Far /\ (gap_total + behind' - books') % GapModulus = 0
  BY DEF CountInv, Counted, Broadcast
<1> DEFINE x == gap_total + behind - books
<1>1. /\ GapModulus \in Nat \ {0} /\ gap_total \in Int /\ behind \in Int /\ books \in Int
      /\ x \in Int /\ books + 1 \in Int /\ behind \in Ages
  BY FarFacts DEF IInv, TypeOK, Ages
<1>2. tracked /\ behind' = Older(behind) /\ behind' < Far
      /\ books' = (books + 1) % GapModulus
  BY DEF Broadcast
<1>3. behind' = behind + 1
  BY <1>1, <1>2, FarFacts DEF Older, Ages
<1>4. x % GapModulus = 0
  BY <1>2 DEF CountInv, Counted
<1>5. PICK q \in Int : books + 1 = (q * GapModulus) + ((books + 1) % GapModulus)
  BY <1>1, ModQuotient
<1>6. books' = (books + 1) - (q * GapModulus)
  <2>1. (books + 1) % GapModulus \in Int
    BY <1>1, ModRange
  <2>2. q * GapModulus \in Int
    BY <1>1
  <2> QED BY <1>1, <1>2, <1>5, <2>1, <2>2
<1>7. gap_total + behind' - books' = x + (q * GapModulus)
  BY <1>1, <1>3, <1>6
<1>8. (x + (q * GapModulus)) % GapModulus = 0
  <2> HIDE DEF x
  <2> QED BY <1>1, <1>4, ModZeroShift
<1> QED BY <1>2, <1>7, <1>8

\* The first beat applied, and every later one: what lies between two of them
\* goes to the gap, the new one off the books.
LEMMA TakeBeatCount ==
  ASSUME IInv, CountInv, NEW m \in flight, m.kind = "push", NEW room \in BOOLEAN,
         TakeBeat(m, room)
  PROVE  CountInv'
<1>1. m.seq \in SeqNumber /\ m.age \in Ages /\ last' = m.seq /\ last' # NoSeq
  BY FarFacts DEF IInv, TypeOK, Datagrams, TakeBeat, SeqNumber, NoSeq
<1> SUFFICES ASSUME tracked'
             PROVE  behind' < Far /\ (gap_total' + behind' - books') % GapModulus = 0
  BY <1>1 DEF CountInv, Counted
<1>2. /\ stream = "NEXT_BEAT" /\ tracked /\ m.age # Far
      /\ NextBeatFresh(m.seq, last)
      /\ behind' = m.age /\ gap_total' = (gap_total + Missed(m.seq)) % GapModulus
  BY DEF TakeBeat, GapTotal
<1>3. /\ GapModulus \in Nat \ {0} /\ m.age \in 0 .. Far - 1 /\ m.age \in Int
      /\ gap_total \in Int /\ behind \in Int /\ books \in Int
  BY <1>1, <1>2, FarFacts DEF IInv, TypeOK, Ages
<1>4. CASE last = NoSeq
  <2>1. gap_total = 0 /\ Missed(m.seq) = 0 /\ books' = m.age % GapModulus
    BY <1>2, <1>4 DEF CountInv, Missed, TakeBeat
  <2>2. gap_total' = 0
    <3>1. 0 \in 0 .. GapModulus - 1 /\ 0 + 0 = 0
      BY <1>3
    <3>2. 0 % GapModulus = 0
      BY <1>3, <3>1, ModSmall
    <3> QED BY <1>2, <2>1, <3>1, <3>2
  <2>3. PICK q \in Int : m.age = (q * GapModulus) + (m.age % GapModulus)
    BY <1>3, ModQuotient
  <2>4. gap_total' + behind' - books' = q * GapModulus
    <3>1. m.age % GapModulus \in Int /\ q * GapModulus \in Int
      BY <1>3, ModRange
    <3> QED BY <1>2, <1>3, <2>1, <2>2, <2>3, <3>1
  <2>5. (q * GapModulus) % GapModulus = 0
    BY <1>3, ModMultiple
  <2> QED BY <1>2, <1>3, <2>4, <2>5, FarFacts
<1>5. CASE last # NoSeq
  <2> DEFINE x == gap_total + behind - books
             g == gap_total + (behind - m.age - 1)
  <2>1. behind < Far /\ x % GapModulus = 0
    BY <1>2, <1>5 DEF CountInv, Counted
  <2>2. behind \in 0 .. Far - 1 /\ newest \in SeqNumber
    BY <2>1, FarFacts DEF IInv, TypeOK, Ages
  <2>3. /\ m.seq = (newest - m.age) % SeqModulus
        /\ last = (newest - behind) % SeqModulus
    BY <1>2, <1>3, <1>5, <2>1, FarFacts DEF IInv, AgesTrue, BehindTrue
  <2>4. Missed(m.seq) = behind - m.age - 1
    <3>1. SeqDelta(m.seq, last) = behind - m.age
      BY <1>3, <2>2, <2>3, DeltaOfAges
    <3> QED BY <1>5, <3>1 DEF Missed
  <2>5. g \in Int /\ books - 1 \in Int /\ x \in Int
    BY <1>3
  <2>6. PICK q \in Int : g = (q * GapModulus) + (g % GapModulus)
    <3> HIDE DEF g
    <3> QED BY <1>3, <2>5, ModQuotient
  <2>7. PICK r \in Int : books - 1 = (r * GapModulus) + ((books - 1) % GapModulus)
    BY <1>3, <2>5, ModQuotient
  <2>8. /\ g % GapModulus \in Int /\ (books - 1) % GapModulus \in Int
        /\ q * GapModulus \in Int /\ r * GapModulus \in Int
    <3> HIDE DEF g
    <3> QED BY <1>3, <2>5, ModRange
  <2>9. gap_total' = g % GapModulus
    BY <1>2, <2>4
  <2>10. books' = (books - 1) % GapModulus
    BY <1>5 DEF TakeBeat
  <2>11. gap_total' = g - (q * GapModulus) /\ books' = (books - 1) - (r * GapModulus)
    <3> HIDE DEF g
    <3> QED BY <1>3, <2>5, <2>6, <2>7, <2>8, <2>9, <2>10
  <2>12. gap_total' + behind' - books' = x + ((r * GapModulus) - (q * GapModulus))
    BY <1>2, <1>3, <2>8, <2>11
  <2>13. (r * GapModulus) - (q * GapModulus) = (r - q) * GapModulus /\ r - q \in Int
    BY <1>3
  <2>14. (x + ((r - q) * GapModulus)) % GapModulus = 0
    <3> HIDE DEF x
    <3> QED BY <1>3, <2>1, <2>5, <2>13, ModZeroShift
  <2> QED BY <1>2, <1>3, <2>12, <2>13, <2>14, FarFacts
<1> QED BY <1>4, <1>5

LEMMA CountNext == IInv /\ CountInv /\ [Next]_vars => CountInv'
<1> SUFFICES ASSUME IInv, CountInv, [Next]_vars PROVE CountInv'
  OBVIOUS
<1>1. CASE Broadcast
  BY <1>1, BroadcastCount
<1>2. CASE Restart
  BY <1>2 DEF Restart, CountInv, Counted
<1>3. CASE \/ Refresh \/ AnswerTempo \/ Settle \/ EnterTimeSynced \/ EnterTempoSynced
           \/ UNCHANGED vars
  <2>1. UNCHANGED <<stream, last, gap_total, behind, books, tracked>>
    BY <1>3 DEF Refresh, AnswerTempo, Settle, EnterTimeSynced, EnterTempoSynced,
                vars, server, ghosts
  <2> QED BY <2>1 DEF CountInv, Counted
<1>4. ASSUME NEW m \in flight, Receive(m) \/ Lose(m)
      PROVE  CountInv'
  <2>1. CASE DropBeat(m) \/ DropProgram(m) \/ Lose(m) \/ TakeTempo(m)
    <3>1. UNCHANGED <<stream, last, gap_total, behind, books, tracked>>
      BY <2>1 DEF DropBeat, DropProgram, Lose, TakeTempo, Ignored, server, ghosts
    <3> QED BY <3>1 DEF CountInv, Counted
  <2>2. CASE m.kind = "push" /\ \E room \in BOOLEAN : TakeBeat(m, room)
    BY <2>2, TakeBeatCount
  <2>3. CASE TakeProgram(m)
    BY <2>3 DEF TakeProgram, CountInv, server
  <2> QED BY <1>4, <2>1, <2>2, <2>3 DEF Receive
<1> QED BY <1>1, <1>2, <1>3, <1>4 DEF Next

\* Whatever the ranges of the numbers and of the counter, through wraps of both:
\* each beat since the first is applied, or counted as missed, or newer than the
\* last, until the server restarts or half the range passes without one.
THEOREM GapCountIsRight == Spec => []MissedBeatsAreCounted
<1>1. Init => CountInv
  BY DEF Init, CountInv, Counted
<1>2. CountInv => MissedBeatsAreCounted
  BY DEF CountInv, Counted, MissedBeatsAreCounted
<1>3. Spec => [](IInv /\ CountInv)
  BY IInvInit, IInvNext, CountNext, <1>1, PTL DEF Spec
<1> QED BY <1>2, <1>3, PTL

===============================================================================
