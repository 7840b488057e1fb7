-------------------------- MODULE Controller_proofs --------------------------
(***************************************************************************)
(* Proofs about Controller, for every size of the queues, every set of     *)
(* programs, tempos and sequence numbers, any number of power-ups and time *)
(* requests, and both kinds of port: timers and types; the order of things,*)
(* which transitions can wait in the event queue and how long they stay    *)
(* legal; the refinement of Lifecycle; early tempos; the LED core.         *)
(***************************************************************************)
EXTENDS Controller, TLAPS

-------------------------------------------------------------------------------
(* Timers.  The exit handler cancels the alarms of the state that is left, *)
(* so what must be known besides TimersMatchState is that exit_current_    *)
(* state always points to the handler of current_state, except while       *)
(* enter_started_state runs, when no alarm exists.                         *)

TimersInv ==
  /\ state \in States
  /\ exitHandler \in States
  /\ power = "off" => state = STATE_UNKNOWN /\ exitHandler = STATE_UNKNOWN
  /\ power = "starting" => state = STATE_STARTED /\ exitHandler = STATE_UNKNOWN
  /\ power = "running" => exitHandler = state
  /\ alarm \subseteq Alarms
  /\ timers = [a \in Alarms |-> IF a \in alarm THEN 1 ELSE 0]
  /\ alarm \in {Manager!PeriodicRequests(state)}
                 \cup (IF TimerMayFail THEN {{}} ELSE {})

lifeVars == <<power, managerVars>>

USE DEF STATE_UNKNOWN, STATE_STARTED, STATE_INITIALIZED, STATE_REGISTERED,
        STATE_TIME_SYNCED, STATE_TEMPO_SYNCED

(***************************************************************************)
(* Exit handler and entry handler together leave exactly the created       *)
(* timers, if no handle but those of the state that is left was set.       *)
(***************************************************************************)
LEMMA ReplaceTimersExact ==
  ASSUME alarm \subseteq Alarms,
         timers = [a \in Alarms |-> IF a \in alarm THEN 1 ELSE 0],
         NEW created \in SUBSET Alarms,
         alarm \subseteq ExitAlarms,
         ReplaceTimers(created)
  PROVE  /\ alarm' = created
         /\ timers' = [a \in Alarms |-> IF a \in created THEN 1 ELSE 0]
<1>1. alarm' = created
  BY DEF ReplaceTimers
<1>2. \A a \in Alarms :
        timers[a] - (IF a \in alarm \cap ExitAlarms THEN 1 ELSE 0)
                  + (IF a \in created THEN 1 ELSE 0)
          = IF a \in created THEN 1 ELSE 0
  <2> TAKE a \in Alarms
  <2>1. CASE a \in alarm
    <3>1. timers[a] = 1 /\ a \in alarm \cap ExitAlarms
      BY <2>1
    <3> QED BY <3>1
  <2>2. CASE a \notin alarm
    <3>1. timers[a] = 0 /\ a \notin alarm \cap ExitAlarms
      BY <2>2
    <3> QED BY <3>1
  <2> QED BY <2>1, <2>2
<1> QED BY <1>1, <1>2 DEF ReplaceTimers

(***************************************************************************)
(* Every step keeps TimersInv.                                             *)
(***************************************************************************)
LEMMA TimersInvStep == TimersInv /\ [Next]_vars => TimersInv'
<1> SUFFICES ASSUME TimersInv, [Next]_vars PROVE TimersInv'
  OBVIOUS
<1>1. ASSUME UNCHANGED <<state, exitHandler, alarm, timers>>,
             power' = power \/ power' = "halted"
      PROVE  TimersInv'
  BY <1>1 DEF TimersInv
<1> USE DEF managerVars, Manager!PeriodicRequests, Alarms, SyncedAlarms, States
<1>2. ASSUME NEW s \in States, TransitionTo(s),
             power' \in {"running", "halted"},
             alarm' \in {Manager!PeriodicRequests(s)}
                          \cup (IF TimerMayFail THEN {{}} ELSE {}),
             timers' = [a \in Alarms |-> IF a \in alarm' THEN 1 ELSE 0]
      PROVE  TimersInv'
  <2>1. state' = s /\ exitHandler' = s /\ alarm' \subseteq Alarms
    BY <1>2 DEF TransitionTo
  <2> QED BY <1>2, <2>1 DEF TimersInv
<1>3. ASSUME TransitionPending
      PROVE  alarm \subseteq ExitAlarms /\ exitHandler = state /\ power = "running"
  BY <1>3 DEF TransitionPending, TimersInv, ExitAlarms
<1>4. CASE Boot
  BY <1>4 DEF Boot, TimersInv
<1>5. CASE FinishStart
  BY <1>5 DEF FinishStart, TimersInv
<1>6. CASE PowerLoss
  BY <1>6 DEF PowerLoss, TimersInv
<1>7. CASE PopEvent
  BY <1>7, <1>1 DEF PopEvent
<1>8. CASE HandleEvent
  <2>1. CASE RejectTransition
    BY <2>1, <1>1 DEF RejectTransition, TransitionPending, Return, FatalIf
  <2>2. CASE EnterInitialized
    <3>1. PICK created \in {{"init_hello"}} \cup (IF TimerMayFail THEN {{}} ELSE {}) :
            ReplaceTimers(created)
      BY <2>2 DEF EnterInitialized
    <3>2. TransitionTo(2) /\ TransitionPending /\ power' = "running"
      BY <2>2 DEF EnterInitialized, TransitionTo, TransitionPending
    <3>3. alarm' = created /\ timers' = [a \in Alarms |-> IF a \in created THEN 1 ELSE 0]
      BY <3>1, <3>2, <1>3, ReplaceTimersExact DEF TimersInv
    <3> QED BY <3>1, <3>2, <3>3, <1>2
  <2>3. CASE EnterRegistered
    <3>1. TransitionTo(3) /\ TransitionPending /\ power' \in {"running", "halted"}
      BY <2>3 DEF EnterRegistered, TransitionTo
    <3>2. alarm' = {} /\ timers' = [a \in Alarms |-> IF a \in {} THEN 1 ELSE 0]
      BY <2>3, <3>1, <1>3, ReplaceTimersExact DEF TimersInv, EnterRegistered
    <3> QED BY <3>1, <3>2, <1>2
  <2>4. CASE EnterTimeSynced
    <3>1. TransitionTo(4) /\ TransitionPending /\ power' = power /\ power = "running"
      BY <2>4 DEF EnterTimeSynced, TransitionTo, TransitionPending
    <3>2. alarm' = {} /\ timers' = [a \in Alarms |-> IF a \in {} THEN 1 ELSE 0]
      BY <2>4, <3>1, <1>3, ReplaceTimersExact DEF TimersInv, EnterTimeSynced
    <3> QED BY <3>1, <3>2, <1>2
  <2>5. CASE EnterTempoSynced
    <3>1. TransitionTo(5) /\ TransitionPending
      BY <2>5 DEF EnterTempoSynced, TransitionTo
    <3>2. (alarm \ ExitAlarms) \cap SyncedAlarms = {}
      BY <3>1, <1>3
    <3>3. PICK created \in {SyncedAlarms} \cup (IF TimerMayFail THEN {{}} ELSE {}) :
            ReplaceTimers(created) /\ power' = power
      BY <2>5, <3>2 DEF EnterTempoSynced
    <3>4. alarm' = created /\ timers' = [a \in Alarms |-> IF a \in created THEN 1 ELSE 0]
      BY <3>1, <3>3, <1>3, ReplaceTimersExact DEF TimersInv
    <3> QED BY <3>1, <3>3, <3>4, <1>2, <1>3
  <2>6. CASE HandleHello
    BY <2>6, <1>1 DEF HandleHello, Handling, ScheduleAndReturn, Return, FatalIf
  <2>7. CASE HandleTime
    BY <2>7, <1>1 DEF HandleTime, Handling, ScheduleAndReturn, Return, FatalIf
  <2>8. CASE HandleTempo
    BY <2>8, <1>1 DEF HandleTempo, Handling, ScheduleAndReturn, Return, FatalIf
  <2>9. CASE HandleNextBeat
    BY <2>9, <1>1 DEF HandleNextBeat, Handling, ScheduleAndReturn, Return, FatalIf
  <2>10. CASE HandleProgram
    BY <2>10, <1>1 DEF HandleProgram, Handling, Return, FatalIf
  <2>11. CASE HandleOther
    BY <2>11, <1>1 DEF HandleOther, Handling, Return, FatalIf
  <2> QED BY <1>8, <2>1, <2>2, <2>3, <2>4, <2>5, <2>6, <2>7, <2>8, <2>9, <2>10, <2>11
         DEF HandleEvent
<1>9. ASSUME NEW a \in Alarms, FireHello(a) PROVE TimersInv'
  BY <1>9, <1>1 DEF FireHello
<1>10. CASE FireTempo \/ FireTime
  BY <1>10, <1>1 DEF FireTempo, FireTime, TimersRun
<1>11. ASSUME NEW m, Receive(m) PROVE TimersInv'
  BY <1>11, <1>1 DEF Receive, FatalIf
<1>12. ASSUME NEW x \in net, ReceiveReply(x) \/ Lose(x) PROVE TimersInv'
  BY <1>12, <1>11, <1>1 DEF ReceiveReply, Lose
<1>13. ASSUME NEW m \in Unprompted, ReceiveBroadcast(m) PROVE TimersInv'
  BY <1>13, <1>11 DEF ReceiveBroadcast
<1>14. CASE PopIntercore \/ UpdateTempo
  BY <1>14, <1>1 DEF PopIntercore, UpdateTempo
<1>15. CASE UNCHANGED vars
  BY <1>15, <1>1 DEF vars
<1> QED BY <1>4, <1>5, <1>6, <1>7, <1>8, <1>9, <1>10, <1>12, <1>13, <1>14, <1>15
        DEF Next

(***************************************************************************)
(* Alarms and timers match the state in every reachable state.             *)
(***************************************************************************)
THEOREM TimersTheorem == Spec => []TimersMatchState
<1>1. Init => TimersInv
  BY DEF Init, TimersInv, States, Manager!PeriodicRequests
<1>2. TimersInv => TimersMatchState
  BY DEF TimersInv, TimersMatchState
<1> QED BY <1>1, <1>2, TimersInvStep, PTL DEF Spec

THEOREM TimersInvariant == Spec => []TimersInv
<1>1. Init => TimersInv
  BY DEF Init, TimersInv, States, Manager!PeriodicRequests
<1> QED BY <1>1, TimersInvStep, PTL DEF Spec

-------------------------------------------------------------------------------
(* Types.                                                                  *)

LEMMA EnqueueType ==
  ASSUME evq \in Seq(Events), Len(evq) <= EventQueueSize,
         NEW e \in Events, Enqueue(e)
  PROVE  evq' \in Seq(Events) /\ Len(evq') <= EventQueueSize
<1>1. CASE EventQueueFull
  BY <1>1 DEF Enqueue
<1>2. CASE ~EventQueueFull
  <2>1. evq' = Append(evq, e) /\ Len(evq) # EventQueueSize
    BY <1>2 DEF Enqueue, EventQueueFull
  <2>2. EventQueueSize \in Nat
    BY ControllerAssumption DEF ControllerAssumption
  <2> QED BY <2>1, <2>2
<1> QED BY <1>1, <1>2

LEMMA NotifyType ==
  ASSUME icq \in Seq(SUBSET Bits), Len(icq) <= IntercoreQueueSize,
         lost \subseteq Bits, NEW bits \in SUBSET Bits, Notify(bits)
  PROVE  icq' \in Seq(SUBSET Bits) /\ Len(icq') <= IntercoreQueueSize
           /\ lost' \subseteq Bits
<1>1. IntercoreQueueSize \in Nat
  BY ControllerAssumption DEF ControllerAssumption
<1> QED BY <1>1 DEF Notify

LEMMA MessageTypes ==
  /\ \A x \in Exchanges : Replies(x) \subseteq Messages
  /\ Unprompted \subseteq Messages
  /\ \A m \in Messages : ServerMessage(m) \in Events
  /\ \A s \in States : Transition(s) \in Events
<1>1. \A x \in Exchanges : Replies(x) \subseteq Messages
  BY DEF Exchanges, Replies, Messages
<1>2. Unprompted \subseteq Messages
  BY DEF Unprompted, Messages
<1>3. \A m \in Messages : ServerMessage(m) \in Events
  BY DEF ServerMessage, Events
<1>4. \A s \in States : Transition(s) \in Events
  BY DEF Transition, Events
<1> QED BY <1>1, <1>2, <1>3, <1>4

LEMMA SendTimeRequestType ==
  ASSUME lastOrig \in Nat, outstanding \in Nat \cup {NoRequest},
         net \subseteq Exchanges, SendTimeRequest
  PROVE  lastOrig' \in Nat /\ outstanding' \in Nat \cup {NoRequest}
           /\ net' \subseteq Exchanges
BY DEF SendTimeRequest, Exchanges, TimeResponses, TimeResponse

(***************************************************************************)
(* The conjuncts of TypeOK, grouped by who writes the variables.           *)
(***************************************************************************)
PowerOK == power \in {"off", "starting", "running", "halted"} /\ boots \in Nat
QueueOK == evq \in Seq(Events) /\ Len(evq) <= EventQueueSize
EventOK == event \in Events \cup {NoEvent}
NetOK == /\ net \subseteq Exchanges
         /\ outstanding \in Nat \cup {NoRequest}
         /\ lastOrig \in Nat
SamplesOK == samples \in 0 .. TimeSamples
DataOK == /\ registry \in RegistryValues
          /\ tempoSet \in BOOLEAN
          /\ lastBeatSeq \in LastSeq
          /\ lastProgramSeq \in LastSeq
IntercoreOK == /\ icq \in Seq(SUBSET Bits)
               /\ Len(icq) <= IntercoreQueueSize
               /\ lost \subseteq Bits
LedOK == core1 \in BOOLEAN /\ icMsg \subseteq Bits /\ led \in RegistryValues

TypeParts == /\ PowerOK /\ QueueOK /\ EventOK /\ NetOK /\ SamplesOK /\ DataOK
             /\ IntercoreOK /\ LedOK

LEMMA TypeOKParts == TimersInv => (TypeOK <=> TypeParts)
BY DEF TimersInv, TypeOK, TypeParts, PowerOK, QueueOK, EventOK, NetOK, SamplesOK,
       DataOK, IntercoreOK, LedOK

LEMMA ModulusFacts == SeqModulus \in Nat /\ SeqModulus > 255
BY SeqAssumption, ControllerAssumption DEF ControllerAssumption

LEMMA LastSeqFacts == SeqNumber \subseteq LastSeq /\ NoSeq \in LastSeq
BY ModulusFacts DEF SeqNumber, LastSeq, NoSeq

LEMMA FirstValuesType == registry_init \in RegistryValues /\ LedInit \in RegistryValues
BY ModulusFacts, LastSeqFacts, ControllerAssumption
DEF ControllerAssumption, registry_init, LedInit, RegistryValues, NoBeat, NoTempo,
    SeqNumber

LEMMA RegistryUpdate ==
  ASSUME NEW r \in RegistryValues
  PROVE  /\ \A b \in LastSeq : [r EXCEPT !.beat = b] \in RegistryValues
         /\ \A p \in SeqNumber : [r EXCEPT !.program = p] \in RegistryValues
BY DEF RegistryValues

LEMMA HeadAndTail ==
  ASSUME NEW S, NEW q \in Seq(S), q # << >>
  PROVE  Head(q) \in S /\ Tail(q) \in Seq(S) /\ Len(Tail(q)) = Len(q) - 1
OBVIOUS

(***************************************************************************)
(* A message of a kind has that kind's fields.                             *)
(***************************************************************************)
LEMMA MessageFields ==
  ASSUME EventOK, event.type = "server_message"
  PROVE  /\ event.msg.kind = "TEMPO_RESPONSE" => event.msg \in TempoResponses
         /\ event.msg.kind = "NEXT_BEAT" => event.msg \in NextBeats
         /\ event.msg.kind = "PROGRAM" => event.msg \in ProgramPushes
         /\ event.msg.kind = "TIME_RESPONSE" => event.msg \in TimeResponses
<1>1. event \in Events
  BY DEF EventOK, NoEvent
<1>2. event.msg \in Messages
  BY <1>1 DEF Events
<1> QED BY <1>2 DEF Messages, HelloResponse, TimeResponses, TempoResponses,
                    NextBeats, ProgramPushes, Others

(***************************************************************************)
(* Every step keeps the types; the handlers of the event loop come first.  *)
(***************************************************************************)
LEMMA HandleEventType == TypeParts /\ HandleEvent => TypeParts'
<1> SUFFICES ASSUME TypeParts, HandleEvent PROVE TypeParts'
  OBVIOUS
<1> USE DEF TypeParts, PowerOK, EventOK, SamplesOK
<1>0. ASSUME NEW err \in Nat, Return(err)
      PROVE  power' \in {power, "halted"} /\ event' = NoEvent
  BY <1>0 DEF Return, FatalIf
<1>1. ASSUME NEW s \in States, ScheduleAndReturn(s)
      PROVE  QueueOK' /\ power' \in {power, "halted"} /\ event' = NoEvent
  <2>1. Enqueue(Transition(s)) /\ Transition(s) \in Events
    BY <1>1, MessageTypes DEF ScheduleAndReturn
  <2> QED BY <1>1, <2>1, EnqueueType DEF ScheduleAndReturn, QueueOK, Return, FatalIf
<1>2. CASE RejectTransition
  BY <1>2, <1>0 DEF RejectTransition, QueueOK, NetOK, DataOK, IntercoreOK, LedOK,
     managerVars, timeVars, dataVars, icVars, ledVars
<1>3. ASSUME NEW s \in States, TransitionTo(s)
      PROVE  EventOK' /\ QueueOK' /\ SamplesOK' /\ DataOK' /\ IntercoreOK'
                /\ boots' \in Nat /\ icMsg' \subseteq Bits /\ led' \in RegistryValues
  BY <1>3 DEF TransitionTo, QueueOK, DataOK, IntercoreOK, LedOK, dataVars, icVars
<1>4. CASE EnterInitialized
  BY <1>4, <1>3 DEF EnterInitialized, NetOK, LedOK, States
<1>5. CASE EnterRegistered
  BY <1>5, <1>3, SendTimeRequestType DEF EnterRegistered, NetOK, LedOK, States
<1>6. CASE EnterTimeSynced
  BY <1>6, <1>3 DEF EnterTimeSynced, SendTempoRequest, NetOK, LedOK, States, Exchanges
<1>7. CASE EnterTempoSynced
  BY <1>7, <1>3 DEF EnterTempoSynced, NetOK, LedOK, States, FatalIf
<1>8. CASE HandleHello
  BY <1>8, <1>0, <1>1 DEF HandleHello, QueueOK, NetOK, DataOK, IntercoreOK, LedOK,
     managerVars, timeVars, dataVars, icVars, ledVars, States
<1>9. CASE HandleTime
  BY <1>9, <1>0, <1>1, ControllerAssumption
  DEF HandleTime, QueueOK, NetOK, DataOK, IntercoreOK, LedOK, ClearOutstanding,
      managerVars, dataVars, icVars, ledVars, States, ControllerAssumption
<1>10. CASE HandleTempo
  <2>1. event.msg \in TempoResponses
    BY <1>10, MessageFields DEF HandleTempo, Handling
  <2>2. registry' \in RegistryValues
    <3>1. event.msg.tempo \in Nat /\ event.msg.program \in SeqNumber
      BY <2>1, ControllerAssumption DEF TempoResponses, ControllerAssumption
    <3> QED BY <1>10, <3>1 DEF HandleTempo, DataOK, RegistryValues
  <2>3. IntercoreOK'
    BY <1>10, NotifyType DEF HandleTempo, IntercoreOK, icVars, Bits
  <2>4. QueueOK' /\ power' \in {power, "halted"} /\ event' = NoEvent
    BY <1>10, <1>0, <1>1 DEF HandleTempo, QueueOK, States
  <2> QED BY <1>10, <2>2, <2>3, <2>4
    DEF HandleTempo, NetOK, DataOK, LedOK, timeVars, ledVars
<1>11. CASE HandleNextBeat
  <2>1. event.msg.seq \in SeqNumber
    BY <1>11, MessageFields, ControllerAssumption
    DEF HandleNextBeat, Handling, NextBeats, ControllerAssumption
  <2>2. DataOK'
    BY <1>11, <2>1, LastSeqFacts, RegistryUpdate DEF HandleNextBeat, DataOK
  <2>3. IntercoreOK'
    BY <1>11, NotifyType DEF HandleNextBeat, IntercoreOK, icVars, Bits
  <2>4. QueueOK' /\ power' \in {power, "halted"} /\ event' = NoEvent
    BY <1>11, <1>0, <1>1 DEF HandleNextBeat, QueueOK, States
  <2> QED BY <1>11, <2>2, <2>3, <2>4 DEF HandleNextBeat, NetOK, LedOK, timeVars, ledVars
<1>12. CASE HandleProgram
  <2>1. event.msg.seq \in SeqNumber /\ event.msg.program \in SeqNumber
    BY <1>12, MessageFields, ControllerAssumption
    DEF HandleProgram, Handling, ProgramPushes, ControllerAssumption
  <2>2. DataOK'
    BY <1>12, <2>1, LastSeqFacts, RegistryUpdate DEF HandleProgram, DataOK
  <2>3. IntercoreOK'
    BY <1>12, NotifyType DEF HandleProgram, IntercoreOK, icVars, Bits
  <2> QED BY <1>12, <1>0, <2>2, <2>3
    DEF HandleProgram, QueueOK, NetOK, LedOK, timeVars, ledVars
<1>13. CASE HandleOther
  BY <1>13, <1>0 DEF HandleOther, QueueOK, NetOK, DataOK, IntercoreOK, LedOK,
     managerVars, timeVars, dataVars, icVars, ledVars
<1> QED BY <1>2, <1>4, <1>5, <1>6, <1>7, <1>8, <1>9, <1>10, <1>11, <1>12, <1>13
        DEF HandleEvent

LEMMA TypeStep == TypeParts /\ [Next]_vars => TypeParts'
<1> SUFFICES ASSUME TypeParts, [Next]_vars PROVE TypeParts'
  OBVIOUS
<1> USE DEF TypeParts, PowerOK, EventOK, SamplesOK
<1>1. CASE Boot
  BY <1>1 DEF Boot, QueueOK, NetOK, DataOK, IntercoreOK, LedOK,
     timeVars, dataVars, icVars, ledVars
<1>2. CASE FinishStart
  <2>1. QueueOK'
    BY <1>2, EnqueueType, MessageTypes DEF FinishStart, QueueOK, States
  <2> QED BY <1>2, <2>1 DEF FinishStart, NetOK, DataOK, IntercoreOK, LedOK,
             timeVars, dataVars, icVars, ledVars
<1>3. CASE PowerLoss
  <2>1. QueueOK' /\ IntercoreOK'
    BY <1>3, ControllerAssumption
    DEF PowerLoss, QueueOK, IntercoreOK, ControllerAssumption
  <2>2. registry_init \in RegistryValues /\ LedInit \in RegistryValues
    BY FirstValuesType
  <2>3. NetOK'
    BY <1>3 DEF PowerLoss, NetOK
  <2>4. SamplesOK'
    BY <1>3, ControllerAssumption DEF PowerLoss, ControllerAssumption
  <2>5. DataOK'
    BY <1>3, <2>2, LastSeqFacts DEF PowerLoss, DataOK
  <2>6. LedOK'
    BY <1>3, <2>2 DEF PowerLoss, LedOK
  <2> QED BY <1>3, <2>1, <2>3, <2>4, <2>5, <2>6 DEF PowerLoss
<1>4. CASE PopEvent
  <2>1. Head(evq) \in Events /\ Tail(evq) \in Seq(Events) /\ Len(Tail(evq)) = Len(evq) - 1
    BY <1>4, HeadAndTail DEF PopEvent, QueueOK
  <2>2. Len(evq) \in Nat /\ EventQueueSize \in Nat
    BY ControllerAssumption DEF QueueOK, ControllerAssumption
  <2>3. QueueOK' /\ EventOK'
    BY <1>4, <2>1, <2>2 DEF PopEvent, QueueOK
  <2> QED BY <1>4, <2>3 DEF PopEvent, NetOK, DataOK, IntercoreOK, LedOK,
             timeVars, dataVars, icVars, ledVars
<1>5. CASE HandleEvent
  BY <1>5, HandleEventType
<1>6. ASSUME NEW a \in Alarms, FireHello(a) PROVE TypeParts'
  BY <1>6 DEF FireHello, SendHelloRequest, QueueOK, NetOK, DataOK, IntercoreOK, LedOK,
     timeVars, dataVars, icVars, ledVars, Exchanges
<1>7. CASE FireTempo
  BY <1>7 DEF FireTempo, SendTempoRequest, QueueOK, NetOK, DataOK, IntercoreOK, LedOK,
     timeVars, dataVars, icVars, ledVars, Exchanges
<1>8. CASE FireTime
  BY <1>8, SendTimeRequestType DEF FireTime, QueueOK, NetOK, DataOK, IntercoreOK, LedOK,
     dataVars, icVars, ledVars
<1>9. ASSUME NEW m \in Messages, Receive(m), net' \subseteq Exchanges PROVE TypeParts'
  <2>1. QueueOK'
    BY <1>9, EnqueueType, MessageTypes DEF Receive, QueueOK
  <2> QED BY <1>9, <2>1 DEF Receive, FatalIf, NetOK, DataOK, IntercoreOK, LedOK,
             timeVars, dataVars, icVars, ledVars
<1>10. ASSUME NEW x \in net, ReceiveReply(x) PROVE TypeParts'
  <2>1. PICK m \in Replies(x) : Receive(m)
    BY <1>10 DEF ReceiveReply
  <2>2. m \in Messages
    BY <2>1, MessageTypes DEF NetOK
  <2>3. net' \subseteq Exchanges
    BY <1>10 DEF ReceiveReply, NetOK
  <2> QED BY <2>1, <2>2, <2>3, <1>9
<1>11. ASSUME NEW x \in net, Lose(x) PROVE TypeParts'
  BY <1>11 DEF Lose, QueueOK, NetOK, DataOK, IntercoreOK, LedOK,
     timeVars, dataVars, icVars, ledVars
<1>12. ASSUME NEW m \in Unprompted, ReceiveBroadcast(m) PROVE TypeParts'
  BY <1>12, <1>9, MessageTypes DEF ReceiveBroadcast, NetOK
<1>13. CASE PopIntercore
  <2>1. /\ Head(icq) \in SUBSET Bits
        /\ Tail(icq) \in Seq(SUBSET Bits)
        /\ Len(Tail(icq)) = Len(icq) - 1
    BY <1>13, HeadAndTail DEF PopIntercore, IntercoreOK
  <2>2. Len(icq) \in Nat /\ IntercoreQueueSize \in Nat
    BY ControllerAssumption DEF IntercoreOK, ControllerAssumption
  <2>3. IntercoreOK' /\ icMsg' \subseteq Bits
    BY <1>13, <2>1, <2>2 DEF PopIntercore, IntercoreOK
  <2> QED BY <1>13, <2>3 DEF PopIntercore, QueueOK, NetOK, DataOK, LedOK,
             timeVars, dataVars
<1>14. CASE UpdateTempo
  <2>1. led' \in RegistryValues
    <3>1. registry.program \in Int
      BY ModulusFacts DEF DataOK, RegistryValues, SeqNumber
    <3>2. registry.program % 256 \in 0 .. 255
      BY <3>1
    <3>3. registry.program % 256 \in SeqNumber
      BY <3>2, ModulusFacts DEF SeqNumber
    <3> QED BY <1>14, <3>3 DEF UpdateTempo, DataOK, LedOK, RegistryValues
  <2> QED BY <1>14, <2>1 DEF UpdateTempo, QueueOK, NetOK, DataOK, IntercoreOK, LedOK,
             timeVars, dataVars, icVars
<1>15. CASE UNCHANGED vars
  BY <1>15 DEF vars, QueueOK, NetOK, DataOK, IntercoreOK, LedOK,
     timeVars, dataVars, icVars, ledVars
<1> QED BY <1>1, <1>2, <1>3, <1>4, <1>5, <1>6, <1>7, <1>8, <1>10, <1>11, <1>12,
           <1>13, <1>14, <1>15 DEF Next

(***************************************************************************)
(* The parts of TypeOK that TimersInv does not imply are invariant.        *)
(***************************************************************************)
THEOREM TypesInvariant == Spec => []TypeParts
<1>1. Init => TypeParts
  <2> SUFFICES ASSUME Init PROVE TypeParts
    OBVIOUS
  <2>1. PowerOK /\ EventOK /\ NetOK
    BY DEF Init, PowerOK, EventOK, NetOK
  <2>2. QueueOK /\ IntercoreOK /\ SamplesOK
    BY ControllerAssumption
    DEF Init, QueueOK, IntercoreOK, SamplesOK, ControllerAssumption
  <2>3. DataOK /\ LedOK
    BY LastSeqFacts, FirstValuesType DEF Init, DataOK, LedOK
  <2> QED BY <2>1, <2>2, <2>3 DEF TypeParts
<1> QED BY <1>1, TypeStep, PTL DEF Spec

(***************************************************************************)
(* Every reachable state is type correct.                                  *)
(***************************************************************************)
THEOREM TypeCorrect == Spec => []TypeOK
<1>1. TimersInv /\ TypeParts => TypeOK
  BY TypeOKParts
<1> QED BY <1>1, TypesInvariant, TimersInvariant, PTL

-------------------------------------------------------------------------------
(* Events under way: in the queue, or taken out and being handled.         *)

Queued(e)  == \E i \in DOMAIN evq : evq[i] = e
Pending(e) == event = e \/ Queued(e)
AtMostOnce(e) ==
  /\ \A i, j \in DOMAIN evq : evq[i] = e /\ evq[j] = e => i = j
  /\ event = e => ~Queued(e)

(***************************************************************************)
(* event_queue_add_message_at brings in the event it is given, or nothing. *)
(***************************************************************************)
LEMMA EnqueuePending ==
  ASSUME QueueOK, NEW e \in Events, Enqueue(e), event' \in {event, NoEvent}
  PROVE  /\ \A f \in Events : Pending(f)' => Pending(f) \/ f = e
         /\ \A f \in Events : AtMostOnce(f) /\ (f = e => ~Pending(f)) => AtMostOnce(f)'
<1> USE DEF Pending, Queued, AtMostOnce
<1>a. \A f \in Events : f # NoEvent
  BY DEF Events, NoEvent
<1>1. CASE evq' = evq
  BY <1>1, <1>a
<1>2. CASE evq' = Append(evq, e)
  <2>1. /\ DOMAIN evq = 1 .. Len(evq) /\ Len(evq) \in Nat
        /\ DOMAIN evq' = 1 .. Len(evq) + 1
        /\ \A i \in 1 .. Len(evq) : evq'[i] = evq[i]
        /\ evq'[Len(evq) + 1] = e
    BY <1>2 DEF QueueOK
  <2>2. ASSUME NEW f \in Events, Pending(f)' PROVE Pending(f) \/ f = e
    BY <2>1, <2>2, <1>a
  <2>3. ASSUME NEW f \in Events, AtMostOnce(f), f = e => ~Pending(f)
        PROVE  AtMostOnce(f)'
    <3>1. ASSUME NEW i \in DOMAIN evq', NEW j \in DOMAIN evq', evq'[i] = f, evq'[j] = f
          PROVE  i = j
      BY <2>1, <2>3, <3>1
    <3>2. ASSUME event' = f PROVE ~Queued(f)'
      BY <2>1, <2>3, <3>2, <1>a
    <3> QED BY <3>1, <3>2
  <2> QED BY <2>2, <2>3
<1> QED BY <1>1, <1>2 DEF Enqueue

(***************************************************************************)
(* Taking an event out of the queue changes nothing of what is under way.  *)
(***************************************************************************)
LEMMA PopPending ==
  ASSUME QueueOK, PopEvent
  PROVE  /\ \A f \in Events : Pending(f)' => Pending(f)
         /\ \A f \in Events : AtMostOnce(f) => AtMostOnce(f)'
<1> USE DEF Pending, Queued, AtMostOnce
<1>1. evq # << >> /\ evq' = Tail(evq) /\ event' = Head(evq) /\ event = NoEvent
  BY DEF PopEvent
<1>2. /\ DOMAIN evq = 1 .. Len(evq) /\ Len(evq) \in Nat \ {0}
      /\ DOMAIN evq' = 1 .. Len(evq) - 1
      /\ \A i \in 1 .. Len(evq) - 1 : evq'[i] = evq[i + 1]
      /\ event' = evq[1]
  BY <1>1 DEF QueueOK
<1>3. ASSUME NEW f \in Events, Pending(f)' PROVE Pending(f)
  BY <1>2, <1>3
<1>4. ASSUME NEW f \in Events, AtMostOnce(f) PROVE AtMostOnce(f)'
  <2>1. ASSUME NEW i \in DOMAIN evq', NEW j \in DOMAIN evq', evq'[i] = f, evq'[j] = f
        PROVE  i = j
    BY <1>2, <1>4, <2>1
  <2>2. ASSUME event' = f, NEW i \in DOMAIN evq', evq'[i] = f PROVE FALSE
    <3>1. i + 1 \in DOMAIN evq /\ 1 \in DOMAIN evq /\ evq[i + 1] = f /\ evq[1] = f
      BY <1>2, <2>2
    <3>2. i + 1 # 1
      BY <1>2, <2>2
    <3> QED BY <1>4, <3>1, <3>2
  <2> QED BY <2>1, <2>2
<1> QED BY <1>3, <1>4

(***************************************************************************)
(* Finishing with an event removes it, and it alone.                       *)
(***************************************************************************)
LEMMA DonePending ==
  ASSUME evq' = evq, event' = NoEvent
  PROVE  /\ \A f \in Events : Pending(f)' => Pending(f)
         /\ \A f \in Events : AtMostOnce(f) => AtMostOnce(f)'
         /\ \A f \in Events : AtMostOnce(f) /\ event = f => ~Pending(f)'
<1>1. \A f \in Events : f # NoEvent
  BY DEF Events, NoEvent
<1> QED BY <1>1 DEF Pending, Queued, AtMostOnce

LEMMA SamePending ==
  ASSUME evq' = evq, event' = event
  PROVE  /\ \A f \in Events : Pending(f)' <=> Pending(f)
         /\ \A f \in Events : AtMostOnce(f)' <=> AtMostOnce(f)
BY DEF Pending, Queued, AtMostOnce

LEMMA TransitionEvents ==
  /\ \A s \in States : Transition(s) \in Events /\ Transition(s) # NoEvent
  /\ \A s, t \in States : Transition(s) = Transition(t) => s = t
  /\ \A s \in States : \A m : Transition(s) # ServerMessage(m)
  /\ EventOK /\ event.type = "state_transition"
       => event.next \in States /\ event = Transition(event.next)
<1>1. \A s \in States : Transition(s) \in Events /\ Transition(s) # NoEvent
  BY DEF Transition, Events, NoEvent
<1>2. \A s, t \in States : Transition(s) = Transition(t) => s = t
  BY DEF Transition
<1>3. \A s \in States : \A m : Transition(s) # ServerMessage(m)
  BY DEF Transition, ServerMessage
<1>4. ASSUME EventOK, event.type = "state_transition"
      PROVE  event.next \in States /\ event = Transition(event.next)
  BY <1>4 DEF EventOK, Events, NoEvent, Transition
<1> QED BY <1>1, <1>2, <1>3, <1>4

-------------------------------------------------------------------------------
(***************************************************************************)
(* What is true of every transition under way.  INITIALIZED and TIME_      *)
(* SYNCED are scheduled once per power-up, the latter because answering    *)
(* the outstanding time request clears it and nothing sends another before *)
(* TEMPO_SYNCED; TEMPO_SYNCED may be scheduled often but only where it is  *)
(* legal for good.  The last conjuncts say when samples have been taken.   *)
(***************************************************************************)
OnlyScheduled ==
  \A s \in States : Pending(Transition(s)) => s \in {2, 3, 4, 5}

InitializedOnce ==
  /\ AtMostOnce(Transition(2))
  /\ Pending(Transition(2)) => state = 1 /\ power # "starting"

TimeSyncedOnce ==
  /\ AtMostOnce(Transition(4))
  /\ Pending(Transition(4)) => state = 3 /\ outstanding = NoRequest /\ samples > 0

TempoSyncedInPlace ==
  Pending(Transition(5)) => state \in {4, 5}

RequestsAfterRegistration ==
  outstanding # NoRequest => state \in {3, 4, 5}

SamplesBeforeBeats ==
  state \in {4, 5} \/ registry.beat # NoBeat \/ tempoSet => samples > 0

EmptyWhenOff ==
  power = "off" => state = 0 /\ outstanding = NoRequest /\ evq = << >> /\ event = NoEvent

OrderInv ==
  /\ OnlyScheduled /\ InitializedOnce /\ TimeSyncedOnce /\ TempoSyncedInPlace
  /\ RequestsAfterRegistration /\ SamplesBeforeBeats /\ EmptyWhenOff

\* No event comes in, and none is doubled.
NothingNew == /\ \A f \in Events : Pending(f)' => Pending(f)
              /\ \A f \in Events : AtMostOnce(f) => AtMostOnce(f)'

\* At most e comes in, and is not doubled if it was not there.
OnlyNew(e) ==
  /\ \A f \in Events : Pending(f)' => Pending(f) \/ f = e
  /\ \A f \in Events : AtMostOnce(f) /\ (f = e => ~Pending(f)) => AtMostOnce(f)'

(***************************************************************************)
(* A step that changes no state, request, sample count, beat or tempo and  *)
(* schedules nothing keeps OrderInv.                                       *)
(***************************************************************************)
LEMMA QuietStep ==
  ASSUME OrderInv, NothingNew,
         UNCHANGED <<state, outstanding, samples, registry.beat, tempoSet>>,
         power' \in {power, "running", "halted"},
         power' # "off" \/ UNCHANGED <<evq, event>>
  PROVE  OrderInv'
<1> USE DEF NothingNew
<1>1. OnlyScheduled' /\ InitializedOnce' /\ TimeSyncedOnce' /\ TempoSyncedInPlace'
  BY TransitionEvents DEF OrderInv, OnlyScheduled, InitializedOnce, TimeSyncedOnce,
     TempoSyncedInPlace, States
<1>2. RequestsAfterRegistration' /\ SamplesBeforeBeats' /\ EmptyWhenOff'
  BY DEF OrderInv, RequestsAfterRegistration, SamplesBeforeBeats, EmptyWhenOff
<1> QED BY <1>1, <1>2 DEF OrderInv

(***************************************************************************)
(* A received message is not a transition.                                 *)
(***************************************************************************)
LEMMA ReceiveStep ==
  ASSUME TypeParts, OrderInv, NEW m \in Messages, Receive(m)
  PROVE  OrderInv'
<1>1. OnlyNew(ServerMessage(m))
  BY EnqueuePending, MessageTypes DEF TypeParts, Receive, OnlyNew
<1>2. \A s \in States : /\ Pending(Transition(s))' => Pending(Transition(s))
                        /\ AtMostOnce(Transition(s)) => AtMostOnce(Transition(s))'
  BY <1>1, TransitionEvents DEF OnlyNew
<1>3. /\ UNCHANGED <<state, outstanding, samples, registry, tempoSet>>
      /\ power' \in {power, "halted"} /\ power \in {"starting", "running"}
  BY DEF Receive, FatalIf, managerVars, timeVars, dataVars
<1>4. OnlyScheduled' /\ InitializedOnce' /\ TimeSyncedOnce' /\ TempoSyncedInPlace'
  BY <1>2, <1>3 DEF OrderInv, OnlyScheduled, InitializedOnce, TimeSyncedOnce,
     TempoSyncedInPlace, States
<1>5. RequestsAfterRegistration' /\ SamplesBeforeBeats' /\ EmptyWhenOff'
  BY <1>3 DEF OrderInv, RequestsAfterRegistration, SamplesBeforeBeats, EmptyWhenOff
<1> QED BY <1>4, <1>5 DEF OrderInv

(***************************************************************************)
(* A handler that schedules a transition ends with it queued, or with      *)
(* nothing new.                                                            *)
(***************************************************************************)
LEMMA SchedulePending ==
  ASSUME TypeParts, NEW s \in States, ScheduleAndReturn(s)
  PROVE  OnlyNew(Transition(s)) /\ power' \in {power, "halted"}
BY EnqueuePending, MessageTypes
DEF ScheduleAndReturn, Return, FatalIf, TypeParts, OnlyNew

LEMMA ReturnPending ==
  ASSUME NEW err \in Nat, Return(err), UNCHANGED evq
  PROVE  NothingNew /\ power' \in {power, "halted"}
BY DonePending DEF Return, FatalIf, NothingNew

(***************************************************************************)
(* The entry handlers.                                                     *)
(***************************************************************************)
LEMMA TransitionStep ==
  ASSUME TypeParts, TimersInv, OrderInv,
         EnterInitialized \/ EnterRegistered \/ EnterTimeSynced \/ EnterTempoSynced
  PROVE  OrderInv'
<1>1. ASSUME NEW s \in States, TransitionTo(s)
      PROVE  /\ NothingNew
             /\ Pending(Transition(s))
             /\ AtMostOnce(Transition(s)) => ~Pending(Transition(s))'
             /\ UNCHANGED <<samples, registry, tempoSet>>
             /\ state' = s /\ s \in transition_matrix[state] /\ power = "running"
  <2>1. event = Transition(s)
    BY <1>1, TransitionEvents DEF TransitionTo, TransitionPending, TypeParts
  <2> QED BY <1>1, <2>1, DonePending, TransitionEvents
          DEF TransitionTo, TransitionPending, NothingNew, Pending, dataVars
<1>2. \A s \in States : transition_matrix[s] =
         IF s = 5 THEN {4, 5} ELSE {s + 1}
  BY DEF transition_matrix, States
<1>3. state \in 0 .. 5
  BY DEF TimersInv, States
<1>4. CASE EnterInitialized
  <2>1. state = 1 /\ state' = 2 /\ ~Pending(Transition(2))' /\ NothingNew
        /\ UNCHANGED <<samples, registry, tempoSet, outstanding>> /\ power' = "running"
    BY <1>1, <1>2, <1>3, <1>4
    DEF EnterInitialized, OrderInv, InitializedOnce, States
  <2> QED BY <2>1, TransitionEvents
    DEF NothingNew, OrderInv, OnlyScheduled, InitializedOnce, TimeSyncedOnce,
        TempoSyncedInPlace, RequestsAfterRegistration, SamplesBeforeBeats, EmptyWhenOff,
        States
<1>5. CASE EnterRegistered
  <2>1. state = 2 /\ state' = 3 /\ NothingNew
        /\ UNCHANGED <<samples, registry, tempoSet>> /\ power' \in {"running", "halted"}
    BY <1>1, <1>2, <1>3, <1>5 DEF EnterRegistered, States
  <2> QED BY <2>1, TransitionEvents
    DEF NothingNew, OrderInv, OnlyScheduled, InitializedOnce, TimeSyncedOnce,
        TempoSyncedInPlace, RequestsAfterRegistration, SamplesBeforeBeats, EmptyWhenOff,
        States
<1>6. CASE EnterTimeSynced
  <2>1. state = 3 /\ state' = 4 /\ ~Pending(Transition(4))' /\ NothingNew /\ samples > 0
        /\ UNCHANGED <<samples, registry, tempoSet, outstanding>> /\ power' = "running"
    BY <1>1, <1>6 DEF EnterTimeSynced, OrderInv, TimeSyncedOnce, States
  <2> QED BY <2>1, TransitionEvents
    DEF NothingNew, OrderInv, OnlyScheduled, InitializedOnce, TimeSyncedOnce,
        TempoSyncedInPlace, RequestsAfterRegistration, SamplesBeforeBeats, EmptyWhenOff,
        States
<1>7. CASE EnterTempoSynced
  <2>1. state \in {4, 5} /\ state' = 5 /\ NothingNew
        /\ UNCHANGED <<samples, registry, tempoSet, outstanding>> /\ power' \in {"running", "halted"}
    BY <1>1, <1>2, <1>3, <1>7
    DEF EnterTempoSynced, OrderInv, TempoSyncedInPlace, States, FatalIf
  <2> QED BY <2>1, TransitionEvents
    DEF NothingNew, OrderInv, OnlyScheduled, InitializedOnce, TimeSyncedOnce,
        TempoSyncedInPlace, RequestsAfterRegistration, SamplesBeforeBeats, EmptyWhenOff,
        States
<1> QED BY <1>4, <1>5, <1>6, <1>7

(***************************************************************************)
(* The handlers of server messages.  HandleTime is the one that matters:   *)
(* the request it answers is no longer outstanding when TIME_SYNCED is     *)
(* scheduled.                                                              *)
(***************************************************************************)
LEMMA HandlerStep ==
  ASSUME TypeParts, TimersInv, OrderInv,
         HandleHello \/ HandleTime \/ HandleTempo \/ HandleNextBeat
           \/ HandleProgram \/ HandleOther
  PROVE  OrderInv'
<1>1. ASSUME NEW s \in States, ScheduleAndReturn(s), power = "running"
      PROVE  /\ \A t \in States \ {s} :
                  /\ Pending(Transition(t))' => Pending(Transition(t))
                  /\ AtMostOnce(Transition(t)) => AtMostOnce(Transition(t))'
             /\ AtMostOnce(Transition(s)) /\ ~Pending(Transition(s))
                  => AtMostOnce(Transition(s))'
             /\ power' \in {"running", "halted"}
  BY <1>1, SchedulePending, TransitionEvents DEF OnlyNew
<1>2. CASE HandleHello
  <2>1. power = "running" /\ UNCHANGED <<state, outstanding, samples, registry, tempoSet>>
    BY <1>2 DEF HandleHello, Handling, managerVars, timeVars, dataVars
  <2>2. CASE Registered
    BY <1>2, <2>1, <2>2, ReturnPending, QuietStep DEF HandleHello
  <2>3. CASE ~Registered
    <3>1. ScheduleAndReturn(3)
      BY <1>2, <2>3 DEF HandleHello
    <3> QED BY <1>1, <2>1, <3>1
      DEF OrderInv, OnlyScheduled, InitializedOnce, TimeSyncedOnce, TempoSyncedInPlace,
          RequestsAfterRegistration, SamplesBeforeBeats, EmptyWhenOff, States
  <2> QED BY <2>2, <2>3
<1>3. CASE HandleTime
  <2>1. power = "running" /\ UNCHANGED <<state, registry, tempoSet>>
    BY <1>3 DEF HandleTime, Handling, managerVars, dataVars
  <2>2. CASE event.msg.orig # outstanding
    BY <1>3, <2>1, <2>2, ReturnPending, QuietStep DEF HandleTime
  <2>3. CASE event.msg.orig = outstanding
    <3>1. outstanding # NoRequest
      BY <1>3, <2>3, MessageFields DEF TypeParts, HandleTime, Handling, NoRequest, TimeResponses
    <3>2. state \in {3, 4, 5} /\ ~Pending(Transition(4))
      BY <3>1 DEF OrderInv, RequestsAfterRegistration, TimeSyncedOnce
    <3>3. outstanding' = NoRequest /\ samples' > 0
      BY <1>3, <2>3, ControllerAssumption
      DEF HandleTime, ClearOutstanding, TypeParts, SamplesOK, ControllerAssumption
    <3>4. CASE NeedsTime
      <4>1. state = 3 /\ ScheduleAndReturn(4)
        BY <1>3, <2>3, <3>2, <3>4 DEF HandleTime, NeedsTime
      <4> QED BY <1>1, <2>1, <3>2, <3>3, <4>1
        DEF OrderInv, OnlyScheduled, InitializedOnce, TimeSyncedOnce, TempoSyncedInPlace,
            RequestsAfterRegistration, SamplesBeforeBeats, EmptyWhenOff, States
    <3>5. CASE ~NeedsTime
      <4>1. NothingNew /\ power' \in {"running", "halted"}
        BY <1>3, <2>1, <2>3, <3>5, ReturnPending DEF HandleTime
      <4> QED BY <2>1, <3>2, <3>3, <4>1, TransitionEvents
        DEF NothingNew, OrderInv, OnlyScheduled, InitializedOnce, TimeSyncedOnce,
            TempoSyncedInPlace, RequestsAfterRegistration, SamplesBeforeBeats,
            EmptyWhenOff, States
    <3> QED BY <3>4, <3>5
  <2> QED BY <2>2, <2>3
<1>4. ASSUME Synced, ScheduleAndReturn(5), power = "running",
             UNCHANGED <<state, outstanding, samples>>
      PROVE  OrderInv'
  BY <1>1, <1>4
  DEF Synced, OrderInv, OnlyScheduled, InitializedOnce, TimeSyncedOnce,
      TempoSyncedInPlace, RequestsAfterRegistration, SamplesBeforeBeats, EmptyWhenOff,
      States
<1>5. ASSUME Synced, NothingNew, power = "running", power' \in {"running", "halted"},
             UNCHANGED <<state, outstanding, samples>>
      PROVE  OrderInv'
  BY <1>5, TransitionEvents
  DEF Synced, NothingNew, OrderInv, OnlyScheduled, InitializedOnce, TimeSyncedOnce,
      TempoSyncedInPlace, RequestsAfterRegistration, SamplesBeforeBeats, EmptyWhenOff,
      States
<1>6. CASE HandleTempo
  <2>1. power = "running" /\ UNCHANGED <<state, outstanding, samples>>
    BY <1>6 DEF HandleTempo, Handling, managerVars, timeVars
  <2>2. CASE Synced
    BY <1>4, <1>5, <1>6, <2>1, <2>2, ReturnPending DEF HandleTempo
  <2>3. CASE ~Synced
    BY <1>6, <2>1, <2>3, ReturnPending, QuietStep DEF HandleTempo
  <2> QED BY <2>2, <2>3
<1>7. CASE HandleNextBeat
  <2>1. power = "running" /\ UNCHANGED <<state, outstanding, samples>>
    BY <1>7 DEF HandleNextBeat, Handling, managerVars, timeVars
  <2>2. CASE Synced /\ NextBeatFresh(event.msg.seq, lastBeatSeq)
    BY <1>4, <1>5, <1>7, <2>1, <2>2, ReturnPending DEF HandleNextBeat
  <2>3. CASE ~(Synced /\ NextBeatFresh(event.msg.seq, lastBeatSeq))
    BY <1>7, <2>1, <2>3, ReturnPending, QuietStep DEF HandleNextBeat
  <2> QED BY <2>2, <2>3
<1>8. CASE HandleProgram
  <2>1. power = "running" /\ UNCHANGED <<state, outstanding, samples, evq>> /\ Return(0)
    BY <1>8 DEF HandleProgram, Handling, managerVars, timeVars
  <2>2. registry'.beat = registry.beat /\ tempoSet' = tempoSet
    BY <1>8 DEF HandleProgram, TypeParts, DataOK, RegistryValues
  <2> QED BY <2>1, <2>2, ReturnPending, QuietStep
<1>9. CASE HandleOther
  <2>1. power = "running" /\ UNCHANGED <<state, outstanding, samples, registry, tempoSet, evq>>
    BY <1>9 DEF HandleOther, Handling, managerVars, timeVars, dataVars
  <2>2. \E err \in Nat : Return(err)
    BY <1>9 DEF HandleOther
  <2> QED BY <2>1, <2>2, ReturnPending, QuietStep
<1> QED BY <1>2, <1>3, <1>6, <1>7, <1>8, <1>9

(***************************************************************************)
(* Every step keeps OrderInv.                                              *)
(***************************************************************************)
LEMMA OrderInvStep ==
  TypeParts /\ TimersInv /\ OrderInv /\ [Next]_vars => OrderInv'
<1> SUFFICES ASSUME TypeParts, TimersInv, OrderInv, [Next]_vars PROVE OrderInv'
  OBVIOUS
<1>1. CASE Boot
  <2>1. /\ state' = 1 /\ power' = "starting" /\ state = 0
        /\ UNCHANGED <<evq, event, outstanding, samples, registry, tempoSet>>
        /\ evq = << >> /\ event = NoEvent /\ outstanding = NoRequest
    BY <1>1 DEF Boot, OrderInv, EmptyWhenOff, timeVars, dataVars
  <2>2. \A s \in States : ~Pending(Transition(s)) /\ ~Pending(Transition(s))'
    BY <2>1, TransitionEvents DEF Pending, Queued
  <2>3. \A s \in States : AtMostOnce(Transition(s))'
    BY <2>1, TransitionEvents DEF AtMostOnce, Queued
  <2> QED BY <2>1, <2>2, <2>3
    DEF OrderInv, OnlyScheduled, InitializedOnce, TimeSyncedOnce, TempoSyncedInPlace,
        RequestsAfterRegistration, SamplesBeforeBeats, EmptyWhenOff, States
<1>2. CASE FinishStart
  <2>1. /\ state = 1 /\ state' = 1 /\ power' \in {"running", "halted"}
        /\ power = "starting" /\ UNCHANGED <<event, outstanding, samples, registry, tempoSet>>
    BY <1>2 DEF FinishStart, TimersInv, timeVars, dataVars
  <2>2. OnlyNew(Transition(2))
    BY <1>2, <2>1, EnqueuePending, TransitionEvents
    DEF FinishStart, TypeParts, OnlyNew, States
  <2>3. \A s \in States \ {2} :
          /\ Pending(Transition(s))' => Pending(Transition(s))
          /\ AtMostOnce(Transition(s)) => AtMostOnce(Transition(s))'
    BY <2>2, TransitionEvents DEF OnlyNew, States
  <2>4. AtMostOnce(Transition(2))'
    BY <2>1, <2>2, TransitionEvents DEF OnlyNew, OrderInv, InitializedOnce, States
  <2> QED BY <2>1, <2>3, <2>4
    DEF OrderInv, OnlyScheduled, InitializedOnce, TimeSyncedOnce, TempoSyncedInPlace,
        RequestsAfterRegistration, SamplesBeforeBeats, EmptyWhenOff, States
<1>3. CASE PowerLoss
  <2>1. /\ state' = 0 /\ power' = "off" /\ evq' = << >> /\ event' = NoEvent
        /\ outstanding' = NoRequest
        /\ registry'.beat = NoBeat /\ tempoSet' = FALSE
    BY <1>3 DEF PowerLoss, registry_init
  <2>2. \A s \in States : ~Pending(Transition(s))' /\ AtMostOnce(Transition(s))'
    BY <2>1, TransitionEvents DEF Pending, Queued, AtMostOnce
  <2> QED BY <2>1, <2>2
    DEF OrderInv, OnlyScheduled, InitializedOnce, TimeSyncedOnce, TempoSyncedInPlace,
        RequestsAfterRegistration, SamplesBeforeBeats, EmptyWhenOff, States
<1>4. CASE PopEvent
  <2>1. NothingNew
    BY <1>4, PopPending DEF TypeParts, NothingNew
  <2> QED BY <1>4, <2>1, QuietStep DEF PopEvent, managerVars, timeVars, dataVars
<1>5. CASE RejectTransition
  <2>1. NothingNew /\ power = "running" /\ power' \in {"running", "halted"}
    BY <1>5, ReturnPending DEF RejectTransition, TransitionPending
  <2> QED BY <1>5, <2>1, QuietStep DEF RejectTransition, managerVars, timeVars, dataVars
<1>6. CASE HandleEvent /\ ~RejectTransition
  BY <1>6, TransitionStep, HandlerStep DEF HandleEvent
<1>7. ASSUME UNCHANGED <<evq, event, power, state, samples, registry, tempoSet, outstanding>>
      PROVE  OrderInv'
  BY <1>7, SamePending, QuietStep DEF NothingNew
<1>8. ASSUME NEW a \in Alarms, FireHello(a) PROVE OrderInv'
  BY <1>8, <1>7 DEF FireHello, managerVars, timeVars, dataVars
<1>9. CASE FireTempo
  BY <1>9, <1>7 DEF FireTempo, managerVars, timeVars, dataVars
<1>10. CASE FireTime
  <2>1. state = 5
    <3>1. timers["time"] > 0 /\ "time" \in Alarms
      BY <1>10 DEF FireTime, TimersRun, Alarms, SyncedAlarms
    <3>2. "time" \in alarm
      BY <3>1 DEF TimersInv
    <3> QED BY <3>2 DEF TimersInv, Manager!PeriodicRequests, States
  <2>2. UNCHANGED <<evq, event, power, state, samples, registry, tempoSet>> /\ power = "running"
    BY <1>10 DEF FireTime, TimersRun, managerVars, dataVars
  <2>3. NothingNew
    BY <2>2, SamePending DEF NothingNew
  <2> QED BY <2>1, <2>2, <2>3, TransitionEvents
    DEF NothingNew, OrderInv, OnlyScheduled, InitializedOnce, TimeSyncedOnce,
        TempoSyncedInPlace, RequestsAfterRegistration, SamplesBeforeBeats, EmptyWhenOff,
        States
<1>11. ASSUME NEW x \in net, ReceiveReply(x) PROVE OrderInv'
  <2>1. PICK m \in Replies(x) : Receive(m)
    BY <1>11 DEF ReceiveReply
  <2>2. m \in Messages
    BY <2>1, MessageTypes DEF TypeParts, NetOK
  <2> QED BY <2>1, <2>2, ReceiveStep
<1>12. ASSUME NEW m \in Unprompted, ReceiveBroadcast(m) PROVE OrderInv'
  BY <1>12, ReceiveStep, MessageTypes DEF ReceiveBroadcast
<1>13. ASSUME NEW x \in net, Lose(x) PROVE OrderInv'
  BY <1>13, <1>7 DEF Lose, managerVars, timeVars, dataVars
<1>14. CASE PopIntercore \/ UpdateTempo
  BY <1>14, <1>7 DEF PopIntercore, UpdateTempo, managerVars, timeVars, dataVars
<1>15. CASE UNCHANGED vars
  BY <1>15, <1>7 DEF vars, managerVars, timeVars, dataVars
<1> QED BY <1>1, <1>2, <1>3, <1>4, <1>5, <1>6, <1>8, <1>9, <1>10, <1>11, <1>12,
           <1>13, <1>14, <1>15 DEF Next

THEOREM OrderInvariant == Spec => [](OrderInv /\ TypeParts /\ TimersInv)
<1>1. Init => OrderInv
  <2> SUFFICES ASSUME Init PROVE OrderInv
    OBVIOUS
  <2>1. \A s \in States : ~Pending(Transition(s)) /\ AtMostOnce(Transition(s))
    BY TransitionEvents DEF Init, Pending, Queued, AtMostOnce
  <2> QED BY <2>1
    DEF Init, registry_init, OrderInv, OnlyScheduled, InitializedOnce, TimeSyncedOnce,
        TempoSyncedInPlace, RequestsAfterRegistration, SamplesBeforeBeats, EmptyWhenOff,
        States
<1> QED BY <1>1, OrderInvStep, TypesInvariant, TimersInvariant, PTL DEF Spec

(***************************************************************************)
(* A transition taken out of the queue is legal, REGISTERED excepted, for  *)
(* every capacity of the queue and every order of messages.                *)
(***************************************************************************)
THEOREM TransitionsStayLegal == Spec => []TransitionsLegal
<1>1. OrderInv /\ TypeParts /\ TimersInv => TransitionsLegal
  <2> SUFFICES ASSUME OrderInv, TypeParts, TimersInv, TransitionPending, event.next # 3
               PROVE  event.next \in transition_matrix[state]
    BY DEF TransitionsLegal
  <2>1. event.next \in States /\ Pending(Transition(event.next))
    BY TransitionEvents DEF TransitionPending, TypeParts, Pending
  <2>2. \A s \in States : transition_matrix[s] = IF s = 5 THEN {4, 5} ELSE {s + 1}
    BY DEF transition_matrix, States
  <2> QED BY <2>1, <2>2 DEF OrderInv, OnlyScheduled, InitializedOnce, TimeSyncedOnce,
             TempoSyncedInPlace, TimersInv, States
<1> QED BY <1>1, OrderInvariant, PTL

(***************************************************************************)
(* The clock offset is measured before a beat or tempo is applied.         *)
(***************************************************************************)
THEOREM ClockComesFirst == Spec => []ClockBeforeBeats
<1>1. OrderInv /\ TypeParts /\ TimersInv => ClockBeforeBeats
  BY DEF OrderInv, SamplesBeforeBeats, ClockBeforeBeats, TimersInv, States
<1> QED BY <1>1, OrderInvariant, PTL

(***************************************************************************)
(* The requests that repeat are those whose alarm handle is set.           *)
(***************************************************************************)
LEMMA PeriodicIsAlarm ==
  ASSUME NEW handles \in SUBSET Alarms,
         NEW live, live = [a \in Alarms |-> IF a \in handles THEN 1 ELSE 0]
  PROVE  {a \in Alarms : live[a] > 0} = handles
<1>1. \A a \in Alarms : live[a] > 0 <=> a \in handles
  <2> TAKE a \in Alarms
  <2>1. live[a] = IF a \in handles THEN 1 ELSE 0
    OBVIOUS
  <2> QED BY <2>1
<1> QED BY <1>1

(***************************************************************************)
(* A transition the manager accepts is a step of Lifecycle: up by one, or  *)
(* TEMPO_SYNCED again.  TEMPO_SYNCED -> TIME_SYNCED, which the matrix      *)
(* allows, needs a TIME_SYNCED under way outside REGISTERED.               *)
(***************************************************************************)
LEMMA AcceptedTransition ==
  ASSUME TypeParts, TimersInv, OrderInv, NEW s \in States, TransitionTo(s)
  PROVE  state' = s /\ (s = state + 1 \/ (state = 5 /\ s = 5))
<1>1. Pending(Transition(s)) /\ state' = s /\ s \in transition_matrix[state]
  BY TransitionEvents DEF TransitionTo, TransitionPending, TypeParts, Pending
<1>2. \A t \in States : transition_matrix[t] = IF t = 5 THEN {4, 5} ELSE {t + 1}
  BY DEF transition_matrix, States
<1>3. s = 4 => state = 3
  BY <1>1 DEF OrderInv, TimeSyncedOnce
<1>4. state \in States
  BY DEF TimersInv
<1>5. CASE state = 5
  <2>1. s \in {4, 5}
    BY <1>1, <1>2, <1>4, <1>5
  <2>2. s # 4
    BY <1>3, <1>5
  <2> QED BY <1>1, <1>5, <2>1, <2>2
<1>6. CASE state # 5
  <2>1. s = state + 1
    BY <1>1, <1>2, <1>4, <1>6
  <2>2. state' = s
    BY <1>1
  <2> QED BY <2>1, <2>2
<1> QED BY <1>5, <1>6

(***************************************************************************)
(* The state manager implements Lifecycle: initial states map to initial   *)
(* states, and every step maps to a step or a stutter.                     *)
(***************************************************************************)
THEOREM LifecycleImplemented == Spec => ImplementsLifecycle
<1>1. Init => Manager!Init
  BY DEF Init, Manager!Init
<1>2. ASSUME OrderInv, TypeParts, TimersInv, TimersInv', [Next]_vars
      PROVE  [Manager!Next]_<<state, {a \in Alarms : timers[a] > 0}>>
  <2> DEFINE periodic == {a \in Alarms : timers[a] > 0}
  <2>1. periodic = alarm
    BY <1>2, PeriodicIsAlarm DEF TimersInv
  <2>2. periodic' = alarm'
    BY <1>2, PeriodicIsAlarm DEF TimersInv
  <2>3. state \in States /\ state' \in States
    BY <1>2 DEF TimersInv
  <2>4. ASSUME NEW s \in States, TransitionTo(s)
        PROVE  Manager!Next
    <3>1. state' = s /\ (s = state + 1 \/ (state = 5 /\ s = 5))
      BY <1>2, <2>4, AcceptedTransition
    <3>2. periodic' \in {{}, Manager!PeriodicRequests(s)}
      BY <1>2, <3>1, <2>2 DEF TimersInv
    <3>3. CASE s = state + 1
      BY <2>3, <3>1, <3>2, <3>3 DEF Manager!Next, Manager!Advance, States
    <3>4. CASE state = 5 /\ s = 5
      BY <3>1, <3>2, <3>4 DEF Manager!Next, Manager!Resync
    <3> QED BY <3>1, <3>3, <3>4
  <2>5. CASE EnterInitialized \/ EnterRegistered \/ EnterTimeSynced \/ EnterTempoSynced
    <3>1. TransitionTo(2) \/ TransitionTo(3) \/ TransitionTo(4) \/ TransitionTo(5)
      BY <2>5
      DEF EnterInitialized, EnterRegistered, EnterTimeSynced, EnterTempoSynced
    <3>2. {2, 3, 4, 5} \subseteq States
      BY DEF States
    <3> QED BY <2>4, <3>1, <3>2
  <2>6. CASE Boot
    <3>1. state = 0 /\ state' = 1 /\ alarm' = alarm /\ alarm = {}
      BY <1>2, <2>6
      DEF Boot, OrderInv, EmptyWhenOff, TimersInv, Manager!PeriodicRequests
    <3> QED BY <2>2, <3>1 DEF Manager!Next, Manager!Advance
  <2>7. CASE PowerLoss
    BY <2>2, <2>7 DEF PowerLoss, Manager!Next, Manager!PowerLoss
  <2>8. ASSUME UNCHANGED <<state, timers>>
        PROVE  UNCHANGED <<state, {a \in Alarms : timers[a] > 0}>>
    BY <2>8
  <2>9. CASE FinishStart
    BY <2>8, <2>9 DEF FinishStart
  <2>10. CASE PopEvent
    BY <2>8, <2>10 DEF PopEvent, managerVars
  <2>11. CASE RejectTransition \/ HandleHello \/ HandleTime \/ HandleTempo
                \/ HandleNextBeat \/ HandleProgram \/ HandleOther
    BY <2>8, <2>11
    DEF RejectTransition, HandleHello, HandleTime, HandleTempo, HandleNextBeat,
        HandleProgram, HandleOther, managerVars
  <2>12. ASSUME NEW a \in Alarms, FireHello(a)
         PROVE  UNCHANGED <<state, {b \in Alarms : timers[b] > 0}>>
    BY <2>8, <2>12 DEF FireHello, managerVars
  <2>13. CASE FireTempo \/ FireTime
    BY <2>8, <2>13 DEF FireTempo, FireTime, managerVars
  <2>14. ASSUME NEW x \in net, ReceiveReply(x) \/ Lose(x)
         PROVE  UNCHANGED <<state, {a \in Alarms : timers[a] > 0}>>
    BY <2>8, <2>14 DEF ReceiveReply, Receive, Lose, managerVars
  <2>15. ASSUME NEW m \in Unprompted, ReceiveBroadcast(m)
         PROVE  UNCHANGED <<state, {a \in Alarms : timers[a] > 0}>>
    BY <2>8, <2>15 DEF ReceiveBroadcast, Receive, managerVars
  <2>16. CASE PopIntercore \/ UpdateTempo
    BY <2>8, <2>16 DEF PopIntercore, UpdateTempo, managerVars
  <2>17. CASE UNCHANGED vars
    BY <2>8, <2>17 DEF vars, managerVars
  <2> QED BY <1>2, <2>5, <2>6, <2>7, <2>9, <2>10, <2>11, <2>12, <2>13, <2>14, <2>15,
             <2>16, <2>17 DEF Next, HandleEvent
<1> QED BY <1>1, <1>2, OrderInvariant, PTL DEF Spec, ImplementsLifecycle, Manager!Spec

-------------------------------------------------------------------------------
(***************************************************************************)
(* In the first life of a controller a tempo exchange is in the network,   *)
(* and a TEMPO_RESPONSE under way in the controller, only once TIME_SYNCED *)
(* has been reached.                                                       *)
(***************************************************************************)
TempoPending == \E f \in Events : IsTempo(f) /\ Pending(f)

TempoInv ==
  /\ boots = 0 => net = {} /\ power = "off"
  /\ boots \in {0, 1} => /\ power # "off" /\ TempoExchange \in net => state \in {4, 5}
                         /\ TempoPending => state \in {4, 5}

(***************************************************************************)
(* A step of a running controller that sends no tempo request, receives no *)
(* TEMPO_RESPONSE and does not fall back keeps TempoInv.                   *)
(***************************************************************************)
LEMMA NoTempoStep ==
  ASSUME TempoInv, UNCHANGED boots, power # "off",
         TempoExchange \in net' => TempoExchange \in net \/ state \in {4, 5},
         state \in {4, 5} => state' \in {4, 5},
         NEW e \in Events, ~IsTempo(e), NothingNew \/ OnlyNew(e)
  PROVE  TempoInv'
<1>1. TempoPending' => TempoPending
  BY DEF TempoPending, NothingNew, OnlyNew
<1> QED BY <1>1 DEF TempoInv

LEMMA TransitionIsNoTempo ==
  \A s \in States : Transition(s) \in Events /\ ~IsTempo(Transition(s))
BY TransitionEvents DEF Transition, IsTempo

(***************************************************************************)
(* What enters the queue: nothing, or the transition a handler schedules.  *)
(***************************************************************************)
LEMMA HandlerEvents ==
  ASSUME TypeParts,
         HandleHello \/ HandleTime \/ HandleTempo \/ HandleNextBeat
           \/ HandleProgram \/ HandleOther
  PROVE  \E s \in States : NothingNew \/ OnlyNew(Transition(s))
<1> USE DEF States
<1>1. ASSUME NEW s \in States, ScheduleAndReturn(s)
      PROVE  \E t \in States : NothingNew \/ OnlyNew(Transition(t))
  BY <1>1, SchedulePending
<1>2. ASSUME NEW err \in Nat, Return(err), UNCHANGED evq
      PROVE  \E t \in States : NothingNew \/ OnlyNew(Transition(t))
  BY <1>2, ReturnPending
<1>3. CASE HandleHello
  BY <1>1, <1>2, <1>3 DEF HandleHello
<1>4. CASE HandleTime
  BY <1>1, <1>2, <1>4 DEF HandleTime
<1>5. CASE HandleTempo
  BY <1>1, <1>2, <1>5 DEF HandleTempo
<1>6. CASE HandleNextBeat
  BY <1>1, <1>2, <1>6 DEF HandleNextBeat
<1>7. CASE HandleProgram
  BY <1>2, <1>7 DEF HandleProgram
<1>8. CASE HandleOther
  BY <1>2, <1>8 DEF HandleOther
<1> QED BY <1>3, <1>4, <1>5, <1>6, <1>7, <1>8

LEMMA TempoInvStep ==
  TypeParts /\ TimersInv /\ OrderInv /\ TempoInv /\ [Next]_vars => TempoInv'
<1> SUFFICES ASSUME TypeParts, TimersInv, OrderInv, TempoInv, [Next]_vars
             PROVE  TempoInv'
  OBVIOUS
<1>a. Transition(0) \in Events /\ ~IsTempo(Transition(0))
  BY TransitionIsNoTempo DEF States
<1>1. CASE Boot
  <2>1. evq = << >> /\ event = NoEvent /\ evq' = evq /\ event' = event
    BY <1>1 DEF Boot, OrderInv, EmptyWhenOff
  <2>2. ~TempoPending'
    BY <2>1 DEF TempoPending, Pending, Queued, Events, NoEvent
  <2>3. boots \in Nat /\ boots' = boots + 1 /\ net' = net
    BY <1>1 DEF Boot, TypeParts, PowerOK
  <2>4. boots' \in {0, 1} => net' = {}
    BY <2>3 DEF TempoInv
  <2>5. boots' # 0
    BY <2>3
  <2> QED BY <2>2, <2>4, <2>5 DEF TempoInv
<1>2. CASE FinishStart
  <2>1. OnlyNew(Transition(2))
    BY <1>2, EnqueuePending, TransitionEvents DEF FinishStart, TypeParts, OnlyNew, States
  <2> QED BY <1>2, <2>1, NoTempoStep, TransitionIsNoTempo DEF FinishStart, States
<1>3. CASE PowerLoss
  <2>1. evq' = << >> /\ event' = NoEvent /\ power' = "off" /\ UNCHANGED <<boots, net>>
    BY <1>3 DEF PowerLoss
  <2>2. ~TempoPending'
    BY <2>1 DEF TempoPending, Pending, Queued, Events, NoEvent
  <2> QED BY <2>1, <2>2 DEF TempoInv
<1>4. CASE PopEvent
  <2>1. NothingNew
    BY <1>4, PopPending DEF TypeParts, NothingNew
  <2> QED BY <1>4, <1>a, <2>1, NoTempoStep DEF PopEvent, managerVars
<1>5. CASE RejectTransition
  <2>1. NothingNew /\ power = "running"
    BY <1>5, ReturnPending DEF RejectTransition, TransitionPending
  <2> QED BY <1>5, <1>a, <2>1, NoTempoStep DEF RejectTransition, managerVars
<1>6. ASSUME NEW s \in States, TransitionTo(s),
             TempoExchange \in net' => TempoExchange \in net \/ s = 4
      PROVE  TempoInv'
  <2>1. power = "running" /\ UNCHANGED boots /\ NothingNew
    BY <1>6, DonePending DEF TransitionTo, TransitionPending, NothingNew
  <2>2. state' = s /\ (s = state + 1 \/ (state = 5 /\ s = 5))
    BY <1>6, AcceptedTransition
  <2>3. CASE s = 4
    <3>1. state' \in {4, 5} /\ boots' = boots /\ boots # 0
      BY <2>1, <2>2, <2>3 DEF TempoInv
    <3> QED BY <3>1 DEF TempoInv
  <2>4. CASE s # 4
    <3>1. state \in {4, 5} => state' \in {4, 5}
      BY <1>6, <2>2, <2>4 DEF States
    <3> QED BY <1>6, <1>a, <2>1, <2>4, <3>1, NoTempoStep
  <2> QED BY <2>3, <2>4
<1>7. CASE EnterInitialized
  BY <1>6, <1>7 DEF EnterInitialized, States
<1>8. CASE EnterRegistered
  <2>1. TempoExchange \in net' => TempoExchange \in net
    BY <1>8 DEF EnterRegistered, SendTimeRequest, TempoExchange, TimeResponse
  <2> QED BY <1>6, <1>8, <2>1 DEF EnterRegistered, States
<1>9. CASE EnterTimeSynced
  BY <1>6, <1>9 DEF EnterTimeSynced, States
<1>10. CASE EnterTempoSynced
  BY <1>6, <1>10 DEF EnterTempoSynced, States
<1>11. CASE HandleHello \/ HandleTime \/ HandleTempo \/ HandleNextBeat
              \/ HandleProgram \/ HandleOther
  <2>1. power = "running" /\ UNCHANGED <<boots, net, state>>
    BY <1>11 DEF HandleHello, HandleTime, HandleTempo, HandleNextBeat, HandleProgram,
       HandleOther, Handling, managerVars
  <2>2. PICK s \in States : NothingNew \/ OnlyNew(Transition(s))
    BY <1>11, HandlerEvents
  <2> QED BY <2>1, <2>2, NoTempoStep, TransitionIsNoTempo
<1>12. ASSUME UNCHANGED <<evq, event, boots, state>>, power = "running",
              TempoExchange \in net' => TempoExchange \in net \/ state \in {4, 5}
       PROVE  TempoInv'
  BY <1>12, <1>a, SamePending, NoTempoStep DEF NothingNew
<1>13. ASSUME NEW a \in Alarms, FireHello(a) PROVE TempoInv'
  BY <1>13, <1>12
  DEF FireHello, TimersRun, SendHelloRequest, HelloResponse, TempoExchange, managerVars
<1>14. CASE FireTempo
  <2>1. state = 5
    <3>1. timers["tempo"] > 0 /\ "tempo" \in Alarms
      BY <1>14 DEF FireTempo, TimersRun, Alarms, SyncedAlarms
    <3>2. "tempo" \in alarm
      BY <3>1 DEF TimersInv
    <3> QED BY <3>2 DEF TimersInv, Manager!PeriodicRequests, States
  <2> QED BY <1>12, <1>14, <2>1 DEF FireTempo, TimersRun, managerVars
<1>15. CASE FireTime
  BY <1>12, <1>15
  DEF FireTime, TimersRun, SendTimeRequest, TempoExchange, TimeResponse, managerVars
<1>16. ASSUME NEW m \in Messages, Receive(m), net' \subseteq net,
              m.kind = "TEMPO_RESPONSE" => TempoExchange \in net
       PROVE  TempoInv'
  <2>1. power \in {"starting", "running"} /\ UNCHANGED <<boots, state>>
    BY <1>16 DEF Receive, managerVars
  <2>2. OnlyNew(ServerMessage(m)) /\ ServerMessage(m) \in Events
    BY <1>16, EnqueuePending, MessageTypes DEF TypeParts, Receive, OnlyNew
  <2>3. CASE m.kind # "TEMPO_RESPONSE"
    <3>1. ~IsTempo(ServerMessage(m))
      BY <2>3 DEF IsTempo, ServerMessage
    <3> QED BY <1>16, <2>1, <2>2, <3>1, NoTempoStep
  <2>4. CASE m.kind = "TEMPO_RESPONSE"
    <3>1. boots \in {0, 1} => state \in {4, 5}
      BY <1>16, <2>1, <2>4 DEF TempoInv
    <3>2. boots # 0
      BY <2>1 DEF TempoInv
    <3> QED BY <2>1, <3>1, <3>2 DEF TempoInv
  <2> QED BY <2>3, <2>4
<1>17. ASSUME NEW x \in net, ReceiveReply(x) PROVE TempoInv'
  <2>1. PICK m \in Replies(x) : Receive(m)
    BY <1>17 DEF ReceiveReply
  <2>2. m \in Messages /\ x \in Exchanges
    BY <2>1, MessageTypes DEF TypeParts, NetOK
  <2>3. m.kind = "TEMPO_RESPONSE" => x = TempoExchange
    BY <2>1, <2>2 DEF Replies, Exchanges, HelloResponse, TimeResponses
  <2>4. net' \subseteq net
    BY <1>17 DEF ReceiveReply
  <2> QED BY <2>1, <2>2, <2>3, <2>4, <1>16
<1>18. ASSUME NEW m \in Unprompted, ReceiveBroadcast(m) PROVE TempoInv'
  <2>1. m \in Messages /\ m.kind # "TEMPO_RESPONSE"
    BY MessageTypes DEF Unprompted, NextBeats, ProgramPushes, Others
  <2> QED BY <1>16, <1>18, <2>1 DEF ReceiveBroadcast
<1>19. ASSUME NEW x \in net, Lose(x) PROVE TempoInv'
  BY <1>19, SamePending DEF Lose, TempoInv, TempoPending, managerVars
<1>20. CASE PopIntercore \/ UpdateTempo
  BY <1>12, <1>20 DEF PopIntercore, UpdateTempo, managerVars
<1>21. CASE UNCHANGED vars
  BY <1>21, SamePending DEF vars, TempoInv, TempoPending, managerVars
<1> QED BY <1>1, <1>2, <1>3, <1>4, <1>5, <1>7, <1>8, <1>9, <1>10, <1>11, <1>13,
           <1>14, <1>15, <1>17, <1>18, <1>19, <1>20, <1>21 DEF Next, HandleEvent

(***************************************************************************)
(* Until power has been lost, a TEMPO_RESPONSE finds the clock in step.    *)
(***************************************************************************)
THEOREM TempoComesInTime == Spec => []TempoNeverEarly
<1>1. Init => TempoInv
  <2> SUFFICES ASSUME Init PROVE TempoInv
    OBVIOUS
  <2>1. ~TempoPending
    BY DEF Init, TempoPending, Pending, Queued, Events, NoEvent
  <2> QED BY <2>1 DEF Init, TempoInv
<1>2. TypeParts /\ TempoInv => TempoNeverEarly
  <2> SUFFICES ASSUME TypeParts, TempoInv, boots <= 1,
                      IsTempo(event) \/ \E i \in DOMAIN evq : IsTempo(evq[i])
               PROVE  state >= 4
    BY DEF TempoNeverEarly
  <2>1. TempoPending
    <3>1. CASE IsTempo(event)
      BY <3>1 DEF TempoPending, Pending, TypeParts, EventOK, NoEvent, IsTempo
    <3>2. CASE \E i \in DOMAIN evq : IsTempo(evq[i])
      <4>1. \A i \in DOMAIN evq : evq[i] \in Events
        BY DEF TypeParts, QueueOK
      <4> QED BY <3>2, <4>1 DEF TempoPending, Pending, Queued
    <3> QED BY <3>1, <3>2
  <2>2. boots \in {0, 1}
    BY DEF TypeParts, PowerOK
  <2> QED BY <2>1, <2>2 DEF TempoInv
<1> QED BY <1>1, <1>2, TempoInvStep, OrderInvariant, PTL DEF Spec

-------------------------------------------------------------------------------
(***************************************************************************)
(* hal_queue_add_message on the intercore queue: what is announced, or     *)
(* counted as lost, stays so, and each bit given becomes one or the other; *)
(* no other bit gets announced.                                            *)
(***************************************************************************)
Waiting(b) == \E i \in DOMAIN icq : b \in icq[i]

LEMMA NotifyAnnounces ==
  ASSUME IntercoreOK, NEW bits \in SUBSET Bits, Notify(bits), icMsg' = icMsg
  PROVE  \A b \in Bits : /\ b \in bits \/ Announced(b) \/ b \in lost
                               => Announced(b)' \/ b \in lost'
                         /\ Announced(b)' => Announced(b) \/ b \in bits
<1> USE DEF Announced
<1>1. CASE icq' = Append(icq, bits) /\ lost' = lost \ bits
  <2>1. /\ DOMAIN icq' = 1 .. Len(icq) + 1 /\ DOMAIN icq = 1 .. Len(icq)
        /\ Len(icq) \in Nat
        /\ icq'[Len(icq) + 1] = bits
        /\ \A i \in 1 .. Len(icq) : icq'[i] = icq[i]
    BY <1>1 DEF IntercoreOK
  <2>2. ASSUME NEW b \in Bits, b \in bits PROVE Announced(b)'
    BY <2>1, <2>2
  <2>3. ASSUME NEW b \in Bits, Announced(b) PROVE Announced(b)'
    BY <2>1, <2>3
  <2>4. ASSUME NEW b \in Bits, b \in lost, b \notin bits PROVE b \in lost'
    BY <1>1, <2>4
  <2>5. ASSUME NEW b \in Bits, Announced(b)', b \notin bits PROVE Announced(b)
    BY <2>1, <2>5
  <2> QED BY <2>2, <2>3, <2>4, <2>5
<1>2. CASE lost' = lost \cup {b \in bits : ~Announced(b)} /\ UNCHANGED icq
  BY <1>2
<1> QED BY <1>1, <1>2 DEF Notify

LEMMA PopWaiting ==
  ASSUME IntercoreOK, PopIntercore
  PROVE  \A b \in Bits : Waiting(b) => Waiting(b)' \/ b \in icMsg'
<1> USE DEF Waiting
<1>1. /\ DOMAIN icq = 1 .. Len(icq) /\ Len(icq) \in Nat \ {0}
      /\ DOMAIN icq' = 1 .. Len(icq) - 1
      /\ \A i \in 1 .. Len(icq) - 1 : icq'[i] = icq[i + 1]
      /\ icMsg' = icq[1]
  BY DEF IntercoreOK, PopIntercore
<1>2. ASSUME NEW b \in Bits, NEW i \in DOMAIN icq, b \in icq[i]
      PROVE  Waiting(b)' \/ b \in icMsg'
  <2>1. CASE i = 1
    BY <1>1, <1>2, <2>1
  <2>2. CASE i # 1
    <3>1. i - 1 \in DOMAIN icq' /\ icq'[i - 1] = icq[i]
      BY <1>1, <1>2, <2>2
    <3> QED BY <1>2, <3>1
  <2> QED BY <2>1, <2>2
<1> QED BY <1>2

LEMMA PoppedWasWaiting ==
  ASSUME IntercoreOK, PopIntercore
  PROVE  \A b \in Bits : Announced(b)' => Announced(b)
<1>1. /\ DOMAIN icq = 1 .. Len(icq) /\ Len(icq) \in Nat \ {0}
      /\ DOMAIN icq' = 1 .. Len(icq) - 1
      /\ \A i \in 1 .. Len(icq) - 1 : icq'[i] = icq[i + 1]
      /\ icMsg' = icq[1]
  BY DEF IntercoreOK, PopIntercore
<1>2. ASSUME NEW b \in Bits, NEW i \in DOMAIN icq', b \in icq'[i]
      PROVE  Announced(b)
  <2>1. i + 1 \in DOMAIN icq /\ icq'[i] = icq[i + 1]
    BY <1>1, <1>2
  <2> QED BY <1>2, <2>1 DEF Announced
<1>3. ASSUME NEW b \in Bits, b \in icMsg' PROVE Announced(b)
  <2>1. 1 \in DOMAIN icq
    BY <1>1
  <2> QED BY <1>1, <1>3, <2>1 DEF Announced
<1> QED BY <1>2, <1>3 DEF Announced

LEMMA ProgramUnchanged ==
  ASSUME NEW r \in RegistryValues
  PROVE  [r EXCEPT !.program = r.program] = r
BY DEF RegistryValues

LEMMA ZeroShown == 0 % 256 = 0
OBVIOUS

(***************************************************************************)
(* The LED core is told of a tempo only once a server's is in the          *)
(* registry, so the one registry_init fills in never reaches it.           *)
(***************************************************************************)
TempoToldIsSet == Announced("tempo") => tempoSet

LedInv == LedFollowsRegistry /\ TempoToldIsSet

(***************************************************************************)
(* Every step keeps the LED core in step with the registry.                *)
(***************************************************************************)
LEMMA LedStep == TypeParts /\ LedInv /\ [Next]_vars => LedInv'
<1> SUFFICES ASSUME TypeParts, LedInv, [Next]_vars
             PROVE  LedInv'
  OBVIOUS
<1> USE DEF LedInv, LedFollowsRegistry, TempoToldIsSet
<1>a. \A b : Announced(b) <=> b \in icMsg \/ Waiting(b)
  BY DEF Announced, Waiting
<1>b. \A b : Announced(b)' <=> b \in icMsg' \/ Waiting(b)'
  BY DEF Announced, Waiting
<1>1. ASSUME UNCHANGED <<registry, tempoSet, icq, lost, icMsg, led>>
      PROVE  LedInv'
  BY <1>1 DEF Shown, Announced
<1>2. ASSUME NEW bits \in SUBSET Bits, Notify(bits), UNCHANGED <<icMsg, led>>,
             \A b \in Bits \ bits : Shown(b) => Shown(b)',
             tempoSet \/ "tempo" \in bits => tempoSet'
      PROVE  LedInv'
  <2>1. \A b \in Bits : /\ b \in bits \/ Announced(b) \/ b \in lost
                             => Announced(b)' \/ b \in lost'
                        /\ Announced(b)' => Announced(b) \/ b \in bits
    BY <1>2, NotifyAnnounces DEF TypeParts
  <2>2. ASSUME NEW b \in Bits PROVE Shown(b)' \/ Announced(b)' \/ b \in lost'
    <3>1. CASE b \in bits \/ Announced(b) \/ b \in lost
      BY <2>1, <3>1
    <3>2. CASE b \notin bits /\ Shown(b)
      BY <1>2, <3>2
    <3> QED BY <3>1, <3>2
  <2>3. TempoToldIsSet'
    BY <1>2, <2>1 DEF Bits
  <2> QED BY <2>2, <2>3
<1>3. CASE PowerLoss
  <2>1. /\ registry' = registry_init /\ led' = LedInit /\ tempoSet' = FALSE
        /\ icq' = << >> /\ icMsg' = {}
    BY <1>3 DEF PowerLoss
  <2>2. \A b \in Bits : Shown(b)'
    BY <2>1, ZeroShown DEF Shown, Bits, registry_init, LedInit
  <2>3. ~Announced("tempo")'
    BY <2>1 DEF Announced
  <2> QED BY <2>2, <2>3
<1>4. CASE Boot \/ FinishStart \/ PopEvent \/ RejectTransition
             \/ HandleHello \/ HandleTime \/ HandleOther
  BY <1>1, <1>4
  DEF Boot, FinishStart, PopEvent, RejectTransition, HandleHello, HandleTime,
      HandleOther, dataVars, icVars, ledVars
<1>5. CASE EnterInitialized \/ EnterRegistered \/ EnterTimeSynced \/ EnterTempoSynced
  BY <1>1, <1>5
  DEF EnterInitialized, EnterRegistered, EnterTimeSynced, EnterTempoSynced,
      TransitionTo, dataVars, icVars
<1>6. CASE HandleTempo
  <2>1. CASE Synced
    <3>1. \A b \in Bits \ {"tempo", "program"} : Shown(b) => Shown(b)'
      BY <1>6, <2>1 DEF HandleTempo, TypeParts, DataOK, RegistryValues, Shown, Bits, ledVars
    <3> QED BY <1>2, <1>6, <2>1, <3>1 DEF HandleTempo, ledVars, Bits
  <2>2. CASE ~Synced
    BY <1>1, <1>6, <2>2 DEF HandleTempo, icVars, ledVars
  <2> QED BY <2>1, <2>2
<1>7. CASE HandleNextBeat
  <2>1. CASE UNCHANGED <<registry, icVars>>
    BY <1>1, <1>7, <2>1 DEF HandleNextBeat, icVars, ledVars
  <2>2. CASE registry' = [registry EXCEPT !.beat = event.msg.seq] /\ Notify({"time_ref"})
    <3>1. \A b \in Bits \ {"time_ref"} : Shown(b) => Shown(b)'
      BY <1>7, <2>2
      DEF HandleNextBeat, TypeParts, DataOK, RegistryValues, Shown, Bits, ledVars
    <3> QED BY <1>2, <1>7, <2>2, <3>1 DEF HandleNextBeat, ledVars, Bits
  <2> QED BY <1>7, <2>1, <2>2 DEF HandleNextBeat
<1>8. CASE HandleProgram
  <2>1. CASE ~ProgramFresh(event.msg.seq, lastProgramSeq)
    BY <1>1, <1>8, <2>1 DEF HandleProgram, icVars, ledVars
  <2>2. CASE ProgramFresh(event.msg.seq, lastProgramSeq)
    <3>0. registry' = [registry EXCEPT !.program = event.msg.program]
      BY <1>8, <2>2 DEF HandleProgram
    <3>1. \A b \in Bits \ {"program"} : Shown(b) => Shown(b)'
      BY <1>8, <3>0
      DEF HandleProgram, TypeParts, DataOK, RegistryValues, Shown, Bits, ledVars
    <3>2. CASE Notify({"program"})
      BY <1>2, <1>8, <3>1, <3>2 DEF HandleProgram, ledVars, Bits
    <3>3. CASE registry.program = event.msg.program /\ UNCHANGED icVars
      <4>1. registry' = registry
        BY <3>0, <3>3, ProgramUnchanged DEF TypeParts, DataOK
      <4> QED BY <1>1, <1>8, <3>3, <4>1 DEF HandleProgram, icVars, ledVars
    <3> QED BY <1>8, <2>2, <3>2, <3>3 DEF HandleProgram
  <2> QED BY <1>8, <2>1, <2>2 DEF HandleProgram
<1>9. ASSUME NEW a \in Alarms, FireHello(a) PROVE LedInv'
  BY <1>1, <1>9 DEF FireHello, dataVars, icVars, ledVars
<1>10. CASE FireTempo \/ FireTime
  BY <1>1, <1>10 DEF FireTempo, FireTime, dataVars, icVars, ledVars
<1>11. ASSUME NEW m, Receive(m) PROVE LedInv'
  BY <1>1, <1>11 DEF Receive, dataVars, icVars, ledVars
<1>12. ASSUME NEW x \in net, ReceiveReply(x) \/ Lose(x) PROVE LedInv'
  BY <1>1, <1>11, <1>12 DEF ReceiveReply, Lose, dataVars, icVars, ledVars
<1>13. ASSUME NEW m \in Unprompted, ReceiveBroadcast(m) PROVE LedInv'
  BY <1>11, <1>13 DEF ReceiveBroadcast
<1>14. CASE PopIntercore
  <2>1. UNCHANGED <<registry, tempoSet, lost, led>> /\ icMsg = {}
    BY <1>14 DEF PopIntercore, dataVars
  <2>2. \A b \in Bits : Waiting(b) => Waiting(b)' \/ b \in icMsg'
    BY <1>14, PopWaiting DEF TypeParts
  <2>3. \A b \in Bits : Shown(b) => Shown(b)'
    BY <2>1 DEF Shown, Bits
  <2>4. Announced("tempo")' => Announced("tempo")
    BY <1>14, PoppedWasWaiting DEF TypeParts, Bits
  <2> QED BY <1>a, <1>b, <2>1, <2>2, <2>3, <2>4
<1>15. CASE UpdateTempo
  <2>1. UNCHANGED <<registry, tempoSet, icq, lost>>
    BY <1>15 DEF UpdateTempo, dataVars, icVars
  <2>0. "tempo" \in icMsg => tempoSet
    BY <1>a
  <2>2. \A b \in Bits : b \in icMsg => Shown(b)'
    <3>1. "tempo" \in icMsg => Shown("tempo")'
      BY <1>15, <2>0, <2>1 DEF UpdateTempo, Tells, Shown
    <3>2. "program" \in icMsg => Shown("program")'
      BY <1>15, <2>1 DEF UpdateTempo, Tells, Shown
    <3>3. "time_ref" \in icMsg => Shown("time_ref")'
      BY <1>15, <2>1 DEF UpdateTempo, Tells, Shown
    <3> QED BY <3>1, <3>2, <3>3 DEF Bits
  <2>3. \A b \in Bits : b \notin icMsg /\ Shown(b) => Shown(b)'
    <3>1. "tempo" \notin icMsg /\ Shown("tempo") => Shown("tempo")'
      BY <1>15, <2>1 DEF UpdateTempo, Tells, Shown
    <3>2. "program" \notin icMsg /\ Shown("program") => Shown("program")'
      BY <1>15, <2>1 DEF UpdateTempo, Tells, Shown
    <3>3. "time_ref" \notin icMsg /\ Shown("time_ref") => Shown("time_ref")'
      BY <1>15, <2>1 DEF UpdateTempo, Tells, Shown
    <3> QED BY <3>1, <3>2, <3>3 DEF Bits
  <2>4. \A b : Waiting(b)' <=> Waiting(b)
    BY <2>1 DEF Waiting
  <2>5. icMsg' = {}
    BY <1>15 DEF UpdateTempo
  <2> QED BY <1>a, <1>b, <2>1, <2>2, <2>3, <2>4, <2>5
<1>16. CASE UNCHANGED vars
  BY <1>1, <1>16 DEF vars, dataVars, icVars, ledVars
<1> QED BY <1>3, <1>4, <1>5, <1>6, <1>7, <1>8, <1>9, <1>10, <1>12, <1>13, <1>14,
           <1>15, <1>16 DEF Next, HandleEvent

(***************************************************************************)
(* The LED core shows the registry, has been told to look, or missed a     *)
(* notification, for every size of the intercore queue.                    *)
(***************************************************************************)
THEOREM LedCoreFollows == Spec => []LedFollowsRegistry
<1>1. Init => LedInv
  <2> SUFFICES ASSUME Init PROVE LedInv
    OBVIOUS
  <2>1. \A b \in Bits : Shown(b)
    BY ZeroShown DEF Init, Shown, registry_init, LedInit, Bits
  <2>2. ~Announced("tempo")
    BY DEF Init, Announced
  <2> QED BY <2>1, <2>2 DEF LedInv, LedFollowsRegistry, TempoToldIsSet
<1>2. LedInv => LedFollowsRegistry
  BY DEF LedInv
<1> QED BY <1>1, <1>2, LedStep, TypesInvariant, PTL DEF Spec

=============================================================================
