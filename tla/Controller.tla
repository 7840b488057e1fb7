------------------------------ MODULE Controller ------------------------------
(***************************************************************************)
(* The controller firmware as one system: the state manager, the bounded   *)
(* event queue and its loop on core 0, the handlers of the six server      *)
(* messages, the repeating timers, the UDP receiver, the intercore queue   *)
(* and the LED core that drains it, and a network that loses, duplicates   *)
(* and reorders datagrams.                                                 *)
(*                                                                         *)
(* The event loop takes an event out of the queue in one step and handles  *)
(* it in another, so the receiver may refill the queue in between.  A      *)
(* handler is one step: only core 0 writes the state it reads, and the     *)
(* only race inside one (process_time_msg against a time request sent by a *)
(* timer) is the subject of a module of its own.                           *)
(***************************************************************************)
EXTENDS Integers, Sequences, SeqNumbers

CONSTANTS
  EventQueueSize,     (* MAX_QUEUE_COUNT, 64 in the code                    *)
  IntercoreQueueSize, (* MAX_INTERCORE_QUEUE_COUNT, 128 in the code         *)
  TimeSamples,        (* TIME_SYNC_SAMPLES, 8 in the code                   *)
  Programs,           (* program ids in the server's TEMPO_RESPONSEs        *)
  Pushed,             (* program ids the server pushes with PROGRAM         *)
  Tempos,             (* tempo periods the server sends                     *)
  Seqs,               (* sequence numbers the server sends                  *)
  Broadcasts,         (* kinds of datagram the server sends unprompted      *)
  FatalHalts,         (* BEATLED_FATAL stops the program (POSIX, ESP32) or  *)
                      (* only logs (Pico)                                   *)
  DefaultTempo,       (* the period registry_init fills in: 1,000,000, on   *)
                      (* POSIX 0                                            *)
  TimerMayFail,       (* hal_add_repeating_timer may return NULL (Pico)     *)
  MaxTimeRequests,    (* bound: the time timer fires while fewer were sent  *)
  MaxBoots            (* bound: number of power-ups                         *)

BroadcastKinds == {"NEXT_BEAT", "PROGRAM", "ERROR", "INVALID"}

ASSUME ControllerAssumption ==
  /\ EventQueueSize \in Nat \ {0}
  /\ IntercoreQueueSize \in Nat \ {0}
  /\ TimeSamples \in Nat \ {0}
  /\ SeqModulus > 255
  /\ Programs \subseteq SeqNumber
  /\ Pushed \subseteq SeqNumber
  /\ Tempos \subseteq Nat \ {0}
  /\ Seqs \subseteq SeqNumber
  /\ Broadcasts \subseteq BroadcastKinds
  /\ FatalHalts \in BOOLEAN
  /\ DefaultTempo \in Nat
  /\ TimerMayFail \in BOOLEAN
  /\ MaxTimeRequests \in Nat
  /\ MaxBoots \in Nat

-------------------------------------------------------------------------------
(* States, messages, events.                                               *)

STATE_UNKNOWN      == 0
STATE_STARTED      == 1
STATE_INITIALIZED  == 2
STATE_REGISTERED   == 3
STATE_TIME_SYNCED  == 4
STATE_TEMPO_SYNCED == 5
States == 0 .. 5

transition_matrix ==
  [s \in States |->
     IF s = STATE_TEMPO_SYNCED THEN {STATE_TIME_SYNCED, STATE_TEMPO_SYNCED}
                               ELSE {s + 1}]

\* The static alarm handles of initialized.c and tempo_synced.c.
SyncedAlarms == {"tempo", "time", "hello"}
Alarms       == {"init_hello"} \cup SyncedAlarms

HelloResponse == [kind |-> "HELLO_RESPONSE"]
TempoExchange == [kind |-> "TEMPO_RESPONSE"]
TimeResponse(orig) == [kind |-> "TIME_RESPONSE", orig |-> orig]

TimeResponses  == [kind : {"TIME_RESPONSE"}, orig : Nat]
TempoResponses == [kind : {"TEMPO_RESPONSE"}, tempo : Tempos, program : Programs]
NextBeats      == [kind : {"NEXT_BEAT"}, seq : Seqs]
ProgramPushes  == [kind : {"PROGRAM"}, program : Pushed, seq : Seqs]
Others         == [kind : {"ERROR", "INVALID"}]

\* Requests under way: the request, or its answer, travels in the network.
Exchanges == {HelloResponse, TempoExchange} \cup TimeResponses

\* What the controller receives when x is delivered.
Replies(x) == IF x = TempoExchange THEN TempoResponses ELSE {x}

Unprompted == {m \in NextBeats \cup ProgramPushes \cup Others : m.kind \in Broadcasts}

Messages == {HelloResponse} \cup TimeResponses \cup TempoResponses
              \cup NextBeats \cup ProgramPushes \cup Others

ServerMessage(m) == [type |-> "server_message", msg |-> m]
Transition(s)    == [type |-> "state_transition", next |-> s]
NoEvent          == [type |-> "none"]
Events == [type : {"server_message"}, msg : Messages]
            \cup [type : {"state_transition"}, next : States]

\* The bits of an intercore message and the registry field each announces.
Bits     == {"time_ref", "tempo", "program"}
NoTempo  == 0    \* the LED core's period until it is told one
NoBeat   == NoSeq

\* registry_init fills in a period, which differs from the LED core's own
\* on every port but POSIX: those copies are initialised to zero.
registry_init == [program |-> 0, tempo |-> DefaultTempo, beat |-> NoBeat]
LedInit       == [program |-> 0, tempo |-> NoTempo, beat |-> NoBeat]

RegistryValues == [program : SeqNumber, tempo : Nat, beat : LastSeq]

-------------------------------------------------------------------------------
VARIABLES
  power,          \* "off", "starting" (in enter_started_state), "running", "halted"
  boots,          \* power-ups so far
  state,          \* internal_state.current_state
  exitHandler,    \* the state whose exit handler exit_current_state points to
  alarm,          \* the alarm handles that are not NULL
  timers,         \* live HAL timers, by the handle they were created for
  evq,            \* the event queue
  event,          \* the event the loop has taken out and not finished with
  net,            \* exchanges under way
  outstanding,    \* have_outstanding_request and its outstanding_orig_time
  lastOrig,       \* the orig_time stamped last; each one is new
  samples,        \* valid_sample_count
  registry,       \* the fields the LED core reads
  tempoSet,       \* history: a server's tempo is in the registry
  lastBeatSeq, lastProgramSeq,
  icq,            \* the intercore queue: sets of bits
  core1,          \* the LED loop has been started
  icMsg,          \* the message update_tempo is about to handle, or {}
  led,            \* the LED core's own copies
  lost            \* history: bits whose latest notification met a full queue
                  \* while no earlier one was on its way

managerVars == <<state, exitHandler, alarm, timers>>
timeVars    == <<outstanding, lastOrig, samples>>
dataVars    == <<registry, tempoSet, lastBeatSeq, lastProgramSeq>>
icVars      == <<icq, lost>>
ledVars     == <<core1, icMsg, led>>
vars == <<power, boots, evq, event, net,
          managerVars, timeVars, dataVars, icVars, ledVars>>

NoRequest == -1

(***************************************************************************)
(* Types, and the capacity of the two queues that are filled from several  *)
(* places (receiver, state manager, handlers) and drained from one.        *)
(***************************************************************************)
TypeOK ==
  /\ power \in {"off", "starting", "running", "halted"}
  /\ boots \in Nat
  /\ state \in States
  /\ exitHandler \in States
  /\ alarm \subseteq Alarms
  /\ timers \in [Alarms -> Nat]
  /\ evq \in Seq(Events)
  /\ Len(evq) <= EventQueueSize
  /\ event \in Events \cup {NoEvent}
  /\ net \subseteq Exchanges
  /\ outstanding \in Nat \cup {NoRequest}
  /\ lastOrig \in Nat
  /\ samples \in 0 .. TimeSamples
  /\ registry \in RegistryValues
  /\ tempoSet \in BOOLEAN
  /\ lastBeatSeq \in LastSeq
  /\ lastProgramSeq \in LastSeq
  /\ icq \in Seq(SUBSET Bits)
  /\ Len(icq) <= IntercoreQueueSize
  /\ core1 \in BOOLEAN
  /\ icMsg \subseteq Bits
  /\ led \in RegistryValues
  /\ lost \subseteq Bits

Init ==
  /\ power = "off"
  /\ boots = 0
  /\ state = STATE_UNKNOWN
  /\ exitHandler = STATE_UNKNOWN
  /\ alarm = {}
  /\ timers = [a \in Alarms |-> 0]
  /\ evq = <<>>
  /\ event = NoEvent
  /\ net = {}
  /\ outstanding = NoRequest
  /\ lastOrig = 0
  /\ samples = 0
  /\ registry = registry_init
  /\ tempoSet = FALSE
  /\ lastBeatSeq = NoSeq
  /\ lastProgramSeq = NoSeq
  /\ icq = <<>>
  /\ core1 = FALSE
  /\ icMsg = {}
  /\ led = LedInit
  /\ lost = {}

-------------------------------------------------------------------------------
(* Pieces of a handler.                                                    *)

EventQueueFull == Len(evq) = EventQueueSize

EnqueueUnchecked(e) == evq' = Append(evq, e)    \* mutant: no capacity check

\* event_queue_add_message_at: dropped when the queue is full.
Enqueue(e) == evq' = IF EventQueueFull THEN evq ELSE Append(evq, e)

\* BEATLED_FATAL reached or not.
FatalIf(failed) == power' = IF failed /\ FatalHalts THEN "halted" ELSE power

\* The handler returns err to run_event_loop, which frees the event.
Return(err) == event' = NoEvent /\ FatalIf(err # 0)

\* schedule_state_transition and the check every caller makes of its result.
ScheduleAndReturn(s) ==
  /\ Enqueue(Transition(s))
  /\ Return(IF EventQueueFull THEN 1 ELSE 0)

\* A message that makes the LED core read this field is on its way.
Announced(b) == b \in icMsg \/ \E i \in DOMAIN icq : b \in icq[i]

\* hal_queue_add_message on the intercore queue: drop-newest.
Notify(bits) ==
  IF Len(icq) < IntercoreQueueSize
  THEN icq' = Append(icq, bits) /\ lost' = lost \ bits
  ELSE lost' = lost \cup {b \in bits : ~Announced(b)} /\ UNCHANGED icq

\* send_udp_request: prepare_time_request runs only if a buffer was found.
SendTimeRequest ==
  \/ /\ lastOrig' = lastOrig + 1
     /\ outstanding' = lastOrig + 1
     /\ net' = net \cup {TimeResponse(lastOrig + 1)}
  \/ UNCHANGED <<lastOrig, outstanding, net>>

SendTempoRequest == net' = net \cup {TempoExchange}

\* Mutant: the tempo is asked for together with the registration.
SendHelloAndTempoRequest == net' = net \cup {HelloResponse, TempoExchange}

SendHelloRequest == net' = net \cup {HelloResponse}

\* Mutant: cancel_synced_timers forgets hello_alarm.
ExitAlarmsForgetHello ==
  CASE exitHandler = STATE_INITIALIZED  -> {"init_hello"}
    [] exitHandler = STATE_TEMPO_SYNCED -> {"tempo", "time"}
    [] OTHER -> {}

\* The alarm handles a state's exit handler cancels.
ExitAlarms ==
  CASE exitHandler = STATE_INITIALIZED  -> {"init_hello"}
    [] exitHandler = STATE_TEMPO_SYNCED -> SyncedAlarms
    [] OTHER -> {}

\* Run the exit handler, then create timers for the handles in `created`.
ReplaceTimers(created) ==
  /\ alarm' = (alarm \ ExitAlarms) \cup created
  /\ timers' = [a \in Alarms |->
                  timers[a] - (IF a \in alarm \cap ExitAlarms THEN 1 ELSE 0)
                            + (IF a \in created THEN 1 ELSE 0)]

-------------------------------------------------------------------------------
(* Power-up: main.c and enter_started_state.                               *)

\* start_beatled enters STARTED, up to start_udp: from here on the receiver
\* fills the event queue, while core 0 has still to schedule INITIALIZED.
Boot ==
  /\ power = "off"
  /\ boots < MaxBoots
  /\ boots' = boots + 1
  /\ power' = "starting"
  /\ state' = STATE_STARTED
  /\ UNCHANGED <<exitHandler, alarm, timers, evq, event, net,
                 timeVars, dataVars, icVars, ledVars>>

\* The rest of enter_started_state, and on into the event loop.
FinishStart ==
  /\ power = "starting"
  /\ exitHandler' = STATE_STARTED
  /\ Enqueue(Transition(STATE_INITIALIZED))
  /\ power' = IF EventQueueFull /\ FatalHalts THEN "halted" ELSE "running"
  /\ UNCHANGED <<boots, state, alarm, timers, event, net,
                 timeVars, dataVars, icVars, ledVars>>

\* Power is lost, or the program ended by BEATLED_FATAL is started again:
\* everything but what travels in the network is gone.
PowerLoss ==
  /\ power # "off"
  /\ power' = "off"
  /\ state' = STATE_UNKNOWN
  /\ exitHandler' = STATE_UNKNOWN
  /\ alarm' = {}
  /\ timers' = [a \in Alarms |-> 0]
  /\ evq' = <<>>
  /\ event' = NoEvent
  /\ outstanding' = NoRequest
  /\ samples' = 0
  /\ registry' = registry_init
  /\ tempoSet' = FALSE
  /\ lastBeatSeq' = NoSeq
  /\ lastProgramSeq' = NoSeq
  /\ icq' = <<>>
  /\ core1' = FALSE
  /\ icMsg' = {}
  /\ led' = LedInit
  /\ lost' = {}
  /\ UNCHANGED <<boots, net, lastOrig>>

-------------------------------------------------------------------------------
(* The event loop and the state manager.                                   *)

\* event_queue_pop_message_blocking.
PopEvent ==
  /\ power = "running"
  /\ event = NoEvent
  /\ evq # <<>>
  /\ event' = Head(evq)
  /\ evq' = Tail(evq)
  /\ UNCHANGED <<power, boots, net, managerVars, timeVars, dataVars, icVars, ledVars>>

TransitionPending == power = "running" /\ event.type = "state_transition"

\* transition_state returns 1 for the current state (TEMPO_SYNCED excepted)
\* and 2 for a state the matrix does not allow.
RejectTransition ==
  /\ TransitionPending
  /\ event.next \notin transition_matrix[state]
  /\ Return(IF event.next = state THEN 1 ELSE 2)
  /\ UNCHANGED <<boots, evq, net, managerVars, timeVars, dataVars, icVars, ledVars>>

\* What every allowed transition to s has in common.
TransitionTo(s) ==
  /\ TransitionPending
  /\ event.next = s
  /\ s \in transition_matrix[state]
  /\ state' = s
  /\ exitHandler' = s
  /\ event' = NoEvent
  /\ UNCHANGED <<boots, evq, samples, dataVars, icVars, icMsg, led>>

EnterInitialized ==
  /\ TransitionTo(STATE_INITIALIZED)
  /\ core1' = TRUE
  /\ \E created \in {{"init_hello"}} \cup (IF TimerMayFail THEN {{}} ELSE {}) :
       ReplaceTimers(created)
  /\ UNCHANGED <<power, net, outstanding, lastOrig>>

\* exit_initialized_state cancels hello_alarm without asking whether it was
\* ever allocated: with a NULL handle the port reads through it, which may
\* stop the program or do nothing.
EnterRegistered ==
  /\ TransitionTo(STATE_REGISTERED)
  /\ power' \in {"running"} \cup (IF "init_hello" \in alarm THEN {} ELSE {"halted"})
  /\ ReplaceTimers({})
  /\ SendTimeRequest
  /\ UNCHANGED core1

EnterTimeSynced ==
  /\ TransitionTo(STATE_TIME_SYNCED)
  /\ ReplaceTimers({})
  /\ SendTempoRequest
  /\ UNCHANGED <<power, outstanding, lastOrig, core1>>

\* A timer that cannot be allocated makes enter_tempo_synced_state cancel the
\* ones before it; its result is ignored, the state is entered all the same.
EnterTempoSynced ==
  /\ TransitionTo(STATE_TEMPO_SYNCED)
  /\ IF (alarm \ ExitAlarms) \cap SyncedAlarms = {}
     THEN /\ \E created \in {SyncedAlarms} \cup (IF TimerMayFail THEN {{}} ELSE {}) :
               ReplaceTimers(created)
          /\ UNCHANGED power
     ELSE ReplaceTimers({}) /\ FatalIf(TRUE)
  /\ UNCHANGED <<net, outstanding, lastOrig, core1>>

-------------------------------------------------------------------------------
(* The handlers of server messages.                                        *)

Handling(kind) ==
  /\ power = "running"
  /\ event.type = "server_message"
  /\ event.msg.kind = kind

RegisteredEarly == state >= STATE_INITIALIZED    \* mutant: off by one

Registered == state >= STATE_REGISTERED

HandleHello ==
  /\ Handling("HELLO_RESPONSE")
  /\ IF Registered
     THEN Return(0) /\ UNCHANGED evq
     ELSE ScheduleAndReturn(STATE_REGISTERED)
  /\ UNCHANGED <<boots, net, managerVars, timeVars, dataVars, icVars, ledVars>>

KeepOutstanding == UNCHANGED outstanding    \* mutant: the flag is not cleared

ClearOutstanding == outstanding' = NoRequest

NeedsTimeAgain == state # STATE_TIME_SYNCED    \* mutant: wrong comparison

NeedsTime == state < STATE_TIME_SYNCED

\* The answer to the outstanding request is used once; any other is stale.
\* (have_outstanding_request and orig_time = outstanding_orig_time)
HandleTime ==
  /\ Handling("TIME_RESPONSE")
  /\ IF event.msg.orig # outstanding
     THEN Return(0) /\ UNCHANGED <<evq, outstanding, samples>>
     ELSE /\ ClearOutstanding
          /\ samples' = IF samples < TimeSamples THEN samples + 1 ELSE samples
          /\ IF NeedsTime
             THEN ScheduleAndReturn(STATE_TIME_SYNCED)
             ELSE Return(0) /\ UNCHANGED evq
  /\ UNCHANGED <<boots, net, lastOrig, managerVars, dataVars, icVars, ledVars>>

SyncedTooLate == state = STATE_TEMPO_SYNCED      \* mutant: TIME_SYNCED left out
SyncedTooEarly == state >= STATE_REGISTERED      \* mutant: off by one

Synced == state \in {STATE_TIME_SYNCED, STATE_TEMPO_SYNCED}

\* Out of place, a tempo is an error; a full event queue here is fatal on its
\* own, and where that only logs the tempo is applied all the same.
HandleTempo ==
  /\ Handling("TEMPO_RESPONSE")
  /\ IF Synced
     THEN /\ IF state = STATE_TEMPO_SYNCED
             THEN Return(0) /\ UNCHANGED evq
             ELSE ScheduleAndReturn(STATE_TEMPO_SYNCED)
          /\ registry' = [registry EXCEPT !.tempo = event.msg.tempo,
                                          !.program = event.msg.program]
          /\ tempoSet' = TRUE
          /\ Notify({"tempo", "program"})
     ELSE Return(1) /\ UNCHANGED <<evq, registry, tempoSet, icVars>>
  /\ UNCHANGED <<boots, net, lastBeatSeq, lastProgramSeq, managerVars, timeVars, ledVars>>

\* The sequence number is recorded before the transition is scheduled: when
\* that fails the broadcast is not applied, and will not be when repeated.
HandleNextBeat ==
  /\ Handling("NEXT_BEAT")
  /\ IF Synced /\ NextBeatFresh(event.msg.seq, lastBeatSeq)
     THEN /\ lastBeatSeq' = event.msg.seq
          /\ IF state = STATE_TEMPO_SYNCED
             THEN Return(0) /\ UNCHANGED evq
             ELSE ScheduleAndReturn(STATE_TEMPO_SYNCED)
          /\ IF state # STATE_TEMPO_SYNCED /\ EventQueueFull
             THEN UNCHANGED <<registry, icVars>>
             ELSE /\ registry' = [registry EXCEPT !.beat = event.msg.seq]
                  /\ Notify({"time_ref"})
     ELSE Return(0) /\ UNCHANGED <<evq, lastBeatSeq, registry, icVars>>
  /\ UNCHANGED <<boots, net, tempoSet, lastProgramSeq, managerVars, timeVars, ledVars>>

\* command_program, accepted in every state; the LED core is told of changes.
HandleProgram ==
  /\ Handling("PROGRAM")
  /\ Return(0)
  /\ IF ProgramFresh(event.msg.seq, lastProgramSeq)
     THEN /\ lastProgramSeq' = event.msg.seq
          /\ registry' = [registry EXCEPT !.program = event.msg.program]
          /\ IF registry.program # event.msg.program
             THEN Notify({"program"})
             ELSE UNCHANGED icVars
     ELSE UNCHANGED <<lastProgramSeq, registry, icVars>>
  /\ UNCHANGED <<boots, evq, net, tempoSet, lastBeatSeq, managerVars, timeVars, ledVars>>

\* command_error only logs; a datagram validate_server_message refuses is not
\* dispatched, but handle_event returns the error to the event loop.
HandleOther ==
  /\ \/ Handling("ERROR") /\ Return(0)
     \/ Handling("INVALID") /\ Return(1)
  /\ UNCHANGED <<boots, evq, net, managerVars, timeVars, dataVars, icVars, ledVars>>

HandleEvent ==
  \/ RejectTransition \/ EnterInitialized \/ EnterRegistered
  \/ EnterTimeSynced \/ EnterTempoSynced
  \/ HandleHello \/ HandleTime \/ HandleTempo \/ HandleNextBeat
  \/ HandleProgram \/ HandleOther

-------------------------------------------------------------------------------
(* Timers, receiver, LED core, network.                                    *)

TimersRun(a) == power = "running" /\ timers[a] > 0

FireHello(a) ==
  /\ a \in {"init_hello", "hello"}
  /\ TimersRun(a)
  /\ SendHelloRequest
  /\ UNCHANGED <<power, boots, evq, event, managerVars, timeVars, dataVars, icVars, ledVars>>

FireTempo ==
  /\ TimersRun("tempo")
  /\ SendTempoRequest
  /\ UNCHANGED <<power, boots, evq, event, managerVars, timeVars, dataVars, icVars, ledVars>>

FireTime ==
  /\ TimersRun("time")
  /\ lastOrig < MaxTimeRequests
  /\ SendTimeRequest
  /\ UNCHANGED <<power, boots, evq, event, samples, managerVars, dataVars, icVars, ledVars>>

\* The UDP receiver: on a full queue it frees the datagram, or halts.
Receive(m) ==
  /\ power \in {"starting", "running"}
  /\ Enqueue(ServerMessage(m))
  /\ FatalIf(EventQueueFull)
  /\ UNCHANGED <<boots, event, managerVars, timeVars, dataVars, icVars, ledVars>>

\* A datagram may be delivered again.
ReceiveReply(x) ==
  /\ x \in net
  /\ \E m \in Replies(x) : Receive(m)
  /\ net' \in {net, net \ {x}}

ReceiveBroadcast(m) == Receive(m) /\ UNCHANGED net

Lose(x) ==
  /\ x \in net
  /\ net' = net \ {x}
  /\ UNCHANGED <<power, boots, evq, event, managerVars, timeVars, dataVars, icVars, ledVars>>

\* Mutant: the bits are tested as alternatives.
TellsFirst(b) == b \in icMsg /\ (b = "program" => "tempo" \notin icMsg)

\* One bit of the message at hand.
Tells(b) == b \in icMsg

\* core1_loop: pop a message, then update_tempo reads the registry as it is by
\* then.  led_update keeps the program id in eight bits.
PopIntercore ==
  /\ power = "running" /\ core1
  /\ icMsg = {}
  /\ icq # <<>>
  /\ icMsg' = Head(icq)
  /\ icq' = Tail(icq)
  /\ UNCHANGED <<power, boots, evq, event, net, managerVars, timeVars, dataVars,
                 lost, core1, led>>

UpdateTempo ==
  /\ power = "running"
  /\ icMsg # {}
  /\ led' = [program |-> IF Tells("program") THEN registry.program % 256 ELSE led.program,
             tempo   |-> IF Tells("tempo") THEN registry.tempo ELSE led.tempo,
             beat    |-> IF Tells("time_ref") THEN registry.beat ELSE led.beat]
  /\ icMsg' = {}
  /\ UNCHANGED <<power, boots, evq, event, net, managerVars, timeVars, dataVars,
                 icVars, core1>>

Next ==
  \/ Boot \/ FinishStart \/ PowerLoss
  \/ PopEvent \/ HandleEvent
  \/ \E a \in Alarms : FireHello(a)
  \/ FireTempo \/ FireTime
  \/ \E x \in net : ReceiveReply(x) \/ Lose(x)
  \/ \E m \in Unprompted : ReceiveBroadcast(m)
  \/ PopIntercore \/ UpdateTempo

Spec == Init /\ [][Next]_vars

(***************************************************************************)
(* Fairness, no more than the promises below need: core 0 runs, the hello  *)
(* timers fire again and again, and a datagram sent over and over is       *)
(* delivered over and over (but each single one may be lost).  Nothing     *)
(* makes the LED core run, the power come or a datagram get lost.          *)
(***************************************************************************)
Fairness ==
  /\ WF_vars(PopEvent) /\ WF_vars(HandleEvent)
  /\ WF_vars(FireHello("init_hello"))
  /\ SF_vars(ReceiveReply(HelloResponse))
  /\ \A m \in Unprompted \cap NextBeats : SF_vars(ReceiveBroadcast(m))

FairSpec == Spec /\ Fairness

-------------------------------------------------------------------------------
(* Properties.                                                             *)

Manager == INSTANCE Lifecycle
             WITH stage <- state, periodic <- {a \in Alarms : timers[a] > 0}

(***************************************************************************)
(* The alarms of a state run in that state and in no other, each exactly   *)
(* once: no path through exit and enter handlers (a re-entered             *)
(* TEMPO_SYNCED, a timer that could not be allocated, a rejected           *)
(* transition) leaks a timer, doubles one, or leaves a handle that blocks  *)
(* the next entry.  Where timers cannot fail, none is missing either.      *)
(***************************************************************************)
TimersMatchState ==
  /\ \A a \in Alarms : timers[a] = IF a \in alarm THEN 1 ELSE 0
  /\ alarm \in {Manager!PeriodicRequests(state)}
                 \cup (IF TimerMayFail THEN {{}} ELSE {})

(***************************************************************************)
(* When the loop takes a scheduled transition out of the queue it is still *)
(* legal, however long it waited and whatever was handled in between; the  *)
(* one exception is REGISTERED, which two hello responses schedule twice.  *)
(* In particular TIME_SYNCED is scheduled once, so a controller that knows *)
(* the tempo is never thrown back by a late TIME_RESPONSE.                 *)
(***************************************************************************)
TransitionsLegal ==
  TransitionPending /\ event.next # STATE_REGISTERED
    => event.next \in transition_matrix[state]

(***************************************************************************)
(* No beat or tempo is applied before the offset to the server's clock has *)
(* been measured since power-up: beat times are converted to local time    *)
(* when they are received and never again.                                 *)
(***************************************************************************)
ClockBeforeBeats ==
  state >= STATE_TIME_SYNCED \/ registry.beat # NoBeat \/ tempoSet => samples > 0

(***************************************************************************)
(* The LED core shows what the registry holds, or a message that makes it  *)
(* look is on its way, or a full queue has swallowed the last one while    *)
(* none was.  This is what makes it sound that PROGRAM refreshes without a *)
(* change send nothing, that update_tempo reads the registry late, and     *)
(* that ids which differ by 256 are two programs on one core and one on    *)
(* the other.  The tempo registry_init fills in is nobody's: the LED core  *)
(* never shows it, and waits for a server's, be it the same.               *)
(***************************************************************************)
Shown(b) ==
  CASE b = "program"  -> led.program = registry.program % 256
    [] b = "tempo"    -> led.tempo = IF tempoSet THEN registry.tempo ELSE NoTempo
    [] b = "time_ref" -> led.beat = registry.beat

LedFollowsRegistry == \A b \in Bits : Shown(b) \/ Announced(b) \/ b \in lost

(***************************************************************************)
(* A TEMPO_RESPONSE in the queue finds the controller TIME_SYNCED or later *)
(* (elsewhere it is an error, fatal on POSIX and ESP32), unless an earlier *)
(* life of the controller asked for it.                                    *)
(***************************************************************************)
IsTempo(e) == e.type = "server_message" /\ e.msg.kind = "TEMPO_RESPONSE"

TempoNeverEarly ==
  boots <= 1 /\ (IsTempo(event) \/ \E i \in DOMAIN evq : IsTempo(evq[i]))
    => state >= STATE_TIME_SYNCED

(***************************************************************************)
(* The state manager implements Lifecycle: one stage at a time, never      *)
(* back but by losing power, and the periodic requests of that stage.      *)
(***************************************************************************)
ImplementsLifecycle == Manager!Spec

(***************************************************************************)
(* A controller that keeps saying hello gets registered although any one   *)
(* exchange may be lost, unless it ends in BEATLED_FATAL or loses power:   *)
(* the repeating timer makes up for the single hello that goes astray.     *)
(***************************************************************************)
GetsRegistered ==
  power = "running" /\ state = STATE_INITIALIZED
    ~> state >= STATE_REGISTERED \/ power # "running"

(***************************************************************************)
(* A controller that knows the time gets the tempo, although it asks for   *)
(* it once and that exchange may be lost: a NEXT_BEAT is enough, and the   *)
(* transition it queues is not overtaken or undone.                        *)
(***************************************************************************)
GetsTempo ==
  power = "running" /\ state = STATE_TIME_SYNCED
    ~> state = STATE_TEMPO_SYNCED \/ power # "running"

(***************************************************************************)
(* state_manager.c says of a transition to the current state "For now,     *)
(* just ignore it": handling one never ends the program.                   *)
(***************************************************************************)
RepeatedTransitionIgnored ==
  [][TransitionPending /\ event.next = state => power' # "halted"]_vars

(***************************************************************************)
(* time.c says the refresh interval lets the offset converge within 30-40  *)
(* seconds of booting: a registered controller gets the time.              *)
(***************************************************************************)
GetsTime ==
  power = "running" /\ state = STATE_REGISTERED
    ~> state >= STATE_TIME_SYNCED \/ power # "running"

===============================================================================
