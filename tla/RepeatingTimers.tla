--------------------------- MODULE RepeatingTimers ---------------------------
(***************************************************************************)
(* hal_add_repeating_timer and hal_cancel_repeating_timer in their three   *)
(* implementations, and the callback they run: send_udp_request with its   *)
(* two blocks of memory and its retries.                                   *)
(*                                                                         *)
(*   posix           a thread for each timer, cancelled and joined         *)
(*   posix_freertos  the FreeRTOS timer daemon, which any command wakes    *)
(*                   and no task preempts: one core, highest priority      *)
(*   esp32           the same code, a daemon of the lowest priority, two   *)
(*                   cores                                                 *)
(*   pico            the SDK's timer interrupt, on the caller's own core   *)
(*   pico_freertos   the same code, the caller on either core              *)
(*                                                                         *)
(* A behaviour is on one port.  The caller is the event loop, entering and *)
(* leaving TEMPO_SYNCED: it sets a timer where a handle is NULL.           *)
(***************************************************************************)
EXTENDS Naturals, Sequences, FiniteSets

CONSTANTS
  Ports,         \* of the five above
  Handles,       \* the static hal_alarm_t pointers of the state manager
  NULL,
  max_retries,   \* 3 in the code
  CommandQueue,  \* configTIMER_QUEUE_LENGTH, 10 in the code
  MaxAlarms      \* bound: timers set in one behaviour

ASSUME RepeatingTimersAssumption ==
  /\ Ports \subseteq {"posix", "posix_freertos", "esp32", "pico", "pico_freertos"}
  /\ max_retries \in Nat
  /\ CommandQueue \in Nat \ {0}
  /\ MaxAlarms \in Nat

\* Structs hal_alarm, in the order they are allocated.
Ids == 1 .. MaxAlarms

VARIABLES
  port,
  set,         \* structs allocated so far
  handle,      \* what each handle points to
  freed,       \* structs freed
  caller,      \* where the event loop is in the two functions
  target,      \* the struct it is at
  timer,       \* thread, FreeRTOS timer or SDK alarm of each struct
  cancelled,   \* pthread_cancel, or cancel_alarm while the callback runs
  commands,    \* to the timer daemon
  daemon,      \* "check" for timers that expired or "drain" the commands
  retries,     \* in sendall
  blocks,      \* of memory the request under way holds
  leaked,      \* not in the code: blocks nobody will free
  late         \* not in the code: callbacks begun with a freed struct

callerVars == <<set, handle, freed, caller, target>>
requestVars == <<retries, blocks>>
ghosts == <<leaked, late>>
vars == <<port, callerVars, timer, cancelled, commands, daemon, requestVars, ghosts>>

Threads == port = "posix"
Daemon  == port \in {"posix_freertos", "esp32"}
Irq     == port \in {"pico", "pico_freertos"}

InCallback(id) == timer[id] \in {"called", "sending", "release"}
Busy == \E id \in Ids : InCallback(id)

\* Where callbacks take precedence over the caller, it finds none under way.
CallerRuns ==
  /\ port = "pico" => ~Busy
  /\ port = "posix_freertos" => ~Busy /\ daemon = "check" /\ commands = <<>>

Init ==
  /\ port \in Ports
  /\ set = 0 /\ handle = [h \in Handles |-> NULL] /\ freed = {}
  /\ caller = "ready" /\ target = 0
  /\ timer = [id \in Ids |-> "none"]
  /\ cancelled = {}
  /\ commands = <<>> /\ daemon = "check"
  /\ retries = [id \in Ids |-> 0] /\ blocks = [id \in Ids |-> 0]
  /\ leaked = 0 /\ late = [id \in Ids |-> 0]

-------------------------------------------------------------------------------
(* The caller. *)

\* Threads and SDK alarms start at once, a FreeRTOS timer on command.
hal_add_repeating_timer(h) ==
  /\ CallerRuns /\ caller = "ready"
  /\ handle[h] = NULL /\ set < MaxAlarms
  /\ set' = set + 1
  /\ handle' = [handle EXCEPT ![h] = set']
  /\ target' = set'
  /\ IF Daemon
     THEN caller' = "start" /\ UNCHANGED timer
     ELSE timer' = [timer EXCEPT ![set'] = "armed"] /\ UNCHANGED caller
  /\ UNCHANGED <<port, freed, cancelled, commands, daemon, requestVars, ghosts>>

\* The SDK has no alarm left: the struct is freed and the handle stays NULL.
AddFails(h) ==
  /\ CallerRuns /\ caller = "ready" /\ Irq
  /\ handle[h] = NULL /\ set < MaxAlarms
  /\ set' = set + 1
  /\ freed' = freed \cup {set'}
  /\ UNCHANGED <<port, handle, caller, target, timer, cancelled, commands, daemon,
                 requestVars, ghosts>>

\* MUTANT of Told: the thread is joined but not told to end.
JoinOnly == IF Irq THEN {target'} ELSE {}

\* Who is told to end at once.
Told == IF Threads \/ Irq THEN {target'} ELSE {}

\* MUTANT of AfterTelling: the thread is not waited for.
FreeAtOnce == IF Daemon THEN "stop" ELSE "free"

AfterTelling == IF Daemon THEN "stop" ELSE IF Threads THEN "join" ELSE "free"

\* hal_cancel_repeating_timer, to its first wait.  An SDK alarm that is not in
\* its callback is gone; the other will not be set again.
hal_cancel_repeating_timer(h) ==
  /\ CallerRuns /\ caller = "ready"
  /\ handle[h] # NULL
  /\ target' = handle[h]
  /\ handle' = [handle EXCEPT ![h] = NULL]
  /\ cancelled' = cancelled \cup Told
  /\ timer' = IF Irq /\ ~InCallback(target')
              THEN [timer EXCEPT ![target'] = "gone"] ELSE timer
  /\ caller' = AfterTelling
  /\ UNCHANGED <<port, set, freed, commands, daemon, requestVars, ghosts>>

Join ==
  /\ caller = "join" /\ timer[target] = "gone"
  /\ caller' = "free"
  /\ UNCHANGED <<port, set, handle, freed, target, timer, cancelled, commands, daemon,
                 requestVars, ghosts>>

After == [start |-> "ready", stop |-> "delete", delete |-> "free"]

\* xTimerStart, xTimerStop, xTimerDelete: portMAX_DELAY is for as long as the
\* daemon's queue is full.
Command ==
  /\ CallerRuns /\ caller \in DOMAIN After
  /\ Len(commands) < CommandQueue
  /\ commands' = Append(commands, [op |-> caller, id |-> target])
  /\ caller' = After[caller]
  /\ UNCHANGED <<port, set, handle, freed, target, timer, cancelled, daemon,
                 requestVars, ghosts>>

Free ==
  /\ CallerRuns /\ caller = "free"
  /\ freed' = freed \cup {target}
  /\ caller' = "ready"
  /\ UNCHANGED <<port, set, handle, target, timer, cancelled, commands, daemon,
                 requestVars, ghosts>>

-------------------------------------------------------------------------------
(* The threads, the daemon and the interrupt. *)

\* A period is over: usleep returns, the daemon finds the timer expired, or the
\* interrupt comes.  Daemon and interrupt run one callback at a time.  On the Pico the
\* SDK's choice of a timer is the begin of its callback: if the other core (under
\* FreeRTOS) frees the struct before it is first read, a callback was under way.
Call(id) ==
  /\ timer[id] = "armed"
  /\ Threads => id \notin cancelled
  /\ ~Threads => ~Busy
  /\ Daemon => daemon = "check"
  /\ timer' = [timer EXCEPT ![id] = "called"]
  /\ late' = [late EXCEPT ![id] = IF id \in freed THEN @ + 1 ELSE @]
  /\ UNCHANGED <<port, callerVars, cancelled, commands, daemon, requestVars, leaked>>

\* send_udp_request: a request and its payload.  Without memory nothing is sent.
Allocate(id) ==
  /\ timer[id] = "called"
  /\ \/ timer' = [timer EXCEPT ![id] = "sending"] /\ blocks' = [blocks EXCEPT ![id] = 2]
     \/ /\ timer' = [timer EXCEPT ![id] = "release"]
        /\ \E b \in {0, 1} : blocks' = [blocks EXCEPT ![id] = b]
  /\ UNCHANGED <<port, callerVars, cancelled, commands, daemon, retries, ghosts>>

\* MUTANT of MayRetry: one retry too many.
MayRetryOnceMore(id) == retries[id] <= max_retries

MayRetry(id) == retries[id] < max_retries

\* sendto would have to wait.  lwIP's udp_sendto never does.
Retry(id) ==
  /\ timer[id] = "sending" /\ ~Irq
  /\ Threads => id \notin cancelled
  /\ MayRetry(id)
  /\ retries' = [retries EXCEPT ![id] = @ + 1]
  /\ UNCHANGED <<port, callerVars, timer, cancelled, commands, daemon, blocks, ghosts>>

\* The datagram is sent, or is given up: both are followed by the same steps.
Sent(id) ==
  /\ timer[id] = "sending"
  /\ Threads => id \notin cancelled
  /\ timer' = [timer EXCEPT ![id] = "release"]
  /\ UNCHANGED <<port, callerVars, cancelled, commands, daemon, requestVars, ghosts>>

\* MUTANT of Unreleased: the payload is forgotten.
PayloadForgotten(id) == IF blocks[id] = 2 THEN 1 ELSE 0

\* What send_udp_request does not free.
Unreleased(id) == 0

\* Both blocks are freed and the callback returns.
Return(id) ==
  /\ timer[id] = "release"
  /\ leaked' = leaked + Unreleased(id)
  /\ blocks' = [blocks EXCEPT ![id] = 0] /\ retries' = [retries EXCEPT ![id] = 0]
  /\ timer' = [timer EXCEPT ![id] = IF Irq /\ id \in cancelled THEN "gone" ELSE "armed"]
  /\ daemon' = IF Daemon THEN "drain" ELSE daemon
  /\ UNCHANGED <<port, callerVars, cancelled, commands, late>>

\* sendto and usleep are cancellation points, and so is printf before them.
Die(id) ==
  /\ Threads /\ id \in cancelled
  /\ timer[id] \in {"armed", "called", "sending"}
  /\ timer' = [timer EXCEPT ![id] = "gone"]
  /\ leaked' = leaked + blocks[id]
  /\ blocks' = [blocks EXCEPT ![id] = 0]
  /\ UNCHANGED <<port, callerVars, cancelled, commands, daemon, retries, late>>

\* Between two looks at the timers the daemon empties its queue.
Drain ==
  /\ Daemon /\ ~Busy
  /\ IF commands = <<>>
     THEN daemon = "drain" /\ daemon' = "check" /\ UNCHANGED <<commands, timer>>
     ELSE /\ daemon' = "drain"
          /\ commands' = Tail(commands)
          /\ timer' = [timer EXCEPT ![Head(commands).id] =
                         CASE Head(commands).op = "start"  -> "armed"
                           [] Head(commands).op = "stop"   -> "stopped"
                           [] Head(commands).op = "delete" -> "gone"]
  /\ UNCHANGED <<port, callerVars, cancelled, requestVars, ghosts>>

CallbackStep(id) ==
  Call(id) \/ Allocate(id) \/ Retry(id) \/ Sent(id) \/ Return(id) \/ Die(id)

Next ==
  \/ \E h \in Handles :
       hal_add_repeating_timer(h) \/ AddFails(h) \/ hal_cancel_repeating_timer(h)
  \/ Join \/ Command \/ Free
  \/ \E id \in Ids : CallbackStep(id)
  \/ Drain

Spec == Init /\ [][Next]_vars

\* Threads, tasks and interrupts run when they can, and callbacks leave the
\* caller time; sendto need not succeed.
Fairness ==
  /\ WF_vars(Join) /\ WF_vars(Drain)
  /\ SF_vars(Command) /\ SF_vars(Free)
  /\ \A id \in Ids :
       /\ WF_vars(Allocate(id)) /\ WF_vars(Retry(id) \/ Sent(id))
       /\ WF_vars(Return(id)) /\ WF_vars(Die(id))

FairSpec == Spec /\ Fairness

-------------------------------------------------------------------------------
(***************************************************************************)
(* Properties.                                                             *)
(***************************************************************************)

TypeOK ==
  /\ port \in Ports
  /\ set \in 0 .. MaxAlarms
  /\ handle \in [Handles -> Ids \cup {NULL}]
  /\ freed \subseteq Ids /\ cancelled \subseteq Ids
  /\ caller \in {"ready", "start", "stop", "delete", "join", "free"}
  /\ target \in 0 .. MaxAlarms
  /\ timer \in [Ids -> {"none", "armed", "called", "sending", "release", "stopped", "gone"}]
  /\ commands \in Seq([op : {"start", "stop", "delete"}, id : Ids])
  /\ Len(commands) <= CommandQueue
  /\ daemon \in {"check", "drain"}
  /\ retries \in [Ids -> 0 .. max_retries]
  /\ blocks \in [Ids -> 0 .. 2]
  /\ leaked \in Nat
  /\ late \in [Ids -> Nat]

(***************************************************************************)
(* A struct is not freed while its callback runs, nor a callback begun with*)
(* a freed one: exit_tempo_synced may cancel at any moment and has, in     *)
(* test_alarm's words, "no more increments after cancel".  The two ports   *)
(* where the caller overtakes the callbacks do not keep this: there one    *)
(* call at most is begun too late, and on the Pico none.                   *)
(***************************************************************************)
Overtaken == port \in {"esp32", "pico_freertos"}

AlarmOutlivesCallback ==
  \A id \in Ids :
    IF Overtaken THEN late[id] <= (IF Daemon THEN 1 ELSE 0)
                 ELSE id \in freed => ~InCallback(id) /\ late[id] = 0

(***************************************************************************)
(* send_udp_request frees what it allocates however it goes.  Only a thread*)
(* cancelled in the middle of it takes the request with it, and that once: *)
(* so much memory for a timer, and the controller may cancel three timers  *)
(* each time it re-enters TEMPO_SYNCED.                                    *)
(***************************************************************************)
LeaksAreCancelledRequests ==
  LET killed == {id \in cancelled : Threads /\ timer[id] = "gone"}
  IN  /\ leaked <= 2 * Cardinality(killed)
      /\ \A id \in Ids : blocks[id] > 0 => InCallback(id)

(***************************************************************************)
(* The event loop comes back from setting or cancelling a timer, although  *)
(* it waits for a thread or for the daemon's queue and although the send   *)
(* the thread is in may be tried again.                                    *)
(***************************************************************************)
CancelReturns == caller # "ready" ~> caller = "ready"

===============================================================================
