------------------------------ MODULE Hal_proofs ------------------------------
(***************************************************************************)
(* What is behind the HAL's functions, on all its ports: first timers, then*)
(* start-up.                                                               *)
(*                                                                         *)
(* Timers cancelled at any moment, on every port, for any number of timers,*)
(* handles and retries and any length of the daemon's queue: a struct is   *)
(* not freed under its callback, and only a cancelled thread loses memory. *)
(*                                                                         *)
(* Each port has a reason of its own, and an invariant for it: a thread has*)
(* ended before its struct is freed (ThreadsEnd); an SDK alarm that is     *)
(* cancelled is not armed again (AlarmsEnd); what the daemon has not been  *)
(* told yet waits in its queue, in order, with nothing about a timer behind*)
(* its deletion (DaemonKnows).                                             *)
(***************************************************************************)
EXTENDS RepeatingTimers, Startup, FiniteSetTheorems, SequenceTheorems, TLAPS

-------------------------------------------------------------------------------
(* The invariant. *)

Targeted == caller # "ready" => target \in Ids

\* Who has which struct.
Owned ==
  /\ \A id \in Ids : id > set => timer[id] = "none" /\ id \notin freed \cup cancelled
  /\ \A h \in Handles : handle[h] # NULL =>
       /\ handle[h] <= set /\ handle[h] \notin freed \cup cancelled
       /\ caller \notin {"ready", "start"} => handle[h] # target
  /\ \A g, h \in Handles : handle[g] = handle[h] /\ handle[h] # NULL => g = h
  /\ caller # "ready" => target <= set /\ target \notin freed

\* Each port has its own steps of the caller, and only the daemon commands.
OnPort ==
  /\ caller \in {"start", "stop", "delete"} => Daemon
  /\ caller = "join" => Threads
  /\ commands # <<>> => Daemon
  /\ cancelled # {} => ~Daemon

ThreadsEnd ==
  Threads =>
    /\ \A id \in freed : timer[id] = "gone"
    /\ caller = "free" => timer[target] = "gone"

AlarmsEnd ==
  Irq =>
    /\ \A id \in cancelled : timer[id] = "gone" \/ (InCallback(id) /\ port # "pico")
    /\ \A id \in freed : id \in cancelled \/ timer[id] = "none"
    /\ caller = "free" => target \in cancelled

Queued(id) == \E i \in 1 .. Len(commands) : commands[i].id = id
DeleteQueued(id) ==
  \E i \in 1 .. Len(commands) : commands[i].id = id /\ commands[i].op = "delete"
Leaving(id) == timer[id] = "gone" \/ DeleteQueued(id)

DaemonKnows ==
  Daemon =>
    /\ \A id \in Ids : timer[id] = "gone" \/ id > set => ~Queued(id)
    /\ \A i, j \in 1 .. Len(commands) :
         i < j /\ commands[i].op = "delete" => commands[j].id # commands[i].id
    /\ caller \in DOMAIN After => ~Leaving(target)
    /\ \A h \in Handles : handle[h] # NULL => ~Leaving(handle[h])
    /\ \A id \in freed : Leaving(id) /\ (port = "posix_freertos" => timer[id] = "gone")
    /\ caller = "free" => Leaving(target)

\* The call begun with a freed struct is the last before the daemon looks at
\* its commands, and the deletion is among them.
LateOnce ==
  /\ port # "esp32" => \A id \in Ids : late[id] = 0
  /\ \A id \in Ids : late[id] > 0 =>
       /\ late[id] = 1 /\ id \in freed
       /\ timer[id] = "armed" => daemon = "drain"

Killed == {id \in cancelled : Threads /\ timer[id] = "gone"}

LeakInv ==
  /\ leaked <= 2 * Cardinality(Killed)
  /\ \A id \in Ids : blocks[id] > 0 => InCallback(id)

TimersInv ==
  /\ TypeOK /\ Targeted /\ Owned /\ OnPort
  /\ ThreadsEnd /\ AlarmsEnd /\ DaemonKnows /\ LateOnce /\ LeakInv

-------------------------------------------------------------------------------
(* Types. *)

Commands == [op : {"start", "stop", "delete"}, id : Ids]

\* What taking the first command off the daemon's queue leaves.
LEMMA Drained ==
  ASSUME TypeOK, commands # <<>>
  PROVE  /\ Len(commands) \in Nat \ {0} /\ commands[1] = Head(commands)
         /\ Head(commands) \in Commands /\ Tail(commands) \in Seq(Commands)
         /\ Len(Tail(commands)) = Len(commands) - 1
         /\ \A i \in 1 .. Len(Tail(commands)) : Tail(commands)[i] = commands[i + 1]
<1>1. commands \in Seq(Commands)
  BY DEF TypeOK, Commands
<1>2. Len(commands) \in Nat \ {0} /\ commands[1] = Head(commands)
  BY <1>1
<1> QED BY <1>1, <1>2, HeadTailProperties

\* And what a command of the caller's adds to it.
LEMMA Commanded ==
  ASSUME TypeOK, Targeted, Command
  PROVE  /\ target \in Ids /\ Len(commands) \in Nat
         /\ commands' \in Seq(Commands) /\ Len(commands') = Len(commands) + 1
         /\ \A i \in 1 .. Len(commands) : commands'[i] = commands[i]
         /\ commands'[Len(commands) + 1] = [op |-> caller, id |-> target]
<1>1. commands \in Seq(Commands) /\ target \in Ids /\ caller \in {"start", "stop", "delete"}
  BY DEF TypeOK, Commands, Targeted, Command, After
<1>2. [op |-> caller, id |-> target] \in Commands
  BY <1>1 DEF Commands
<1>3. commands' = Append(commands, [op |-> caller, id |-> target])
  BY DEF Command
<1> QED BY <1>1, <1>2, <1>3, AppendProperties

LEMMA TypeInit == Init => TypeOK /\ Targeted
<1> SUFFICES ASSUME Init PROVE TypeOK /\ Targeted
  OBVIOUS
<1>1. commands = <<>> /\ commands \in Seq([op : {"start", "stop", "delete"}, id : Ids])
  BY DEF Init
<1>2. Len(commands) <= CommandQueue /\ set \in 0 .. MaxAlarms /\ target \in 0 .. MaxAlarms
  BY <1>1, RepeatingTimersAssumption DEF Init
<1>3. /\ retries \in [Ids -> 0 .. max_retries] /\ blocks \in [Ids -> 0 .. 2]
      /\ late \in [Ids -> Nat] /\ leaked \in Nat
  BY RepeatingTimersAssumption DEF Init
<1> QED BY <1>1, <1>2, <1>3 DEF Init, TypeOK, Targeted

LEMMA CallerType ==
  ASSUME TypeOK, Targeted, NEW h \in Handles,
         hal_add_repeating_timer(h) \/ AddFails(h) \/ hal_cancel_repeating_timer(h)
  PROVE  TypeOK' /\ Targeted'
<1>1. CASE hal_add_repeating_timer(h)
  <2>1. set' \in Ids /\ set' \in 0 .. MaxAlarms
    BY <1>1, RepeatingTimersAssumption DEF hal_add_repeating_timer, TypeOK, Ids
  <2>2. handle' \in [Handles -> Ids \cup {NULL}] /\ target' \in 0 .. MaxAlarms
    BY <1>1, <2>1 DEF hal_add_repeating_timer, TypeOK
  <2>3. timer' \in [Ids -> {"none", "armed", "called", "sending", "release", "stopped", "gone"}]
    BY <1>1, <2>1 DEF hal_add_repeating_timer, TypeOK
  <2>4. caller' \in {"ready", "start"} /\ target' \in Ids
    BY <1>1, <2>1 DEF hal_add_repeating_timer
  <2> QED BY <1>1, <2>1, <2>2, <2>3, <2>4
          DEF hal_add_repeating_timer, TypeOK, Targeted, requestVars, ghosts
<1>2. CASE AddFails(h)
  <2>1. set' \in Ids /\ set' \in 0 .. MaxAlarms
    BY <1>2, RepeatingTimersAssumption DEF AddFails, TypeOK, Ids
  <2> QED BY <1>2, <2>1 DEF AddFails, TypeOK, Targeted, requestVars, ghosts
<1>3. CASE hal_cancel_repeating_timer(h)
  <2>1. target' \in Ids /\ target' \in 0 .. MaxAlarms
    BY <1>3 DEF hal_cancel_repeating_timer, TypeOK, Ids
  <2>2. cancelled' \subseteq Ids
    BY <1>3, <2>1 DEF hal_cancel_repeating_timer, TypeOK, Told
  <2>3. timer' \in [Ids -> {"none", "armed", "called", "sending", "release", "stopped", "gone"}]
    BY <1>3, <2>1 DEF hal_cancel_repeating_timer, TypeOK
  <2>4. handle' \in [Handles -> Ids \cup {NULL}] /\ caller' \in {"stop", "join", "free"}
    BY <1>3 DEF hal_cancel_repeating_timer, TypeOK, AfterTelling
  <2> QED BY <1>3, <2>1, <2>2, <2>3, <2>4
          DEF hal_cancel_repeating_timer, TypeOK, Targeted, requestVars, ghosts
<1> QED BY <1>1, <1>2, <1>3

LEMMA WaitType ==
  ASSUME TypeOK, Targeted, Join \/ Command \/ Free
  PROVE  TypeOK' /\ Targeted'
<1>1. CASE Join
  BY <1>1 DEF Join, TypeOK, Targeted, requestVars, ghosts
<1>2. CASE Command
  <2>1. caller \in DOMAIN After /\ caller # "ready"
    BY <1>2 DEF Command, After
  <2>2. target \in Ids /\ commands' \in Seq(Commands) /\ Len(commands') <= CommandQueue
    BY <1>2, Commanded, RepeatingTimersAssumption DEF Command
  <2>4. caller' \in {"ready", "delete", "free"}
    BY <1>2, <2>1 DEF Command, After
  <2> QED BY <1>2, <2>1, <2>2, <2>4 DEF Command, Commands, TypeOK, Targeted, requestVars, ghosts
<1>3. CASE Free
  BY <1>3 DEF Free, TypeOK, Targeted, requestVars, ghosts
<1> QED BY <1>1, <1>2, <1>3

States == {"none", "armed", "called", "sending", "release", "stopped", "gone"}

LEMMA CallbackType ==
  ASSUME TypeOK, Targeted, NEW id \in Ids, CallbackStep(id)
  PROVE  TypeOK' /\ Targeted'
<1>0. UNCHANGED <<port, callerVars, cancelled, commands>>
  BY DEF CallbackStep, Call, Allocate, Retry, Sent, Return, Die
<1>1. timer' \in [Ids -> States]
  <2>1. timer \in [Ids -> States]
    BY DEF TypeOK, States
  <2>2. timer' = timer \/ \E s \in States : timer' = [timer EXCEPT ![id] = s]
    BY DEF CallbackStep, Call, Allocate, Retry, Sent, Return, Die, States
  <2> QED BY <2>1, <2>2
<1>2. blocks' \in [Ids -> 0 .. 2] /\ leaked' \in Nat
  <2>1. blocks \in [Ids -> 0 .. 2] /\ leaked \in Nat
    BY DEF TypeOK
  <2>2. blocks' = blocks \/ \E b \in 0 .. 2 : blocks' = [blocks EXCEPT ![id] = b]
    BY DEF CallbackStep, Call, Allocate, Retry, Sent, Return, Die, requestVars
  <2>3. leaked' \in {leaked, leaked + 0, leaked + blocks[id]}
    BY DEF CallbackStep, Call, Allocate, Retry, Sent, Return, Die, Unreleased, ghosts
  <2> QED BY <2>1, <2>2, <2>3
<1>3. retries' \in [Ids -> 0 .. max_retries]
  <2>1. retries \in [Ids -> 0 .. max_retries]
    BY DEF TypeOK
  <2>2. CASE Retry(id)
    BY <2>1, <2>2, RepeatingTimersAssumption DEF Retry, MayRetry
  <2>3. CASE Return(id)
    BY <2>1, <2>3, RepeatingTimersAssumption DEF Return
  <2>4. CASE Call(id) \/ Allocate(id) \/ Sent(id) \/ Die(id)
    BY <2>1, <2>4 DEF Call, Allocate, Sent, Die, requestVars
  <2> QED BY <2>2, <2>3, <2>4 DEF CallbackStep
<1>4. late' \in [Ids -> Nat] /\ daemon' \in {"check", "drain"}
  <2>1. late \in [Ids -> Nat] /\ daemon \in {"check", "drain"}
    BY DEF TypeOK
  <2>2. CASE Call(id)
    <3>1. /\ late' = [late EXCEPT ![id] = IF id \in freed THEN @ + 1 ELSE @]
          /\ daemon' = daemon
      BY <2>2 DEF Call
    <3>2. (IF id \in freed THEN late[id] + 1 ELSE late[id]) \in Nat
      BY <2>1
    <3> QED BY <2>1, <3>1, <3>2
  <2>3. CASE ~Call(id)
    BY <2>1, <2>3 DEF CallbackStep, Allocate, Retry, Sent, Return, Die, ghosts
  <2> QED BY <2>2, <2>3
<1> QED BY <1>0, <1>1, <1>2, <1>3, <1>4 DEF TypeOK, Targeted, callerVars, States

LEMMA DrainType ==
  ASSUME TypeOK, Targeted, Drain
  PROVE  TypeOK' /\ Targeted'
<1>1. CASE commands = <<>>
  BY <1>1 DEF Drain, TypeOK, Targeted, callerVars, requestVars, ghosts
<1>2. CASE commands # <<>>
  <2>1. Head(commands) \in Commands
    BY <1>2, Drained
  <2>2. commands' \in Seq(Commands) /\ Len(commands') <= CommandQueue
    <3>1. commands' = Tail(commands)
      BY <1>2 DEF Drain
    <3>2. Len(commands) <= CommandQueue
      BY DEF TypeOK
    <3> QED BY <1>2, <3>1, <3>2, Drained, RepeatingTimersAssumption
  <2>3. timer' \in [Ids -> States]
    <3>1. timer \in [Ids -> States] /\ Head(commands).op \in {"start", "stop", "delete"}
      BY <2>1 DEF TypeOK, States, Commands
    <3>2. \E s \in States : timer' = [timer EXCEPT ![Head(commands).id] = s]
      BY <1>2, <3>1 DEF Drain, States
    <3> QED BY <3>1, <3>2
  <2>4. daemon' \in {"check", "drain"}
    BY <1>2 DEF Drain
  <2> QED BY <2>2, <2>3, <2>4
          DEF Drain, TypeOK, Targeted, callerVars, requestVars, ghosts, States, Commands
<1> QED BY <1>1, <1>2

LEMMA TypeStep == TypeOK /\ Targeted /\ [Next]_vars => TypeOK' /\ Targeted'
<1> SUFFICES ASSUME TypeOK, Targeted, [Next]_vars PROVE TypeOK' /\ Targeted'
  OBVIOUS
<1>1. CASE UNCHANGED vars
  BY <1>1 DEF vars, TypeOK, Targeted, callerVars, requestVars, ghosts
<1> QED BY <1>1, CallerType, WaitType, CallbackType, DrainType DEF Next

-------------------------------------------------------------------------------
(* The rest of the invariant, a lemma for each part. *)

LEMMA InitRest ==
  ASSUME Init
  PROVE  Owned /\ OnPort /\ ThreadsEnd /\ AlarmsEnd /\ DaemonKnows /\ LateOnce /\ LeakInv
<1>1. Owned
  BY DEF Init, Owned
<1>2. OnPort /\ ThreadsEnd /\ AlarmsEnd
  BY DEF Init, OnPort, ThreadsEnd, AlarmsEnd
<1>3. DaemonKnows
  BY DEF Init, DaemonKnows, Queued, Leaving, DeleteQueued, After
<1>4. LateOnce
  BY DEF Init, LateOnce
<1>5. LeakInv
  <2>1. Killed = {}
    BY DEF Init, Killed
  <2> QED BY <2>1, FS_EmptySet DEF Init, LeakInv
<1> QED BY <1>1, <1>2, <1>3, <1>4, <1>5

\* All that a callback does to the timers: it takes its own from one state in
\* or before the callback to the next, or ends it where it was told to end.
LEMMA CallbackTimer ==
  ASSUME TypeOK, NEW id \in Ids, CallbackStep(id)
  PROVE  /\ timer[id] \in {"armed", "called", "sending", "release"}
         /\ \E s \in {"armed", "called", "sending", "release", "gone"} :
              /\ timer' = [timer EXCEPT ![id] = s]
              /\ s = "gone" => ~Daemon /\ id \in cancelled
              /\ s = "armed" => ~(Irq /\ id \in cancelled)
              /\ s = "armed" \/ timer[id] = "armed" => s = "gone" \/ Call(id) \/ Return(id)
         /\ UNCHANGED <<port, callerVars, cancelled, commands>>
<1>1. /\ timer[id] \in {"armed", "called", "sending", "release"}
      /\ UNCHANGED <<port, callerVars, cancelled, commands>>
  BY DEF CallbackStep, Call, Allocate, Retry, Sent, Return, Die
<1>2. CASE Call(id)
  BY <1>2 DEF Call
<1>3. CASE Allocate(id)
  BY <1>3 DEF Allocate
<1>4. CASE Retry(id)
  <2>1. timer' = [timer EXCEPT ![id] = "sending"]
    BY <1>4 DEF Retry, TypeOK
  <2> QED BY <2>1, <1>4, <1>1 DEF Retry
<1>5. CASE Sent(id)
  BY <1>5 DEF Sent
<1>6. CASE Return(id)
  BY <1>6 DEF Return, Irq, Daemon
<1>7. CASE Die(id)
  BY <1>7 DEF Die, Threads, Daemon
<1> QED BY <1>1, <1>2, <1>3, <1>4, <1>5, <1>6, <1>7 DEF CallbackStep

LEMMA OwnedStep ==
  ASSUME TimersInv, [Next]_vars
  PROVE  Owned'
<1> USE DEF TimersInv
<1>1. ASSUME NEW h \in Handles, hal_add_repeating_timer(h)
      PROVE  Owned'
  <2>1. set' = set + 1 /\ set' \in Ids /\ set \in Nat
    BY <1>1, RepeatingTimersAssumption DEF hal_add_repeating_timer, TypeOK, Ids
  <2>2. \A id \in Ids : id > set' => timer'[id] = "none" /\ id \notin freed' \cup cancelled'
    <3>1. \A id \in Ids : id # set' => timer'[id] = timer[id]
      BY <1>1, <2>1 DEF hal_add_repeating_timer, TypeOK
    <3> QED BY <1>1, <2>1, <3>1 DEF hal_add_repeating_timer, Owned, Ids
  <2>3. \A g \in Handles : handle'[g] = IF g = h THEN set' ELSE handle[g]
    BY <1>1 DEF hal_add_repeating_timer, TypeOK
  <2>4. \A g \in Handles : handle[g] # NULL => handle[g] \in Ids /\ handle[g] <= set
    BY DEF TypeOK, Owned
  <2>5. set' \notin freed \cup cancelled
    BY <2>1 DEF Owned
  <2>6. caller' \in {"ready", "start"} /\ target' = set' /\ UNCHANGED <<freed, cancelled>>
    BY <1>1 DEF hal_add_repeating_timer
  <2> QED BY <2>1, <2>2, <2>3, <2>4, <2>5, <2>6 DEF Owned, Ids
<1>2. ASSUME NEW h \in Handles, AddFails(h)
      PROVE  Owned'
  <2>1. set' = set + 1 /\ set' \in Ids /\ set \in Nat
    BY <1>2, RepeatingTimersAssumption DEF AddFails, TypeOK, Ids
  <2>2. \A g \in Handles : handle[g] # NULL => handle[g] \in Ids /\ handle[g] <= set
    BY DEF TypeOK, Owned
  <2> QED BY <1>2, <2>1, <2>2 DEF AddFails, Owned, Ids
<1>3. ASSUME NEW h \in Handles, hal_cancel_repeating_timer(h)
      PROVE  Owned'
  <2>1. /\ target' = handle[h] /\ handle[h] # NULL /\ handle[h] \in Ids
        /\ cancelled' \subseteq cancelled \cup {target'}
        /\ UNCHANGED <<set, freed>>
    BY <1>3 DEF hal_cancel_repeating_timer, TypeOK, Told
  <2>2. \A g \in Handles : handle'[g] = IF g = h THEN NULL ELSE handle[g]
    BY <1>3 DEF hal_cancel_repeating_timer, TypeOK
  <2>3. \A id \in Ids : id # target' => timer'[id] = timer[id]
    BY <1>3 DEF hal_cancel_repeating_timer, TypeOK
  <2>4. \A id \in Ids : id > set' => timer'[id] = "none" /\ id \notin freed' \cup cancelled'
    <3>1. set \in Nat /\ ~(target' > set)
      BY <2>1, RepeatingTimersAssumption DEF Owned, TypeOK, Ids
    <3> QED BY <2>1, <2>3, <3>1 DEF Owned
  <2>5. \A g \in Handles : handle'[g] # NULL => g # h /\ handle'[g] # target'
    BY <2>1, <2>2 DEF Owned
  <2> QED BY <2>1, <2>2, <2>4, <2>5 DEF Owned
<1>4. CASE Join \/ Command \/ Free
  <2>1. /\ UNCHANGED <<set, handle, target, timer, cancelled>>
        /\ freed' \subseteq freed \cup {target} /\ caller # "ready"
        /\ caller' # "ready" => freed' = freed
    BY <1>4 DEF Join, Command, Free, After
  <2>2. caller' \notin {"ready", "start"} => caller \notin {"ready", "start"}
    BY <1>4 DEF Join, Command, Free, After
  <2>3. target \in Ids /\ target <= set /\ set \in Nat
    BY <2>1, RepeatingTimersAssumption DEF Targeted, Owned, TypeOK
  <2>4. freed' # freed => caller = "free"
    BY <1>4 DEF Join, Command, Free
  <2> QED BY <2>1, <2>2, <2>3, <2>4 DEF Owned, Ids
<1>5. ASSUME NEW id \in Ids, CallbackStep(id)
      PROVE  Owned'
  <2>1. timer[id] # "none" /\ UNCHANGED <<set, handle, freed, caller, target, cancelled>>
    BY <1>5, CallbackTimer DEF callerVars
  <2>2. \A i \in Ids : i # id => timer'[i] = timer[i]
    BY <1>5, CallbackTimer DEF TypeOK
  <2> QED BY <2>1, <2>2 DEF Owned
<1>6. CASE Drain
  <2>1. UNCHANGED <<set, handle, freed, caller, target, cancelled>>
    BY <1>6 DEF Drain, callerVars
  <2>2. \A id \in Ids : timer'[id] # timer[id] => Queued(id) /\ Daemon
    <3>1. CASE commands = <<>>
      BY <1>6, <3>1 DEF Drain
    <3>2. CASE commands # <<>>
      <4>1. \A id \in Ids : timer'[id] # timer[id] => id = Head(commands).id
        BY <1>6, <3>2 DEF Drain, TypeOK
      <4>2. Head(commands) = commands[1] /\ 1 \in 1 .. Len(commands)
        BY <3>2, Drained
      <4> QED BY <1>6, <4>1, <4>2 DEF Queued, Drain
    <3> QED BY <3>1, <3>2
  <2> QED BY <2>1, <2>2 DEF Owned, DaemonKnows
<1>7. CASE UNCHANGED vars
  BY <1>7 DEF vars, callerVars, Owned
<1> QED BY <1>1, <1>2, <1>3, <1>4, <1>5, <1>6, <1>7 DEF Next

LEMMA SamePort == [Next]_vars => port' = port
BY DEF Next, hal_add_repeating_timer, AddFails, hal_cancel_repeating_timer, Join, Command,
       Free, CallbackStep, Call, Allocate, Retry, Sent, Return, Die, Drain, vars

LEMMA OnPortStep ==
  ASSUME TimersInv, [Next]_vars
  PROVE  OnPort'
<1> USE DEF TimersInv
<1>0. port' = port
  BY SamePort
<1>1. ASSUME NEW h \in Handles, hal_add_repeating_timer(h) \/ AddFails(h)
      PROVE  OnPort'
  BY <1>0, <1>1 DEF hal_add_repeating_timer, AddFails, OnPort, Daemon, Threads
<1>2. ASSUME NEW h \in Handles, hal_cancel_repeating_timer(h)
      PROVE  OnPort'
  BY <1>0, <1>2 DEF hal_cancel_repeating_timer, OnPort, Daemon, Threads, Irq, AfterTelling, Told
<1>3. CASE Join \/ Command \/ Free
  BY <1>0, <1>3 DEF Join, Command, Free, OnPort, Daemon, Threads, After
<1>4. ASSUME NEW id \in Ids, CallbackStep(id)
      PROVE  OnPort'
  BY <1>0, <1>4, CallbackTimer DEF OnPort, Daemon, Threads, callerVars
<1>5. CASE Drain
  BY <1>0, <1>5 DEF Drain, OnPort, Daemon, Threads, callerVars
<1>6. CASE UNCHANGED vars
  BY <1>6 DEF vars, callerVars, OnPort, Daemon, Threads
<1> QED BY <1>1, <1>2, <1>3, <1>4, <1>5, <1>6 DEF Next

\* A timer that is gone stays so, whoever moves.
LEMMA GoneStays ==
  ASSUME TimersInv, [Next]_vars, NEW id \in Ids, timer[id] = "gone"
  PROVE  timer'[id] = "gone"
<1> USE DEF TimersInv
<1>1. ASSUME NEW h \in Handles, hal_add_repeating_timer(h)
      PROVE  timer'[id] = "gone"
  <2>1. id # set'
    BY <1>1, RepeatingTimersAssumption DEF hal_add_repeating_timer, TypeOK, Owned, Ids
  <2> QED BY <1>1, <2>1 DEF hal_add_repeating_timer, TypeOK
<1>2. ASSUME NEW h \in Handles, AddFails(h) \/ hal_cancel_repeating_timer(h)
      PROVE  timer'[id] = "gone"
  BY <1>2 DEF AddFails, hal_cancel_repeating_timer, TypeOK
<1>3. CASE Join \/ Command \/ Free \/ UNCHANGED vars
  BY <1>3 DEF Join, Command, Free, vars
<1>4. ASSUME NEW i \in Ids, CallbackStep(i)
      PROVE  timer'[id] = "gone"
  <2>1. i # id
    BY <1>4, CallbackTimer
  <2> QED BY <1>4, <2>1, CallbackTimer DEF TypeOK
<1>5. CASE Drain
  <2>1. CASE commands = <<>>
    BY <1>5, <2>1 DEF Drain
  <2>2. CASE commands # <<>>
    <3>1. Head(commands) = commands[1] /\ 1 \in 1 .. Len(commands)
      BY <2>2, Drained
    <3>2. id # Head(commands).id
      BY <1>5, <3>1 DEF Drain, DaemonKnows, Queued
    <3> QED BY <1>5, <2>2, <3>2 DEF Drain, TypeOK
  <2> QED BY <2>1, <2>2
<1> QED BY <1>1, <1>2, <1>3, <1>4, <1>5 DEF Next

\* What a step may free: the target, at the end of a cancellation, or a struct
\* for which there was no alarm.
LEMMA WhoIsFreed ==
  ASSUME TimersInv, [Next]_vars, NEW id \in freed', id \notin freed
  PROVE  \/ Free /\ id = target
         \/ /\ \E h \in Handles : AddFails(h)
            /\ id = set' /\ id \in Ids /\ id > set /\ timer[id] = "none" /\ timer' = timer
<1> USE DEF TimersInv
<1>1. ASSUME NEW h \in Handles, AddFails(h)
      PROVE  id = set' /\ id \in Ids /\ id > set /\ timer[id] = "none" /\ timer' = timer
  BY <1>1, RepeatingTimersAssumption DEF AddFails, TypeOK, Owned, Ids
<1>2. ASSUME NEW h \in Handles, hal_add_repeating_timer(h) \/ hal_cancel_repeating_timer(h)
      PROVE  FALSE
  BY <1>2 DEF hal_add_repeating_timer, hal_cancel_repeating_timer
<1>3. CASE Join \/ Command \/ Drain \/ UNCHANGED vars
  BY <1>3 DEF Join, Command, Drain, vars, callerVars
<1>4. ASSUME NEW i \in Ids, CallbackStep(i)
      PROVE  FALSE
  BY <1>4, CallbackTimer DEF callerVars
<1>5. CASE Free
  BY <1>5 DEF Free
<1> QED BY <1>1, <1>2, <1>3, <1>4, <1>5 DEF Next

LEMMA ThreadsEndStep ==
  ASSUME TimersInv, [Next]_vars
  PROVE  ThreadsEnd'
<1> USE DEF TimersInv
<1> SUFFICES ASSUME Threads
             PROVE  /\ \A id \in freed' : timer'[id] = "gone"
                    /\ caller' = "free" => timer'[target'] = "gone"
  BY SamePort DEF ThreadsEnd, Threads
<1>1. ASSUME NEW id \in freed'
      PROVE  timer'[id] = "gone"
  <2>1. CASE id \in freed
    <3>1. id \in Ids /\ timer[id] = "gone"
      BY <2>1 DEF ThreadsEnd, TypeOK
    <3> QED BY <3>1, GoneStays
  <2>2. CASE id \notin freed
    <3>1. Free /\ id = target
      BY <2>2, WhoIsFreed DEF AddFails, Irq, Threads
    <3> QED BY <3>1 DEF Free, ThreadsEnd
  <2> QED BY <2>1, <2>2
<1>2. ASSUME caller' = "free"
      PROVE  timer'[target'] = "gone"
  <2>1. CASE Join
    BY <2>1 DEF Join
  <2>2. ASSUME NEW h \in Handles, hal_cancel_repeating_timer(h)
        PROVE  FALSE
    BY <1>2, <2>2 DEF hal_cancel_repeating_timer, AfterTelling, Threads, Daemon
  <2>3. ~Command
    BY DEF Command, After, OnPort, Daemon, Threads
  <2>4. CASE caller = "free" /\ target' = target
    <3>1. target \in Ids /\ timer[target] = "gone"
      BY <2>4 DEF Targeted, ThreadsEnd
    <3> QED BY <2>4, <3>1, GoneStays
  <2>5. Join \/ (\E h \in Handles : hal_cancel_repeating_timer(h)) \/ Command
          \/ (caller = "free" /\ target' = target)
    BY <1>2, CallbackTimer DEF Next, hal_add_repeating_timer, AddFails, Free, Drain, vars, callerVars
  <2> QED BY <2>1, <2>2, <2>3, <2>4, <2>5
<1> QED BY <1>1, <1>2

LEMMA AlarmsEndStep ==
  ASSUME TimersInv, [Next]_vars
  PROVE  AlarmsEnd'
<1> USE DEF TimersInv
<1> SUFFICES ASSUME Irq PROVE AlarmsEnd'
  BY SamePort DEF AlarmsEnd, Irq
<1>0. ~Threads /\ ~Daemon
  BY DEF Irq, Threads, Daemon
<1>1. ASSUME NEW h \in Handles, hal_add_repeating_timer(h)
      PROVE  AlarmsEnd'
  <2>1. set' \in Ids /\ set' > set
    BY <1>1, RepeatingTimersAssumption DEF hal_add_repeating_timer, TypeOK, Ids
  <2>2. \A id \in Ids : id # set' => timer'[id] = timer[id]
    BY <1>1 DEF hal_add_repeating_timer, TypeOK
  <2>3. set' \notin freed \cup cancelled
    BY <2>1 DEF Owned
  <2>4. UNCHANGED <<freed, cancelled>> /\ caller' = "ready"
    BY <1>0, <1>1 DEF hal_add_repeating_timer
  <2> QED BY <2>2, <2>3, <2>4, SamePort DEF AlarmsEnd, InCallback, TypeOK, Irq
<1>2. ASSUME NEW h \in Handles, hal_cancel_repeating_timer(h)
      PROVE  AlarmsEnd'
  <2>1. /\ target' \in Ids /\ cancelled' = cancelled \cup {target'}
        /\ port = "pico" => ~InCallback(target')
        /\ freed' = freed /\ target' \notin freed
        /\ timer' = IF ~InCallback(target') THEN [timer EXCEPT ![target'] = "gone"] ELSE timer
    BY <1>2 DEF hal_cancel_repeating_timer, TypeOK, Told, CallerRuns, Busy, Owned
  <2>2. timer'[target'] = "gone" \/ (timer'[target'] \in {"called", "sending", "release"} /\ port # "pico")
    BY <2>1 DEF InCallback, TypeOK
  <2>3. \A id \in Ids : id # target' => timer'[id] = timer[id]
    BY <2>1 DEF TypeOK
  <2> QED BY <2>1, <2>2, <2>3, SamePort DEF AlarmsEnd, InCallback, TypeOK, Irq
<1>3. ASSUME NEW h \in Handles, AddFails(h)
      PROVE  AlarmsEnd'
  <2>1. \A id \in freed' : id \in freed \/ timer[id] = "none"
    BY <1>3, WhoIsFreed DEF AddFails, Free
  <2> QED BY <1>3, <2>1, SamePort DEF AddFails, AlarmsEnd, InCallback, Irq
<1>4. CASE Join \/ Command \/ Free \/ UNCHANGED vars
  <2>1. UNCHANGED <<timer, cancelled, target>> /\ freed' \subseteq freed \cup {target}
    BY <1>4 DEF Join, Command, Free, vars, callerVars
  <2>2. freed' # freed => caller = "free"
    BY <1>4 DEF Join, Command, Free, vars, callerVars
  <2>3. caller' = "free" => caller = "free"
    BY <1>0, <1>4 DEF Join, Command, Free, vars, callerVars, OnPort, After
  <2> QED BY <2>1, <2>2, <2>3, SamePort DEF AlarmsEnd, InCallback, Irq
<1>5. ASSUME NEW id \in Ids, CallbackStep(id)
      PROVE  AlarmsEnd'
  <2>1. PICK s \in {"armed", "called", "sending", "release", "gone"} :
          /\ timer' = [timer EXCEPT ![id] = s]
          /\ s = "armed" => ~(Irq /\ id \in cancelled)
    BY <1>5, CallbackTimer
  <2>2. /\ \A i \in Ids : timer'[i] = IF i = id THEN s ELSE timer[i]
        /\ timer[id] # "none"
        /\ UNCHANGED <<freed, cancelled, caller, target>>
    BY <1>5, <2>1, CallbackTimer DEF TypeOK, callerVars
  <2>3. id \in cancelled => timer[id] # "gone" /\ port # "pico"
    BY <1>5, CallbackTimer DEF AlarmsEnd
  <2> QED BY <2>1, <2>2, <2>3, SamePort DEF AlarmsEnd, InCallback, TypeOK, Irq
<1>6. CASE Drain
  BY <1>0, <1>6 DEF Drain
<1> QED BY <1>1, <1>2, <1>3, <1>4, <1>5, <1>6 DEF Next

\* What the daemon does with the first command in its queue.
LEMMA DrainOne ==
  ASSUME TypeOK, Drain, commands # <<>>
  PROVE  /\ Head(commands) \in Commands
         /\ \A id \in Ids : timer'[id] =
              IF id # Head(commands).id THEN timer[id]
              ELSE [start |-> "armed", stop |-> "stopped", delete |-> "gone"][Head(commands).op]
         /\ \A id : Queued(id)' => Queued(id)
         /\ \A id : DeleteQueued(id) <=>
              DeleteQueued(id)' \/ (Head(commands).id = id /\ Head(commands).op = "delete")
<1> DEFINE n == Len(commands)
<1>1. /\ n \in Nat \ {0} /\ commands[1] = Head(commands) /\ Head(commands) \in Commands
      /\ commands' = Tail(commands) /\ Len(commands') = n - 1
      /\ \A i \in 1 .. n - 1 : commands'[i] = commands[i + 1]
  BY Drained DEF Drain
<1> HIDE DEF n
<1>2. /\ \A i \in 1 .. n - 1 : i + 1 \in 1 .. n
      /\ \A i \in 1 .. n : i = 1 \/ (i - 1 \in 1 .. n - 1 /\ commands'[i - 1] = commands[i])
  BY <1>1
<1>3. \A id : Queued(id)' => Queued(id)
  BY <1>1, <1>2 DEF Queued, n
<1>4. ASSUME NEW id
      PROVE  DeleteQueued(id) <=>
               DeleteQueued(id)' \/ (Head(commands).id = id /\ Head(commands).op = "delete")
  <2>1. ASSUME DeleteQueued(id)
        PROVE  DeleteQueued(id)' \/ (Head(commands).id = id /\ Head(commands).op = "delete")
    <3>1. PICK i \in 1 .. n : commands[i].id = id /\ commands[i].op = "delete"
      BY <2>1 DEF DeleteQueued, n
    <3> QED BY <1>1, <1>2, <3>1 DEF DeleteQueued
  <2>2. DeleteQueued(id)' => DeleteQueued(id)
    BY <1>1, <1>2 DEF DeleteQueued, n
  <2>3. Head(commands).id = id /\ Head(commands).op = "delete" => DeleteQueued(id)
    <3>1. 1 \in 1 .. n
      BY <1>1
    <3> QED BY <1>1, <3>1 DEF DeleteQueued, n
  <2> QED BY <2>1, <2>2, <2>3
<1>5. \A id \in Ids : timer'[id] =
        IF id # Head(commands).id THEN timer[id]
        ELSE [start |-> "armed", stop |-> "stopped", delete |-> "gone"][Head(commands).op]
  BY <1>1 DEF Drain, TypeOK, Commands
<1> QED BY <1>1, <1>3, <1>4, <1>5

\* What a command adds.
LEMMA CommandOne ==
  ASSUME TypeOK, Targeted, Command
  PROVE  /\ \A id : Queued(id)' => Queued(id) \/ id = target
         /\ \A id : DeleteQueued(id)' <=> DeleteQueued(id) \/ (id = target /\ caller = "delete")
<1> DEFINE n == Len(commands)
<1>1. /\ n \in Nat /\ Len(commands') = n + 1
      /\ \A i \in 1 .. n : commands'[i] = commands[i]
      /\ commands'[n + 1] = [op |-> caller, id |-> target]
  BY Commanded
<1> HIDE DEF n
<1>2. \A i \in 1 .. n + 1 : i \in 1 .. n \/ i = n + 1
  BY <1>1
<1>3. 1 .. n \subseteq 1 .. n + 1 /\ n + 1 \in 1 .. n + 1
  BY <1>1
<1>4. \A id : Queued(id)' => Queued(id) \/ id = target
  BY <1>1, <1>2 DEF Queued, n
<1>5. \A id : DeleteQueued(id)' => DeleteQueued(id) \/ (id = target /\ caller = "delete")
  BY <1>1, <1>2 DEF DeleteQueued, n
<1>6. \A id : DeleteQueued(id) \/ (id = target /\ caller = "delete") => DeleteQueued(id)'
  BY <1>1, <1>3 DEF DeleteQueued, n
<1> QED BY <1>4, <1>5, <1>6

\* A command for a timer is never behind its deletion.
DeletedLast ==
  \A i, j \in 1 .. Len(commands) :
    i < j /\ commands[i].op = "delete" => commands[j].id # commands[i].id

LEMMA DeletedLastStep ==
  ASSUME TimersInv, [Next]_vars, Daemon
  PROVE  DeletedLast'
<1> USE DEF TimersInv
<1>0. DeletedLast
  BY DEF DaemonKnows, DeletedLast
<1>1. CASE commands' = commands
  BY <1>0, <1>1 DEF DeletedLast
<1>2. CASE Command
  <2> DEFINE n == Len(commands)
  <2>1. /\ n \in Nat /\ Len(commands') = n + 1
        /\ \A i \in 1 .. n : commands'[i] = commands[i]
        /\ commands'[n + 1] = [op |-> caller, id |-> target]
    BY <1>2, Commanded
  <2>2. \A i \in 1 .. n : commands[i].op = "delete" => commands[i].id # target
    BY <1>2 DEF Command, DaemonKnows, Leaving, DeleteQueued
  <2>3. \A i, j \in 1 .. n : i < j /\ commands[i].op = "delete" => commands[j].id # commands[i].id
    BY <1>0 DEF DeletedLast
  <2> HIDE DEF n
  <2>4. ASSUME NEW i \in 1 .. n + 1, NEW j \in 1 .. n + 1, i < j, commands'[i].op = "delete"
        PROVE  commands'[j].id # commands'[i].id
    <3>1. i \in 1 .. n /\ (j \in 1 .. n \/ j = n + 1)
      BY <2>1, <2>4
    <3> QED BY <2>1, <2>2, <2>3, <2>4, <3>1
  <2> QED BY <2>1, <2>4 DEF DeletedLast
<1>3. CASE Drain /\ commands # <<>>
  <2> DEFINE n == Len(commands)
  <2>1. /\ n \in Nat \ {0} /\ commands' = Tail(commands) /\ Len(commands') = n - 1
        /\ \A i \in 1 .. n - 1 : commands'[i] = commands[i + 1]
    BY <1>3, Drained DEF Drain
  <2>2. \A i, j \in 1 .. n : i < j /\ commands[i].op = "delete" => commands[j].id # commands[i].id
    BY <1>0 DEF DeletedLast
  <2> HIDE DEF n
  <2>3. ASSUME NEW i \in 1 .. n - 1, NEW j \in 1 .. n - 1, i < j, commands'[i].op = "delete"
        PROVE  commands'[j].id # commands'[i].id
    <3>1. i + 1 \in 1 .. n /\ j + 1 \in 1 .. n /\ i + 1 < j + 1
      BY <2>1, <2>3
    <3> QED BY <2>1, <2>2, <2>3, <3>1
  <2> QED BY <2>1, <2>3 DEF DeletedLast
<1>4. commands' = commands \/ Command \/ (Drain /\ commands # <<>>)
  BY CallbackTimer DEF Next, hal_add_repeating_timer, AddFails, hal_cancel_repeating_timer,
     Join, Free, Drain, vars
<1> QED BY <1>1, <1>2, <1>3, <1>4

LEMMA DaemonKnowsStep ==
  ASSUME TimersInv, [Next]_vars
  PROVE  DaemonKnows'
<1> USE DEF TimersInv
<1> SUFFICES ASSUME Daemon PROVE DaemonKnows'
  BY SamePort DEF DaemonKnows, Daemon
<1>0. ~Irq /\ ~Threads /\ port' = port
  BY SamePort DEF Irq, Threads, Daemon
<1>00. DeletedLast'
  BY DeletedLastStep
<1>1. ASSUME NEW h \in Handles, hal_add_repeating_timer(h)
      PROVE  DaemonKnows'
  <2>1. set' = set + 1 /\ set' \in Ids /\ set \in Nat
    BY <1>1, RepeatingTimersAssumption DEF hal_add_repeating_timer, TypeOK, Ids
  <2>2. target' = set' /\ caller' = "start" /\ UNCHANGED <<timer, freed, commands>>
    BY <1>1 DEF hal_add_repeating_timer
  <2>3. timer[set'] # "gone" /\ ~Queued(set')
    BY <2>1 DEF Owned, DaemonKnows
  <2>4. ~Leaving(set')
    BY <2>3 DEF Leaving, Queued, DeleteQueued
  <2>5. \A g \in Handles : handle'[g] = IF g = h THEN set' ELSE handle[g]
    BY <1>1 DEF hal_add_repeating_timer, TypeOK
  <2>6. \A id : (Leaving(id)' <=> Leaving(id)) /\ (Queued(id)' <=> Queued(id))
    BY <2>2 DEF Leaving, Queued, DeleteQueued
  <2>7. \A id \in Ids : id > set' => id > set
    BY <2>1 DEF Ids
  <2> QED BY <1>0, <1>00, <2>2, <2>4, <2>5, <2>6, <2>7 DEF DaemonKnows, DeletedLast
<1>2. ASSUME NEW h \in Handles, hal_cancel_repeating_timer(h)
      PROVE  DaemonKnows'
  <2>1. /\ target' = handle[h] /\ handle[h] # NULL /\ caller' = "stop"
        /\ UNCHANGED <<set, timer, freed, commands>>
    BY <1>0, <1>2 DEF hal_cancel_repeating_timer, AfterTelling
  <2>2. \A g \in Handles : handle'[g] = IF g = h THEN NULL ELSE handle[g]
    BY <1>2 DEF hal_cancel_repeating_timer, TypeOK
  <2>3. \A id : (Leaving(id)' <=> Leaving(id)) /\ (Queued(id)' <=> Queued(id))
    BY <2>1 DEF Leaving, Queued, DeleteQueued
  <2> QED BY <1>0, <1>00, <2>1, <2>2, <2>3 DEF DaemonKnows, DeletedLast
<1>3. CASE Command
  <2>1. /\ caller \in {"start", "stop", "delete"} /\ caller' = After[caller]
        /\ UNCHANGED <<set, handle, freed, target, timer>>
    BY <1>3 DEF Command, After
  <2>2. ~Leaving(target) /\ target \in Ids /\ target <= set /\ set \in Nat
    BY <2>1, RepeatingTimersAssumption DEF DaemonKnows, After, Targeted, Owned, TypeOK
  <2>3. /\ \A id : Queued(id)' => Queued(id) \/ id = target
        /\ \A id : Leaving(id)' <=> Leaving(id) \/ (id = target /\ caller = "delete")
    BY <1>3, <2>1, CommandOne DEF Leaving
  <2>4. caller' \in DOMAIN After => caller # "delete"
    BY <2>1 DEF After
  <2>5. caller' = "free" => caller = "delete"
    BY <2>1 DEF After
  <2>6. \A id \in Ids : timer[id] = "gone" \/ id > set => id # target
    BY <2>2 DEF Leaving, Ids
  <2>7. \A g \in Handles : handle[g] # NULL /\ caller = "delete" => handle[g] # target
    BY DEF Owned
  <2> QED BY <1>0, <1>00, <2>1, <2>2, <2>3, <2>4, <2>5, <2>6, <2>7 DEF DaemonKnows, DeletedLast
<1>4. CASE Free
  <2>1. /\ freed' = freed \cup {target} /\ caller = "free" /\ caller' = "ready"
        /\ UNCHANGED <<set, handle, timer, commands>>
        /\ port = "posix_freertos" => commands = <<>>
    BY <1>4 DEF Free, CallerRuns
  <2>2. \A id : (Leaving(id)' <=> Leaving(id)) /\ (Queued(id)' <=> Queued(id))
    BY <2>1 DEF Leaving, Queued, DeleteQueued
  <2>3. Leaving(target) /\ (port = "posix_freertos" => timer[target] = "gone")
    BY <2>1 DEF DaemonKnows, Leaving, DeleteQueued
  <2> QED BY <1>0, <1>00, <2>1, <2>2, <2>3 DEF DaemonKnows, DeletedLast, After
<1>5. ASSUME NEW id \in Ids, CallbackStep(id)
      PROVE  DaemonKnows'
  <2>1. /\ UNCHANGED <<set, handle, freed, caller, target, commands>>
        /\ \A i \in Ids : timer'[i] = "gone" <=> timer[i] = "gone"
    BY <1>5, CallbackTimer DEF TypeOK, callerVars
  <2>2. \A i \in Ids : (Leaving(i)' <=> Leaving(i)) /\ (Queued(i)' <=> Queued(i))
    BY <2>1 DEF Leaving, Queued, DeleteQueued
  <2>3. freed \subseteq Ids /\ \A h \in Handles : handle[h] # NULL => handle[h] \in Ids
    BY DEF TypeOK
  <2>4. caller \in DOMAIN After \/ caller = "free" => target \in Ids
    BY DEF Targeted, After
  <2> QED BY <1>0, <1>00, <2>1, <2>2, <2>3, <2>4 DEF DaemonKnows, DeletedLast
<1>6. CASE Drain
  <2>1. CASE commands = <<>>
    <3>1. UNCHANGED <<callerVars, timer, commands>>
      BY <1>6, <2>1 DEF Drain
    <3> QED BY <1>0, <3>1 DEF callerVars, DaemonKnows, Leaving, Queued, DeleteQueued
  <2>2. CASE commands # <<>>
    <3>1. UNCHANGED <<set, handle, freed, caller, target>>
      BY <1>6 DEF Drain, callerVars
    <3>2. \A id : Queued(id)' => Queued(id)
      BY <1>6, <2>2, DrainOne
    <3>3. \A id \in Ids : timer[id] = "gone" => timer'[id] = "gone"
      BY GoneStays
    <3>4. Head(commands).op \in {"start", "stop", "delete"} /\ Head(commands).id \in Ids
      BY <1>6, <2>2, DrainOne DEF Commands
    <3>5. \A id \in Ids : timer'[id] = "gone" /\ timer[id] # "gone"
                            => Head(commands).id = id /\ Head(commands).op = "delete"
      BY <1>6, <2>2, <3>4, DrainOne
    <3>6. \A id \in Ids : Head(commands).id = id /\ Head(commands).op = "delete"
                            => timer'[id] = "gone" /\ ~Queued(id)'
      <4>1. \A id \in Ids : Head(commands).id = id /\ Head(commands).op = "delete"
                            => timer'[id] = "gone"
        BY <1>6, <2>2, DrainOne
      <4>2. ASSUME NEW i \in 1 .. Len(commands'), Head(commands).op = "delete"
            PROVE  commands'[i].id # Head(commands).id
        <5>1. /\ i \in 1 .. Len(commands) - 1 /\ Len(commands) \in Nat \ {0}
              /\ commands[1] = Head(commands) /\ commands'[i] = commands[i + 1]
          BY <1>6, <2>2, <4>2, Drained DEF Drain
        <5>2. 1 \in 1 .. Len(commands) /\ i + 1 \in 1 .. Len(commands) /\ 1 < i + 1
          BY <5>1
        <5> QED BY <4>2, <5>1, <5>2 DEF DaemonKnows
      <4> QED BY <4>1, <4>2 DEF Queued
    <3>7. \A id \in Ids : Leaving(id)' <=> Leaving(id)
      BY <1>6, <2>2, <3>3, <3>5, <3>6, DrainOne DEF Leaving
    <3>8. freed \subseteq Ids /\ \A h \in Handles : handle[h] # NULL => handle[h] \in Ids
      BY DEF TypeOK
    <3>9. caller \in DOMAIN After \/ caller = "free" => target \in Ids
      BY DEF Targeted, After
    <3>10. \A id \in Ids : timer'[id] = "gone" \/ id > set => ~Queued(id)'
      BY <3>2, <3>5, <3>6 DEF DaemonKnows
    <3> QED BY <1>0, <1>00, <3>1, <3>3, <3>7, <3>8, <3>9, <3>10 DEF DaemonKnows, DeletedLast
  <2> QED BY <2>1, <2>2
<1>7. CASE UNCHANGED vars
  BY <1>7 DEF vars, callerVars, DaemonKnows, Leaving, Queued, DeleteQueued, Daemon
<1>8. ~Join /\ \A h \in Handles : ~AddFails(h)
  BY <1>0 DEF Join, AddFails, OnPort
<1> QED BY <1>1, <1>2, <1>3, <1>4, <1>5, <1>6, <1>7, <1>8 DEF Next

\* Except where the caller overtakes the daemon, no callback begins with a
\* freed struct.
LEMMA CalledInTime ==
  ASSUME TimersInv, NEW id \in Ids, Call(id), id \in freed
  PROVE  port = "esp32" /\ late[id] = 0
<1> USE DEF TimersInv
<1>1. timer[id] = "armed" /\ port \in Ports
  BY DEF Call, TypeOK
<1>2. ~Threads
  BY <1>1 DEF ThreadsEnd
<1>3. ~Irq
  BY <1>1 DEF AlarmsEnd, InCallback
<1>4. port # "posix_freertos"
  BY <1>1 DEF DaemonKnows, Daemon
<1>5. port = "esp32"
  BY <1>1, <1>2, <1>3, <1>4, RepeatingTimersAssumption DEF Threads, Irq
<1>6. daemon = "check"
  BY <1>5 DEF Call, Daemon
<1>7. ~(late[id] > 0) /\ late[id] \in Nat
  BY <1>1, <1>6 DEF LateOnce, TypeOK
<1> QED BY <1>5, <1>7

LEMMA LateOnceStep ==
  ASSUME TimersInv, [Next]_vars
  PROVE  LateOnce'
<1> USE DEF TimersInv
<1>0. port' = port
  BY SamePort
<1>1. CASE port # "esp32"
  <2>1. late' = late
    <3>1. ASSUME NEW id \in Ids, CallbackStep(id)
          PROVE  late' = late
      <4>1. CASE Call(id)
        <5>1. id \notin freed
          BY <1>1, <4>1, CalledInTime
        <5> QED BY <4>1, <5>1 DEF Call, TypeOK
      <4> QED BY <3>1, <4>1 DEF CallbackStep, Allocate, Retry, Sent, Return, Die, ghosts
    <3> QED BY <3>1 DEF Next, hal_add_repeating_timer, AddFails, hal_cancel_repeating_timer,
               Join, Command, Free, Drain, vars, ghosts
  <2> QED BY <1>0, <1>1, <2>1 DEF LateOnce
<1>2. CASE port = "esp32"
  <2>0. Daemon /\ ~Irq /\ ~Threads
    BY <1>2 DEF Daemon, Irq, Threads
  <2>1. ASSUME NEW h \in Handles, hal_add_repeating_timer(h) \/ hal_cancel_repeating_timer(h)
        PROVE  LateOnce'
    BY <1>0, <1>2, <2>0, <2>1
       DEF hal_add_repeating_timer, hal_cancel_repeating_timer, LateOnce, ghosts
  <2>2. CASE Command \/ Free \/ UNCHANGED vars
    BY <1>0, <1>2, <2>2 DEF Command, Free, vars, callerVars, LateOnce, ghosts
  <2>3. ASSUME NEW id \in Ids, CallbackStep(id)
        PROVE  LateOnce'
    <3>1. freed' = freed
      BY <2>3, CallbackTimer DEF callerVars
    <3>2. CASE Call(id)
      <4>1. /\ timer' = [timer EXCEPT ![id] = "called"] /\ daemon' = daemon /\ daemon = "check"
            /\ late' = [late EXCEPT ![id] = IF id \in freed THEN @ + 1 ELSE @]
        BY <2>0, <3>2 DEF Call
      <4>2. id \in freed => late[id] = 0
        BY <3>2, CalledInTime
      <4>3. /\ \A i \in Ids : i # id => late'[i] = late[i] /\ timer'[i] = timer[i]
            /\ timer'[id] = "called" /\ late'[id] = IF id \in freed THEN 1 ELSE late[id]
        BY <4>1, <4>2 DEF TypeOK
      <4> QED BY <1>0, <1>2, <3>1, <4>1, <4>3 DEF LateOnce
    <3>3. CASE Return(id)
      BY <1>0, <1>2, <2>0, <3>1, <3>3 DEF Return, LateOnce
    <3>4. CASE ~Call(id) /\ ~Return(id)
      <4>1. late' = late /\ daemon' = daemon
        BY <2>3, <3>4 DEF CallbackStep, Allocate, Retry, Sent, Die, ghosts
      <4>2. \A i \in Ids : timer'[i] = "armed" => timer[i] = "armed"
        <5>1. PICK s \in {"armed", "called", "sending", "release", "gone"} :
                /\ timer' = [timer EXCEPT ![id] = s]
                /\ s = "armed" => FALSE
          BY <2>3, <3>4, CallbackTimer
        <5> QED BY <5>1 DEF TypeOK
      <4> QED BY <1>0, <1>2, <3>1, <4>1, <4>2 DEF LateOnce
    <3> QED BY <3>2, <3>3, <3>4
  <2>4. CASE Drain
    <3>1. late' = late /\ freed' = freed
      BY <2>4 DEF Drain, callerVars, ghosts
    <3>2. CASE commands = <<>>
      <4>1. \A id \in freed : timer'[id] = "gone"
        BY <2>0, <2>4, <3>2 DEF Drain, DaemonKnows, Leaving, DeleteQueued
      <4> QED BY <1>0, <1>2, <3>1, <4>1 DEF LateOnce
    <3>3. CASE commands # <<>>
      <4>1. daemon' = "drain"
        BY <2>4, <3>3 DEF Drain
      <4> QED BY <1>0, <1>2, <3>1, <4>1 DEF LateOnce
    <3> QED BY <3>2, <3>3
  <2>5. ~Join /\ \A h \in Handles : ~AddFails(h)
    BY <2>0 DEF Join, AddFails, OnPort
  <2> QED BY <2>1, <2>2, <2>3, <2>4, <2>5 DEF Next
<1> QED BY <1>1, <1>2

\* A thread that dies is one more that was killed, and takes two blocks at most.
LEMMA LeakStep ==
  ASSUME TimersInv, [Next]_vars
  PROVE  LeakInv'
<1> USE DEF TimersInv
<1>1. IsFiniteSet(Ids)
  BY FS_Interval, RepeatingTimersAssumption DEF Ids
<1>2. Killed \subseteq Killed'
  <2>1. cancelled \subseteq cancelled'
    BY CallbackTimer DEF Next, hal_add_repeating_timer, AddFails, hal_cancel_repeating_timer,
       Join, Command, Free, Drain, vars
  <2> QED BY <2>1, SamePort, GoneStays DEF Killed, TypeOK, Threads
<1>3. /\ Killed' \subseteq Ids /\ IsFiniteSet(Killed') /\ IsFiniteSet(Killed)
      /\ Cardinality(Killed) \in Nat /\ Cardinality(Killed') \in Nat
      /\ Cardinality(Killed) <= Cardinality(Killed')
  <2>1. Killed' \subseteq Ids
    BY TypeStep DEF Killed, TypeOK
  <2>2. IsFiniteSet(Killed') /\ IsFiniteSet(Killed)
    BY <1>1, <1>2, <2>1, FS_Subset
  <2>3. Cardinality(Killed) <= Cardinality(Killed')
    BY <1>2, <2>2, FS_Subset
  <2> QED BY <2>1, <2>2, <2>3, FS_CardinalityType
<1>4. leaked' <= 2 * Cardinality(Killed')
  <2>1. ASSUME NEW id \in Ids, Die(id)
        PROVE  leaked' <= 2 * Cardinality(Killed')
    <3>1. id \notin Killed /\ id \in Killed'
      BY <2>1, SamePort DEF Killed, Die, TypeOK, Threads
    <3>2. Cardinality(Killed \cup {id}) = Cardinality(Killed) + 1
      BY <1>3, <3>1, FS_AddElement
    <3>3. Killed \cup {id} \subseteq Killed'
      BY <1>2, <3>1
    <3>4. Cardinality(Killed) + 1 <= Cardinality(Killed')
      BY <1>3, <3>2, <3>3, FS_Subset
    <3>5. leaked' = leaked + blocks[id] /\ blocks[id] \in 0 .. 2 /\ leaked \in Nat
          /\ leaked <= 2 * Cardinality(Killed)
      BY <2>1 DEF Die, TypeOK, LeakInv
    <3> QED BY <1>3, <3>4, <3>5
  <2>2. CASE \A id \in Ids : ~Die(id)
    <3>1. leaked' = leaked \/ leaked' = leaked + 0
      BY <2>2 DEF Next, hal_add_repeating_timer, AddFails, hal_cancel_repeating_timer,
         Join, Command, Free, Drain, CallbackStep, Call, Allocate, Retry, Sent, Return,
         Unreleased, vars, ghosts
    <3> QED BY <1>3, <3>1 DEF LeakInv, TypeOK
  <2> QED BY <2>1, <2>2
<1>5. \A id \in Ids : blocks'[id] > 0 => InCallback(id)'
  <2>1. CASE blocks' = blocks /\ \A id \in Ids : InCallback(id) => timer'[id] = timer[id]
    BY <2>1 DEF LeakInv, InCallback
  <2>2. ASSUME NEW i \in Ids, CallbackStep(i)
        PROVE  \A id \in Ids : blocks'[id] > 0 => InCallback(id)'
    <3>1. \A id \in Ids : id # i => timer'[id] = timer[id]
      BY <2>2, CallbackTimer DEF TypeOK
    <3>2. \A id \in Ids : id # i => blocks'[id] = blocks[id]
      BY <2>2 DEF TypeOK, CallbackStep, Call, Allocate, Retry, Sent, Return, Die, requestVars
    <3>3. blocks'[i] > 0 => InCallback(i)'
      <4>1. CASE Call(i) \/ Allocate(i) \/ Retry(i) \/ Sent(i)
        BY <4>1 DEF TypeOK, Call, Allocate, Retry, Sent, InCallback, requestVars
      <4>2. CASE Return(i) \/ Die(i)
        <5>1. blocks' = [blocks EXCEPT ![i] = 0] /\ blocks'[i] = 0
          BY <4>2 DEF TypeOK, Return, Die
        <5> QED BY <5>1
      <4> QED BY <2>2, <4>1, <4>2 DEF CallbackStep
    <3> QED BY <3>1, <3>2, <3>3 DEF LeakInv, InCallback
  <2>3. ASSUME NEW h \in Handles, hal_add_repeating_timer(h)
        PROVE  blocks' = blocks /\ \A id \in Ids : InCallback(id) => timer'[id] = timer[id]
    <3>1. set' \in Ids /\ timer[set'] = "none"
      BY <2>3, RepeatingTimersAssumption DEF hal_add_repeating_timer, TypeOK, Owned, Ids
    <3> QED BY <2>3, <3>1 DEF hal_add_repeating_timer, TypeOK, InCallback, requestVars
  <2>4. ASSUME NEW h \in Handles, AddFails(h) \/ hal_cancel_repeating_timer(h)
        PROVE  blocks' = blocks /\ \A id \in Ids : InCallback(id) => timer'[id] = timer[id]
    BY <2>4 DEF AddFails, hal_cancel_repeating_timer, TypeOK, InCallback, requestVars
  <2>5. CASE Join \/ Command \/ Free \/ UNCHANGED vars
    BY <2>1, <2>5 DEF Join, Command, Free, vars, requestVars
  <2>6. CASE Drain
    <3>1. blocks' = blocks /\ \A id \in Ids : ~InCallback(id)
      BY <2>6 DEF Drain, requestVars, Busy
    <3> QED BY <2>1, <3>1
  <2> QED BY <2>1, <2>2, <2>3, <2>4, <2>5, <2>6 DEF Next
<1> QED BY <1>4, <1>5 DEF LeakInv

-------------------------------------------------------------------------------
(* The theorems. *)

LEMMA InvInit == Init => TimersInv
BY TypeInit, InitRest DEF TimersInv

LEMMA InvStep == TimersInv /\ [Next]_vars => TimersInv'
<1> SUFFICES ASSUME TimersInv, [Next]_vars PROVE TimersInv'
  OBVIOUS
<1>1. TypeOK' /\ Targeted'
  BY TypeStep DEF TimersInv
<1> QED BY <1>1, OwnedStep, OnPortStep, ThreadsEndStep, AlarmsEndStep, DaemonKnowsStep,
           LateOnceStep, LeakStep DEF TimersInv

\* The two functions and the callback keep to their types: every command has
\* room in the daemon's queue, a request holds two blocks and is tried again
\* max_retries times at most.
THEOREM TimersTypeCorrect == Spec => []TypeOK
<1>1. TimersInv => TypeOK
  BY DEF TimersInv
<1> QED BY <1>1, InvInit, InvStep, PTL DEF Spec

\* hal_cancel_repeating_timer frees no struct under its callback and no callback
\* begins with a freed one, for every number of timers - but for the one call
\* of the ESP32's daemon that the caller may overtake.
THEOREM StructOutlivesCallback == Spec => []AlarmOutlivesCallback
<1>1. TimersInv => AlarmOutlivesCallback
  <2> SUFFICES ASSUME TimersInv, NEW id \in Ids
               PROVE  IF Overtaken THEN late[id] <= (IF Daemon THEN 1 ELSE 0)
                                   ELSE id \in freed => ~InCallback(id) /\ late[id] = 0
    BY DEF AlarmOutlivesCallback
  <2> USE DEF TimersInv
  <2>1. late[id] \in Nat /\ port \in Ports
    BY DEF TypeOK
  <2>2. CASE Overtaken
    BY <2>1, <2>2 DEF Overtaken, LateOnce, Daemon
  <2>3. CASE ~Overtaken
    <3>1. port \in {"posix", "posix_freertos", "pico"}
      BY <2>1, <2>3, RepeatingTimersAssumption DEF Overtaken
    <3>2. late[id] = 0
      BY <3>1 DEF LateOnce
    <3>3. id \in freed => timer[id] \in {"gone", "none"}
      BY <3>1 DEF ThreadsEnd, AlarmsEnd, DaemonKnows, Threads, Irq, Daemon
    <3> QED BY <2>3, <3>2, <3>3 DEF InCallback
  <2> QED BY <2>2, <2>3
<1> QED BY <1>1, InvInit, InvStep, PTL DEF Spec

\* send_udp_request leaks nothing of its own, and the threads killed in the
\* middle of it two blocks each, however often timers are set and cancelled.
THEOREM OnlyKilledThreadsLeak == Spec => []LeaksAreCancelledRequests
<1>1. TimersInv => LeaksAreCancelledRequests
  BY DEF TimersInv, LeakInv, Killed, LeaksAreCancelledRequests
<1> QED BY <1>1, InvInit, InvStep, PTL DEF Spec

-------------------------------------------------------------------------------
(***************************************************************************)
(* Start-up, for every number of reconnections and polls.                  *)
(***************************************************************************)

\* The steps of main, of the driver's event task, and of lwIP.
LEMMA NetSteps ==
  ASSUME [StartupNext]_startupVars
  PROVE  \/ /\ wifi_start \/ WaitedForWifi \/ Connected
            /\ UNCHANGED <<retry_count, in_a_row, most, bits, dnsVars, udpVars>>
            /\ main' = main \/ (main = "wifi" /\ main' = "resolve")
            /\ station' = station \/ station' = "starting"
         \/ /\ StaStart \/ Associate
            /\ UNCHANGED <<main, retry_count, in_a_row, most, bits, dnsVars, udpVars>>
            /\ station' \in {"connecting", "associated"}
         \/ GotIp \/ Disconnected
         \/ resolve_server_address \/ DnsFound \/ CopyAddress \/ DnsFailed
         \/ Poll \/ init_udp_socket \/ create_udp_socket
         \/ send_udp_request
         \/ UNCHANGED <<main, wifiVars, dnsVars, udpVars>>
BY DEF StartupNext, startupVars, wifiVars, wifi_start, WaitedForWifi, Connected,
       StaStart, Associate

\* Every loss in a row since the last address is a try, until the tries are
\* used up.
TriesInv ==
  /\ retry_count \in 0 .. wifi_retries
  /\ in_a_row \in 0 .. wifi_retries + 1 /\ most \in 0 .. wifi_retries + 1
  /\ retry_count <= in_a_row
  /\ GivesUpLate

\* A station gives up only after more losses in a row than it has tries, and
\* says so (GivesUpLate): event_handler of wifi.c.
THEOREM StationGivesUpLate == StartupSpec => []GivesUpLate
<1> USE StartupAssumption
<1>1. StartupInit => TriesInv
  BY DEF StartupInit, TriesInv, GivesUpLate, StartupAssumption
<1>2. TriesInv /\ [StartupNext]_startupVars => TriesInv'
  <2> SUFFICES ASSUME TriesInv, [StartupNext]_startupVars PROVE TriesInv' OBVIOUS
  <2> USE DEF TriesInv, GivesUpLate, StartupAssumption
  <2>1. CASE UNCHANGED <<retry_count, in_a_row, most, bits>>
             /\ (station' = station \/ station' # "idle")
    BY <2>1
  <2>2. CASE GotIp
    BY <2>2 DEF GotIp, Retries
  <2>3. CASE Disconnected
    <3>1. /\ in_a_row' = IF in_a_row > wifi_retries THEN in_a_row ELSE in_a_row + 1
          /\ most' = IF in_a_row' > most THEN in_a_row' ELSE most
      BY <2>3 DEF Disconnected
    <3>2. CASE TryAgain
      <4>1. /\ station' = "connecting" /\ retry_count' = retry_count + 1 /\ bits' = bits
            /\ retry_count < wifi_retries
        BY <2>3, <3>2 DEF Disconnected, TryAgain
      <4> QED BY <3>1, <4>1
    <3>3. CASE ~ TryAgain
      <4>1. /\ station' = "idle" /\ retry_count' = retry_count
            /\ bits' = bits \cup {"FAIL"} /\ ~ (retry_count < wifi_retries)
        BY <2>3, <3>3 DEF Disconnected, TryAgain, GiveUp
      <4>2. in_a_row' > wifi_retries /\ most' > wifi_retries BY <3>1, <4>1
      <4> QED BY <3>1, <4>1, <4>2
    <3> QED BY <3>2, <3>3
  <2>4. CASE resolve_server_address \/ DnsFound \/ CopyAddress \/ DnsFailed
             \/ Poll \/ init_udp_socket \/ create_udp_socket
             \/ send_udp_request
    BY <2>1, <2>4
    DEF resolve_server_address, DnsFound, CopyAddress, DnsFailed, Poll,
        init_udp_socket, create_udp_socket, send_udp_request, wifiVars
  <2>5. CASE UNCHANGED <<main, wifiVars, dnsVars, udpVars>>
    BY <2>1, <2>5 DEF wifiVars
  <2> QED BY <2>1, <2>2, <2>3, <2>4, <2>5, NetSteps
<1>3. TriesInv => GivesUpLate BY DEF TriesInv
<1> QED BY <1>1, <1>2, <1>3, PTL DEF StartupSpec

\* What start-up has logged was true, or is about to be and then the lock of
\* lwIP keeps start-up from going on: FreeRTOS; on the bare Pico start-up does
\* not run in the middle of the callback.
FlagInv ==
  /\ main \in {"wifi", "resolve"} => dns = "none"
  /\ resolved /\ ~address => dns = "copying"
  /\ reported => resolved
  /\ reported /\ main = "started" => address
  /\ RequestsKnowTheServer

\* Once the address is logged as resolved no request goes to address 0
\* (RequestsKnowTheServer), although requests do not wait for lwIP's lock: the
\* poll and init_udp_socket cannot both run while the answer is being copied.
THEOREM RequestsFindTheServer == StartupSpec => []RequestsKnowTheServer
<1>1. StartupInit => FlagInv
  BY DEF StartupInit, FlagInv, RequestsKnowTheServer
<1>2. FlagInv /\ [StartupNext]_startupVars => FlagInv'
  <2> SUFFICES ASSUME FlagInv, [StartupNext]_startupVars PROVE FlagInv' OBVIOUS
  <2> USE DEF FlagInv, RequestsKnowTheServer
  <2>1. CASE UNCHANGED <<dnsVars, udpVars>>
             /\ (main' = main \/ (main = "wifi" /\ main' = "resolve"))
    BY <2>1 DEF dnsVars, udpVars
  <2>2. CASE GotIp \/ Disconnected
    BY <2>1, <2>2 DEF GotIp, Disconnected
  <2>3. CASE resolve_server_address
    BY <2>3 DEF resolve_server_address, udpVars
  <2>4. CASE DnsFound
    BY <2>4 DEF DnsFound, udpVars
  <2>5. CASE CopyAddress
    BY <2>5 DEF CopyAddress, udpVars
  <2>6. CASE DnsFailed
    BY <2>6 DEF DnsFailed, udpVars
  <2>7. CASE Poll
    BY <2>7 DEF Poll, udpVars
  <2>8. CASE init_udp_socket
    BY <2>8 DEF init_udp_socket, LwipUnlocked, dnsVars
  <2>9. CASE create_udp_socket
    BY <2>9 DEF create_udp_socket, resolve_server_address_blocking, start_udp
  <2>10. CASE send_udp_request
    BY <2>10 DEF send_udp_request, dnsVars
  <2>11. CASE UNCHANGED <<main, wifiVars, dnsVars, udpVars>>
    BY <2>1, <2>11
  <2> QED BY <2>1, <2>2, <2>3, <2>4, <2>5, <2>6, <2>7, <2>8, <2>9, <2>10, <2>11, NetSteps
<1>3. FlagInv => RequestsKnowTheServer BY DEF FlagInv
<1> QED BY <1>1, <1>2, <1>3, PTL DEF StartupSpec

Booleans == {resolved, address, reported, socket, receiver, misdirected} \subseteq BOOLEAN

\* Tries, losses and polls stay within their bounds (StartupTypeOK).
THEOREM NetTypeCorrect == StartupSpec => []StartupTypeOK
<1> USE StartupAssumption
<1>1. StartupInit => StartupTypeOK
  <2> SUFFICES ASSUME StartupInit PROVE StartupTypeOK OBVIOUS
  <2>1. Booleans BY DEF StartupInit, Booleans
  <2>2. 0 \in 0 .. wifi_retries /\ 0 \in 0 .. wifi_retries + 1 /\ 0 \in 0 .. max_attempts
    BY DEF StartupAssumption
  <2> QED BY <2>1, <2>2 DEF StartupInit, StartupTypeOK, Booleans
<1>2. StartupTypeOK /\ [StartupNext]_startupVars => StartupTypeOK'
  <2> SUFFICES ASSUME StartupTypeOK, [StartupNext]_startupVars PROVE StartupTypeOK' OBVIOUS
  <2>1. platform' = platform
    BY DEF StartupNext, startupVars, wifi_start, WaitedForWifi, Connected,
           StaStart, Associate, GotIp, Disconnected,
           resolve_server_address, DnsFound, CopyAddress, DnsFailed,
           Poll, init_udp_socket, create_udp_socket, send_udp_request
  <2>2. /\ main' \in {"wifi", "resolve", "poll", "bind", "started"}
        /\ dns' \in {"none", "asked", "copying", "done"}
        /\ attempts' \in 0 .. max_attempts
    BY DEF StartupAssumption, StartupTypeOK, StartupNext, startupVars, dnsVars, wifi_start,
           WaitedForWifi, Connected, StaStart, Associate, GotIp,
           Disconnected, resolve_server_address, DnsFound, CopyAddress,
           DnsFailed, Poll, init_udp_socket, create_udp_socket,
           start_udp, send_udp_request
  <2>3. /\ station' \in {"off", "starting", "connecting", "associated", "up", "idle"}
        /\ bits' \subseteq {"CONNECTED", "FAIL"}
        /\ retry_count' \in 0 .. wifi_retries
        /\ in_a_row' \in 0 .. wifi_retries + 1 /\ most' \in 0 .. wifi_retries + 1
    <3>1. /\ station \in {"off", "starting", "connecting", "associated", "up", "idle"}
          /\ bits \subseteq {"CONNECTED", "FAIL"}
          /\ retry_count \in 0 .. wifi_retries
          /\ in_a_row \in 0 .. wifi_retries + 1 /\ most \in 0 .. wifi_retries + 1
          /\ wifi_retries \in Nat
      BY DEF StartupAssumption, StartupTypeOK
    <3>2. CASE Disconnected
      <4>1. /\ in_a_row' = IF in_a_row > wifi_retries THEN in_a_row ELSE in_a_row + 1
            /\ most' = IF in_a_row' > most THEN in_a_row' ELSE most
            /\ \/ /\ retry_count < wifi_retries /\ retry_count' = retry_count + 1
                  /\ station' = "connecting" /\ bits' = bits
               \/ /\ retry_count' = retry_count
                  /\ station' = "idle" /\ bits' = bits \cup {"FAIL"}
        BY <3>2 DEF Disconnected, TryAgain, GiveUp
      <4>2. in_a_row' \in 0 .. wifi_retries + 1 /\ most' \in 0 .. wifi_retries + 1
        BY <3>1, <4>1
      <4>3. retry_count' \in 0 .. wifi_retries BY <3>1, <4>1
      <4>4. /\ station' \in {"off", "starting", "connecting", "associated", "up", "idle"}
            /\ bits' \subseteq {"CONNECTED", "FAIL"}
        BY <3>1, <4>1
      <4> QED BY <4>2, <4>3, <4>4
    <3>3. CASE GotIp
      <4>1. /\ in_a_row' = 0 /\ most' = most /\ retry_count' = 0
            /\ station' = "up" /\ bits' = bits \cup {"CONNECTED"}
        BY <3>3 DEF GotIp, Retries
      <4> QED BY <3>1, <4>1
    <3>4. CASE /\ UNCHANGED <<retry_count, in_a_row, most, bits>>
               /\ station' \in {station, "starting", "connecting", "associated"}
      BY <3>1, <3>4
    <3>5. CASE UNCHANGED wifiVars
      BY <3>4, <3>5 DEF wifiVars
    <3> QED BY <3>2, <3>3, <3>4, <3>5, NetSteps
      DEF resolve_server_address, DnsFound, CopyAddress, DnsFailed, Poll,
          init_udp_socket, create_udp_socket, send_udp_request
  <2>4. Booleans'
    <3>1. resolved \in BOOLEAN /\ address \in BOOLEAN /\ reported \in BOOLEAN
          /\ socket \in BOOLEAN /\ receiver \in BOOLEAN /\ misdirected \in BOOLEAN
      BY DEF StartupTypeOK
    <3>2. CASE UNCHANGED <<dnsVars, udpVars>>
      BY <3>1, <3>2 DEF dnsVars, udpVars, Booleans
    <3>3. CASE GotIp \/ Disconnected
      BY <3>2, <3>3 DEF GotIp, Disconnected
    <3>4. CASE resolve_server_address \/ DnsFound \/ CopyAddress \/ DnsFailed
               \/ Poll
      BY <3>1, <3>4 DEF resolve_server_address, DnsFound, CopyAddress,
                        DnsFailed, Poll, udpVars, Booleans
    <3>5. CASE init_udp_socket
      BY <3>1, <3>5 DEF init_udp_socket, dnsVars, Booleans
    <3>6. CASE create_udp_socket
      BY <3>1, <3>6 DEF create_udp_socket, resolve_server_address_blocking,
                        start_udp, Booleans
    <3>7. CASE send_udp_request
      BY <3>1, <3>7 DEF send_udp_request, dnsVars, Booleans
    <3>8. CASE UNCHANGED <<main, wifiVars, dnsVars, udpVars>>
      BY <3>2, <3>8
    <3> QED BY <3>2, <3>3, <3>4, <3>5, <3>6, <3>7, <3>8, NetSteps
  <2> QED BY <2>1, <2>2, <2>3, <2>4 DEF StartupTypeOK, Booleans
<1> QED BY <1>1, <1>2, PTL DEF StartupSpec

===============================================================================
