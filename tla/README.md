# A TLA+ verification of the Beatled controller firmware

`src/` holds the firmware of a Beatled controller: a small computer (Pico W,
ESP32, or a process on a POSIX host) that drives an LED strip in time with the
beat of a server.  The server and many controllers share a Wi-Fi network and
exchange short UDP datagrams.  This directory holds TLA+ models of the firmware,
TLC configurations that check them on small instances, and proofs that TLAPS
checks for every value of their constants.

Paths below are relative to the repository; the firmware is in its `src/`.

## 1. The system

### Components

| component | state it keeps | operations | where |
|---|---|---|---|
| state manager | `current_state`, `exit_current_state` | `transition_state`, `schedule_state_transition`, an enter and an exit handler per state | `state_manager/` |
| event queue, event loop | a bounded queue of pointers to events | add (non-blocking), pop (blocking), dispatch, `BEATLED_FATAL` on a handler's error | `event/` |
| command handlers | `last_beat_seq`, `last_program_seq`, gap counter | one handler per message kind, one sender per request | `command/` |
| time synchronisation | outstanding request, ring of 8 samples, clock offset | `prepare_time_request`, `process_time_msg`, median filter | `command/time`, `clock/` |
| registry | program, tempo, beat time, all under one mutex | read and write of a field | `hal/registry/` |
| intercore queue, LED core loop | a bounded queue of messages, three bits each | `hal_queue_add_message` (drop when full), `core1_loop`, `update_tempo` | `process/`, `ws2812/` |
| LED beat tracking, patterns | last beat, beat length, beat count, program, frame buffer | `led_update`, pattern functions | `ws2812/` |
| timers (HAL) | repeating timers, a handle per use | add (may fail), cancel, callback | `hal/time/` |
| queues (HAL) | ring buffer with mutex and conditions (POSIX), SDK queues elsewhere | add, pop, peek, blocking or not | `hal/queue/` |
| network (HAL) | socket, server address, receiver thread or callback | resolve, send, receive | `hal/network/` |
| Wi-Fi (HAL) | connection status, retry count | connect, event handler | `hal/wifi/` |
| WS2812 output (HAL) | DMA channel, reset alarm, semaphore, two buffers | start a frame, interrupt, alarm | `hal/ws2812/` |

Left aside: the POSIX simulator's window (Metal, Objective-C++), board
start-up, blink, the manual self test, vendored code, the build.

### How they interact

    server  <-- UDP -->  receiver --event queue--> event loop (core 0)
                            ^                         |  transition_state, handlers
    timers --requests-------+                         v
                                    registry  <--- writes        intercore queue
                                       ^                              |
                                       +---- reads --- LED core <-----+

The receiver (a thread on POSIX and ESP32, an lwIP callback on the Pico) copies
a datagram into an event and adds it to the event queue.  Core 0 takes events
out and runs their handlers to the end, one at a time.  A handler may send a
request, write the registry, notify the LED core, and schedule a state
transition - by adding another event to the queue it has just been taken from,
so that a transition is carried out later, after whatever is queued before it.
Timer callbacks send requests from another thread or an interrupt.  The LED
core draws frames and, between two frames, looks for a message telling it which
registry fields to read again.

The life of a controller is a ladder: `STARTED` (network up), `INITIALIZED`
(says hello every 10 s), `REGISTERED` (asks for the time, once),
`TIME_SYNCED` (asks for the tempo, once), `TEMPO_SYNCED` (refreshes tempo, time
and registration by three timers).

### What is hard about it

- Transitions are queued, so the state a handler looked at is not the state in
  which the transition it schedules is carried out.
- Requests are repeated (hello) or sent once (time, tempo); answers may be
  lost, duplicated, reordered, or reach a later life of the controller.
- Both queues are bounded and drop what does not fit; the timers may not be
  available.  What an error means depends on the port: `BEATLED_FATAL` ends the
  program on POSIX and ESP32 and only logs on the Pico.
- The LED core reads the registry some time after it was told to.
- Numbers wrap at 16 bits, and a program id has 16 bits on one core and 8 on
  the other.
- The outstanding time request is written by a timer and read by the event loop
  without any protection.
- The POSIX queue releases its mutex before it signals, and its operations wait
  on conditions of their own choosing.
- The LED core recognises beats by drops of a one-byte fraction, and every
  announcement moves the beat it is in.
- Two frame buffers, a DMA channel, an interrupt on one core and an alarm on the
  other are kept apart by one semaphore.
- PROGRAM is numbered and TEMPO_RESPONSE, which sets the program too, is not.
- A timer may be cancelled in the middle of its callback; what that means differs
  on each port (a thread, a daemon's task, an interrupt).
- The network may never come, come late, or go away after start-up.

`PROJECT.json` lists these hazards at their lines, each with the properties
that would catch it or the reason none does yet.

### What makes each component correct

- state manager: a queued transition is still legal when it is carried out; the
  state climbs one step at a time and falls back only with the power; a state's
  timers run in that state, once each, and nowhere else;
- queues: bounded, first in first out, no event handled twice;
- time: no beat time is converted to local time before the offset is known; an
  answer is used once, for the request it answers; the offset converges;
- sequence numbers: a late or repeated broadcast never undoes a newer one;
- broadcasts: what was missed is counted right, and the last program wins;
- timers: no callback runs on a freed timer, and cancelling comes back;
- start-up: it ends, unless it is waiting for a network (Pico) or for an address
  from the network it is in (ESP32);
- LED core: it shows what the registry holds, as soon as it has caught up;
- liveness: a controller that keeps saying hello is registered, and one that
  has the time gets the tempo, although any one datagram may be lost.

## 2. The modules

| module | models | kind |
|---|---|---|
| `SeqNumbers` | `(int16_t)(seq - last)` and the two filters built on it | pure |
| `Lifecycle` | what the state manager promises: the ladder, and which requests repeat on each rung | abstract specification |
| `Controller` | the whole controller with its two cores, queues, timers, handlers, and the network | detailed specification |
| `BoundedFifo` | what every port's queue promises; the SDK queues of the Pico and FreeRTOS ports are taken at this word | abstract specification |
| `CircularBuffer` | the POSIX queue: ring, mutex, two conditions, any number of threads | detailed specification |
| `TimeRequests` | the outstanding time request, written by a timer while the event loop compares and clears it | detailed specification |
| `OffsetFilter` | ring of samples, median filter, clock offset, conversion of beat times | detailed specification |
| `BeatFraction` | `scale8` | pure |
| `LedClock` | the LED core's beat: `update_tempo`, `led_update` | detailed specification |
| `DmaOutput` | frames from the LED core through DMA, FIFO and PIO to the strip | detailed specification |
| `FrameStream` | what `output_strings_dma` promises on every port: pictures in order, each once and whole | abstract specification |
| `Broadcasts` | the numbered broadcasts between the server, the network and two handlers, the gap counter, TEMPO_RESPONSE | detailed specification |
| `RepeatingTimers` | repeating timers of five ports, cancelled at any moment, and `send_udp_request` in their callbacks | detailed specification |
| `Startup` | `enter_started_state`: Wi-Fi, name resolution, the socket, on four kinds of port | detailed specification |
| `Patterns` | the arithmetic of the LED programs | pure |
| `CircularBufferMC`, `OffsetFilterMC` | instances for TLC: who calls what, negative numbers | instances |
| `Controller_proofs` | timers, types, queued transitions, the clock, the refinement of `Lifecycle`, early tempos, the LED core | proofs |
| `CircularBuffer_proofs` | the ring implements the FIFO; no wakeup is lost; the mutex comes back | proofs |
| `TimeRequests_proofs` | types, samples come from ever newer requests, what the race costs | proofs |
| `OffsetFilter_proofs` | types, the median and the two promises of the filter, for any number of samples | proofs |
| `Broadcasts_proofs` | the filter and the gap counter, for every range of numbers | proofs |
| `LedClock_proofs` | `scale8` and the clock built on it, for every tempo; the arithmetic of `Patterns` | proofs |
| `DmaOutput_proofs` | types, the permit, the two buffers, whole frames, the refinement of `FrameStream` | proofs |
| `Hal_proofs` | timers of all ports; start-up of all ports (the names of `Startup` are apart from those of `RepeatingTimers` so that one module may extend both) | proofs |

### Controller: state and actions against the code

| variable | in the code |
|---|---|
| `power`, `boots` | off; `starting` while `enter_started_state` runs; `running`; `halted` by `BEATLED_FATAL` |
| `state`, `exitHandler` | `current_state` and the handler `exit_current_state` points to, named by its state |
| `alarm`, `timers` | the static `hello_alarm`, `tempo_alarm`, `time_alarm` handles that are not NULL, and the timers that exist in the HAL (a timer whose handle was overwritten would go on firing) |
| `evq`, `event` | the event queue, and the event the loop holds between pop and the end of its handler |
| `net` | exchanges under way: the request, or the server's answer to it |
| `outstanding`, `lastOrig` | `have_outstanding_request` with `outstanding_orig_time` (-1: none); the timestamps are replaced by a counter, since all that is asked of them is whether two are equal |
| `samples` | `valid_sample_count` |
| `registry`, `lastBeatSeq`, `lastProgramSeq` | the fields other components read; a beat is named by the sequence number of the broadcast that announced it.  The registry begins as `registry_init` fills it (`DefaultTempo`), the LED core's statics as zeros |
| `icq`, `icMsg`, `led`, `core1` | intercore queue, the message `update_tempo` holds, the LED core's statics, `core1_loop` started |
| `tempoSet` | not in the code: a tempo of the server's is in the registry |
| `lost` | not in the code: the bits whose latest notification found the queue full while none was on its way |

One action per step of the code: `Boot` and `FinishStart` (the two halves of
`enter_started_state`, with the receiver running in between), `PopEvent`, one
action per entry handler (`EnterInitialized` ... `EnterTempoSynced`), the
refusal `RejectTransition`, one per message kind (`HandleHello`, `HandleTime`,
`HandleTempo`, `HandleNextBeat`, `HandleProgram`, `HandleOther`), one per timer
callback (`FireHello`, `FireTempo`, `FireTime`), `ReceiveReply` and
`ReceiveBroadcast` (the receiver), `Lose`, `PopIntercore` and `UpdateTempo`
(the LED core), `PowerLoss`.

A handler is one step.  That is sound for everything but one race: only core 0
writes what its handlers read, the receiver touches nothing but the queue, and
the LED core reads the registry at a moment of its own anyway.  The exception
is a time request sent by a timer in the middle of `process_time_msg`.

The network loses (`Lose`), duplicates (`ReceiveReply` may keep the exchange)
and reorders (`net` is a set) datagrams.  Broadcasts the server sends
unprompted may arrive at any time, with any sequence number.

Three constants stand for the ports.  `FatalHalts` is true for POSIX and ESP32,
where the receiver's failure to queue a datagram is fatal as well; on the Pico
both are logged.  `TimerMayFail` is true for the Pico, whose
`hal_add_repeating_timer` returns NULL when the alarm pool is full.
`DefaultTempo` is the period `registry_init` fills in: 1,000,000 us, or none at
all on the plain POSIX port, whose `registry_init` sets no tempo.

### CircularBuffer

`wptr`, `rptr`, `data` are the fields of `queue_t`; `lock`, `inCond`, `outCond`
its mutex and the threads asleep on its conditions; `pc`, `op`, `val`, `result`
what each thread is doing.  `Call`, `Lock`, `Copy`, `Advance`, `GiveUp`,
`Wait`, `Signal`, `Relock`, `Return` are the stretches of
`queue_add_internal`, `queue_remove_internal` and `queue_peek_internal` between
two points at which another thread can run; the three functions share them and
differ in which condition they wait on (`WaitsOnInCond`), which they signal
(`SignalsInCond`) and where they go on after a wait (`AfterWait`): a removal to
its test, an add and a peek to a second `pthread_mutex_lock` of the mutex they
already hold, which with the default mutex of glibc and macOS blocks for ever.
`Calls` says which thread uses which operations.  An operation takes effect for
`BoundedFifo` when it releases the mutex.

### TimeRequests and OffsetFilter

`process_time_msg` is one step in `Controller`.  `TimeRequests` takes its first
lines apart, one action per line that reads or writes `outstanding_orig_time`
or `have_outstanding_request`, with the timer's callback (`Fire`, `StoreOrig`,
`StoreFlag`, `Send`) between any two of them.  `InOrder` says whether the
callback's two stores are seen in program order, as they are when it is an
interrupt on the event loop's core (Pico) or a task on the same core, or in
either order, as a data race between threads on two cores allows (POSIX).
`applied` and `eaten` are there for the properties.

`OffsetFilter` is the rest of the handler.  An exchange is given by when it
starts, how long its datagrams fly and how long the server holds it; the four
time stamps follow from these and from how far the server's clock is ahead
(`true_offset`), which `ClockStep` changes.  Arithmetic is unsigned where the
code's is, over a smaller word.

### LedClock and BeatFraction

The variables with an underscore are the statics of `ws2812.c`,
`prev_beat_frac` and `prev_time` those of `led_update`.  `UpdateTimeRef` and
`UpdateTempo` are the two halves of `update_tempo`; `LedUpdate` is one frame;
`AnnounceBeat` and `AnnounceTempo` are core 0 writing the registry.  A message
may be read twice (`Taken`): core 0 may write the registry again before the LED
core has looked, and its second notification then tells nothing new.  `Tick`
lets time pass, no longer than `MaxFrameGap` between two frames.  `anchor`, which
is not in the code, is the beat from which whole periods of the present tempo
have to be counted.

### DmaOutput

One variable per piece of hardware or code: the buffers, the LED core (`pc`,
`drawn`), the semaphore, the DMA channel, its interrupt and handler (`ints0`,
`isr`), the alarm and its handle, the FIFO, the word being shifted out, and the
strip, which has taken words since it last latched.  The interrupt runs on the
LED core and stops it; the alarm runs on the other core, and may run before the
handler has stored its id.  The hardware moves words as soon as it can
(`Tick` waits for `DmaWord` and for a due alarm); both cores may be as slow as
they like.  `led_self_test`, which uses one buffer for all its colours, comes
first and relies on sleeping.

### Broadcasts

The two numbered streams share neither numbers nor registry fields, and a
behaviour follows one of them (`stream`).  What the controller sees of a
datagram is its number; what is true of it is its `age`, how many numbers the
server has given out since, up to `Far`, half the range.  `last` and `gap_total`
are the statics of the two handlers, `shown` is the age of what the registry
holds, `state` the controller's state as far as the handlers ask.  `TakeBeat`
and `DropBeat` are the two outcomes of `process_next_beat_msg`, `TakeProgram` and
`DropProgram` those of `command_program`, `TakeTempo` is `process_tempo_msg`.
`room` says whether the transition that the first beat needs can be queued:
number and gap are recorded before that is known.  `behind`, `books` and
`tracked` are not in the code.  The server and the network (`Broadcast`,
`Refresh`, `AnswerTempo`, `Restart`, `Lose`) follow `protocol.h`.

### RepeatingTimers

A behaviour is on one of five ports, for three implementations: a thread for
each timer that is cancelled and joined (POSIX); the FreeRTOS timer daemon with
its command queue, where it takes precedence over the caller (one core) and
where it does not (ESP32: two cores, lowest priority); the SDK's timer interrupt
with the caller on the same core (Pico) or on either (Pico under FreeRTOS, whose
main task is bound to no core).  On the Pico the
SDK's choice of a timer counts as the begin of its callback.  The SDK lets go of its
lock before the callback first reads the struct; under FreeRTOS the other core may
free it there, which the model counts as freed under a callback under way (see
"Findings").  The actions of the caller are the two functions
cut where they wait or where another thread can come in between: `Join`,
`Command` (each of the three daemon commands) and `Free`.  The callback is
`send_udp_request`: `Allocate`, `Retry`, `Sent`, `Return`, and `Die`, the
cancellation points of a thread.  A handle is cancelled only once and is NULL
after that, as the exit handlers have it.

### Startup

`main` is where `enter_started_state` is.  On the ESP32 the event handler
(`StaStart`, `GotIp`, `Disconnected`) goes on for ever beside it; on the Pico
the DNS callback (`DnsFound`, `CopyAddress`: the flag first, then the address)
may come after the 30 s time-out.  On the bare Pico it is an interrupt on the core of
`enter_started_state`, which stands still meanwhile (`MainRuns`); under FreeRTOS it
is a task that holds lwIP's lock, for which `init_udp_socket` waits and the poll
does not.  The lock keeps no request away: on the bare Pico it is a recursive mutex
that belongs to a core, so the timer's interrupt enters it in the middle of the
callback, and under FreeRTOS an interrupt must not take it at all.  Requests are
therefore modelled as coming at any moment, between the flag and the address too.
What saves them is the order of start-up (`RequestsKnowTheServer`): they begin after
`init_udp_socket`, and this cannot come in between.  `reported`, not in the code,
says that the log calls the address resolved.  On POSIX and ESP32
`create_udp_socket` does everything in one call.

### Patterns

The programs have no state, so the module has none: an operator per curve, table
index, divisor and colour, over the position `t` in the beat.  All that is said
about them is proved.

### What is left out of Controller

The contents of beat times and of time samples (only how many samples there
are), the gap counter of NEXT_BEAT (see `Broadcasts`), printing and blinking,
what happens inside `enter_started_state` (see `Startup`) and inside a timer's
callback (see `RepeatingTimers`), and memory exhaustion.

## 3. What the runs check

| run | instance | shows |
|---|---|---|
| `controller_pico` | one life, timers that fail, errors that only log, one time request, beats, a one-place intercore queue; the server's tempo is the one `registry_init` guesses; programs 257 (with the tempo) and 1 (pushed) take turns | types and capacities, timers match the state, transitions stay legal, the LED core follows the registry |
| `controller_esp32` | two lives, two time requests, errors that halt, old answers still in the network; core 0, the hello timer and the network fair | tempos are never early in the first life, the clock comes first, registration and tempo are reached, `Lifecycle` implemented |
| `controller_repeat` | no broadcasts | **violation**: a repeated transition ends the program |
| `controller_time` | fair, no broadcasts | **violation**: a lost time exchange is never made up for |
| `broadcasts` | six numbers, datagrams overtaken by a later one, two under way, a restart of the server, a counter of four values | the filter is right, missed beats are counted, beats keep coming, the last program wins |
| `ring` | three threads that call what the firmware calls, capacity 2, two values, fair scheduling | the ring is a FIFO; no wakeup is lost; the mutex comes back; what is queued is taken |
| `time_irq` | four requests, duplicated and reordered answers, stores in order | answers are used once and in order; the race costs at most every second answer |
| `offset` | three samples, flights of 0, 1 and 4, all roundings, the server's clock 6 behind or 9 ahead | a beat is placed within the one-way delay; a majority of new samples is enough |
| `led` | beats of 8 and 11 that replace each other, stopped tempos, announcements early and late, frames up to 3 apart | frames past the announced beat are in phase with it; every beat is counted |
| `dma` | 10 pixels, the code's FIFO of 8 words and alarm of 13 (400 us), alarms that may fail, fair cores | pictures reach the strip whole, once each and in order (`FrameStream`); one permit; frames keep coming |
| `timers` | two handles, four timers, a command queue of two, the code's three retries, all five ports | structs outlive their callbacks, leaks are cancelled requests, cancelling comes back |
| `startup` | all ports, the code's ten reconnections, five polls | the station gives up late, requests know the server, start-up ends or waits for a network |

The properties, and what would have to go wrong for one to fail:

- `TimersMatchState` - each of the alarm handles and HAL timers belongs to the
  current state.  Fails if an exit handler forgets a handle: the next entry
  then finds it set and is refused.
- `TransitionsLegal` - whatever is handled between scheduling a transition and
  carrying it out, the transition is still one the matrix allows.  The
  exception is `REGISTERED`, see the first finding.
- `ClockBeforeBeats`, `TempoNeverEarly` - beats and tempos wait for the clock.
- `LedFollowsRegistry` - a change not yet shown has a notification waiting, or
  the last notification met a full queue while none was on its way.  Two programs
  that agree in the eight bits the LED core keeps are a change for the registry and
  none for the LED core.  The tempo `registry_init` fills in is shown by nobody: the
  LED core starts with 0 and waits for a server's tempo, even if it is the same.
- `ImplementsLifecycle` - the refinement of `Lifecycle`.  In particular
  `TEMPO_SYNCED -> TIME_SYNCED`, which the matrix contains, never happens.
- `GetsRegistered`, `GetsTempo` - liveness.

- `ImplementsFifo` - linearisability of the ring.  Fails if an index is
  incremented past its slot, a slot is copied outside the mutex, an add is
  refused although a place is free.
- `NoLostWakeup`, `QueuedIsTaken` - the event loop does not sleep beside a
  queued event, although the signal comes after the unlock.
- `HolderGoesOn` - nobody waits for a mutex that its holder will not release.
  Fails if the removal, like the add and the peek, locked inside its loop.
- `SamplesNeverGoBack` - whatever the timer overwrites between two lines, a
  response is used at most once and never after a newer one.
- `RaceCostsNoMoreThanItGains` - how bad the race can be.
- `AccurateWithinDelay`, `MajorityDecides` - the two promises of the filter:
  the error is bounded by the delay it reports to the server, and after the
  server's clock changes by the median delay as soon as new samples are the
  majority of those accepted.
- `FramesInPhase` - any announcement, however late or repeated, is recovered
  from at the announced beat.
- `EveryBeatCounted`, `NoBeatInvented` - counting by drops of the fraction
  misses no beat and, where no message has moved the beat in between, invents
  none.
- `FractionIsQuotient` - `scale8` against the division it stands for.
- `FilterKnowsAge` - through wraps, losses and reordering the signed 16-bit
  difference says newer or older as an unbounded count would, unless half the
  range was missed.
- `MissedBeatsAreCounted` - the gap counter is what was broadcast and not
  applied, whatever stragglers and copies come in between and however often
  number and counter wrap.
- `BeatsKeepComing` - neither an outage nor a restarted server nor a full event
  queue makes the controller deaf for good.
- `ProgramSettles` - although answers without a number may arrive at any time,
  the last program is shown in the end.  Fails if `command_program` were as
  strict as `process_next_beat_msg`: the refresh that puts a late TEMPO_RESPONSE
  right carries the number that was applied already.
- `AlarmOutlivesCallback` - a cancelled timer is freed only when nobody runs, or
  will run, its callback; where the caller overtakes the callbacks, one call is
  begun too late on the ESP32 and none on the Pico, unless it had been picked before.
- `LeaksAreCancelledRequests`, `CancelReturns` - what cancelling in the middle of
  a request costs, and that the event loop gets through it.
- `GivesUpLate`, `StartupEnds`, `RequestsKnowTheServer` - the station gives up only
  after losses in a row and never silently; start-up ends although a network refuses
  the station or a name server is silent, and where it does not end it is because a
  Pico finds no network or an ESP32 gets no address (`WaitsForNetwork`); once the
  address is logged as resolved no request goes to address 0, although the flag is
  raised first and requests wait for no lock.
- `StripSeesWholeFrames`, `NeverDrawsWhatIsRead`, `OnePermit`,
  `ImplementsStream`, `FramesKeepComing` - the frame pipeline.  `ImplementsStream`
  is the refinement of `FrameStream`, the words on their way being read as one
  sequence; it fails also if a whole frame were sent twice or skipped.
  `StripSeesWholeFrames` needs that 400 us are
  more than the 9 words (270 us) still to come out when the DMA is done plus
  the strip's reset time: true for strips that latch within 60 us, as the
  module's assumption says, not for the later ones that ask for 280 us.

### Findings

`controller_repeat`: two hello requests may be answered before the transition
the first answer schedules is carried out.  Each answer schedules
`REGISTERED`; the second transition finds the state reached and
`transition_state` returns 1, which the event loop treats as fatal.  The
comment there says the case is ignored.

`controller_time`: `enter_registered_state` sends one time request, and the
timer that repeats it is created only in `TEMPO_SYNCED`.  If that exchange is
lost the controller stays `REGISTERED`.  The comment in `time.c` promises an
offset within 30-40 s of booting.

More that the models show and no run states:

- `circular_buffer.h:199` says a blocked add blocks "until a removal happens on the
  queue".  It waits on the condition that adds signal, so the removal does not wake
  it; and when it is woken all the same it locks the mutex it holds, after which
  the ring never changes again (the theorem `LockedTwiceIsForEver`).  A blocked
  peek has the same two faults.  The firmware calls neither (only
  `hal_queue_add_message_blocking` reaches one of them, and nothing calls it).
- `_last_beat_time -= (_time_ref - _next_beat_time)` (`ws2812.c:131`) moves the
  last beat away from the next one.  Only in the middle of a beat does this keep
  the fraction constant, as the comment above it says.  A beat announced later
  than expected, in the second half of the beat, makes the fraction fall, which
  `led_update` takes for a beat and counts; `_beat_count` is never corrected
  downwards (this is the case `NoBeatInvented` excludes).  The next beat puts the
  phase right (`FramesInPhase`).
- `have_outstanding_request = false` may clear the flag of a request sent since
  the comparison.  The answer to that request is dropped as stale although it
  echoes the most recently sent `orig_time`; `RaceCostsNoMoreThanItGains` bounds
  the loss.
- On two cores nothing orders the timer's two stores.  With `InOrder = FALSE`
  `SamplesNeverGoBack` fails: if the flag is seen first, the old `orig_time`
  counts as outstanding again, and a duplicate of its answer is used.

- Cancelling a FreeRTOS timer only queues the command.  On the ESP32 (timer task
  of priority 1, two cores) the daemon may begin one more callback with a freed
  struct; on the Pico under FreeRTOS a callback under way on the other core, or
  picked by the SDK and about to begin there, may outlive its struct.  `test_alarm.cpp:42` says "No more increments after cancel";
  that test runs on POSIX, where it holds.
- A server that restarts its numbers lower, or an outage of half the range, leaves
  PROGRAM stranded until its numbers have caught up - up to half a range later,
  although `protocol.h:96-99` has the refresh so that loss does not "strand
  controllers on a wrong pattern".  NEXT_BEAT comes back sooner, its numbers
  move on with every beat.
- On the ESP32 `wifi_check` waits for ever if the station is associated and
  neither gets an address nor loses the network, and on the Pico it tries for ever
  if there is no network (`pico/wifi.c:21-25`): the two cases of `WaitsForNetwork`.
  After the tenth failure in a row nobody on the ESP32 reconnects again.
- On the Pico requests go to address 0 after a time-out of the name lookup, until a
  late answer comes; for the length of its callback the flag is up already
  (`dns.c:19-20`), and the timer's interrupt may come in between.  Only
  start-up's poll reads the flag.
- On POSIX and ESP32 a `create_udp_socket` that fails leaves a controller that
  says hello and has nobody to receive; a send that fails is not in
  `send_udp_request`'s result, as it is on the Pico.
- `pattern_random` leaves the frame as it is to hold it still, but the LED core
  draws into two buffers in turn: what is shown is the frame before the last
  (`random.c:12`: "keeping previous frame").
- `pattern_solid`'s product leaves the range of an `int` in the second half of the
  beat (`SolidOverflows`).  The divisors in the comments of `fade.c` and
  `sparkle.c` are not those of the shifts beside them.

### Bounds

Capacities of 1 and 2 for queues of 64 and 128 make "full" and "a transition
queued behind a message" happen within a few steps; nothing in the code depends
on the capacity but the test for it, and the theorems hold for every capacity.
One and two time requests let an answer be outstanding, used, duplicated and
stale.  The properties compare values only for equality, so few are enough: the
programs 1 and 257, equal on the LED core and different in the registry, replace
each other in `controller_pico` as TEMPO_RESPONSE and PROGRAM take turns; its
tempo equals `registry_init`'s guess and is new to the LED core all the same.  With
one beat number beat and tempo change once in a life there, from nothing to
something (two of either do not finish in five minutes); that the LED core follows any number of changes is
proved (`LedCoreFollows`).  For the ring, capacity 2 has the indices
wrap and the two directions meet, and three threads are an adder, a remover and
one more that comes in between.  Four requests let one be answered late while
the next is outstanding and another has been used.  A filter of three
samples is filled through one, two and three, so that its median is that of an
even and of an odd number; flights of 0, 1 and 4 make a sample an outlier or
not, and both parities of each time stamp are met.  Beats of 8 and 11 units
drawn up to 3 apart, over 14 units, hold a whole beat and a moved one, with
three bits of fraction: as in the code, a beat has more units than the fraction
has values (beats shorter than that, of less than 256 us, are not drawn right).
The frame pipeline runs with the code's own FIFO depth and alarm; of the pixels
it matters only that they are more than the FIFO holds.  `MaxBoots` of 2 lets answers of one life
reach the next.  Six numbers are the fewest with two sides of three: a datagram
may be overtaken by one (`MaxAge`), a controller may miss two numbers and still
compare, or half the range and not; the theorems hold for every range.  `MaxFlight`
of 2 lets two datagrams cross.  Four timers are two handles set twice, so that a
timer is set while a cancelled one is still in its callback; a command queue of
two is full in the middle of a cancellation.  Five polls for 1500: the count is
only compared.  Deadlock is not checked: a controller that has halted and whose
power may not come back (`MaxBoots`) stops.

### Fairness

`FairSpec` asks for weak fairness of the event loop (`PopEvent`, `HandleEvent`) and of
the hello timer of `INITIALIZED`: a loop and a hardware timer that nothing but a halt
stops.  A datagram that is sent again and again is delivered again and again (strong
fairness of `ReceiveReply` for the answers to hello, which a timer repeats, and of
`ReceiveBroadcast` for NEXT_BEAT, which the server repeats), but any single one may be
lost: the usual fair-lossy channel.  Nothing is assumed of the time and tempo
requests, of the other timers, of the LED core or of the power.

The ring's `FairSpec`: every thread is scheduled, one that keeps asking for the
mutex gets it some day, and a thread that removes in a loop calls again; no
thread needs to add, and no wait needs to end without a signal.  `DmaOutput`:
the LED core's loop, interrupts, alarms and the hardware go on.

`Broadcasts`: beats are broadcast for ever and one of those the controller would
accept gets through now and then, so does the refresh of PROGRAM, and no old
datagram is delivered for ever; nothing is assumed of TEMPO_RESPONSE.
`RepeatingTimers`: threads, daemon and interrupts run, callbacks leave the caller
time (strong fairness of `Command` and `Free`), a send need not succeed; no period
need ever end.  `Startup`: the main task, the driver's events and lwIP's callback
under way go on; an ESP32's try to connect ends in success or not, and `getaddrinfo`
returns, with an address or without.  A Pico need not find a network, an ESP32 need not get an
address from the one it is in, and lwIP's name server may stay silent.

## 4. What is proved

For every queue capacity, set of programs, tempos and sequence numbers, number
of boots and time requests, and both kinds of port
(`ControllerAssumption` says only that capacities are positive and sets are
sets of the right kind):

| theorem | property |
|---|---|
| `TypeCorrect` | `TypeOK` |
| `TimersTheorem` | `TimersMatchState` |
| `TransitionsStayLegal` | `TransitionsLegal` |
| `ClockComesFirst` | `ClockBeforeBeats` |
| `LifecycleImplemented` | `ImplementsLifecycle` |
| `TempoComesInTime` | `TempoNeverEarly` |
| `LedCoreFollows` | `LedFollowsRegistry` |

And for the components:

| theorem | property | holds for |
|---|---|---|
| `RingTypeCorrect` | `CircularBuffer!TypeOK` | every capacity, any threads, any operations |
| `FifoImplemented` | `CircularBuffer!ImplementsFifo` | the same |
| `WakeupsAreNotLost` | `CircularBuffer!NoLostWakeup` | every capacity, any finite set of threads, none of which blocks in an add (`NoBlockedAdd`) |
| `MutexComesBack` | `CircularBuffer!HolderGoesOn` | every capacity, any threads of which only removals block (`OnlyRemovalsBlock`) |
| `LockedTwiceIsForEver` | a thread that waits for the mutex it holds gets no further, and the ring changes no more | every capacity, any threads, any operations |
| `OutstandingIsNewest` | `TimeRequests!TypeOK` | any number of requests, stores seen in any order |
| `SamplesComeInOrder` | `TimeRequests!SamplesNeverGoBack` | any number of requests, stores seen in order (`InOrder`) |
| `RaceIsPaidFor` | `TimeRequests!RaceCostsNoMoreThanItGains` | the same |
| `OffsetWithinDelay` | `OffsetFilter!AccurateWithinDelay` | any number of samples, any flights and offsets, clocks less than half the 64-bit range apart (`RoomForOffsets`) |
| `NewSamplesDecide` | `OffsetFilter!MajorityDecides` | the same |
| `MiddleOfSorted` | `Middle` is the element `n / 2` after `qsort` | any number of values, equal ones in any order |
| `FilterIsRight` | `Broadcasts!FilterKnowsAge` | every range of numbers, any outages and restarts |
| `GapCountIsRight` | `Broadcasts!MissedBeatsAreCounted` | every range of numbers and of the counter |
| `LedTypeCorrect` | `LedClock!TypeOK` | any tempos, leads, lateness and frame gaps, any number of bits, in a word that holds twice any time |
| `FramesFollowTheServer` | `LedClock!FramesInPhase` | the same |
| `FramesShowTheQuotient` | `LedClock!FractionIsQuotient` | the same |
| `CountsOnlyPassedBeats` | `LedClock!NoBeatInvented` | the same |
| `NoBeatIsMissed` | `LedClock!EveryBeatCounted` | the same, frames closer together than a beat is long (`RareFrames`) |
| `AdvanceIsLoop` | `led_update`'s loop ends, with what `BeatOf` says | every beat, period and time, a period from now below 2^64 |
| `FramesRunTheLoop` | every frame runs that loop | as for `LedTypeCorrect` |
| `PermitIsOne` | `DmaOutput!OnePermit` | strips, FIFOs and alarms of any length, alarms that fail |
| `BuffersApart` | `DmaOutput!NeverDrawsWhatIsRead` | the same |
| `FramesArriveWhole` | `DmaOutput!StripSeesWholeFrames` | the same, a strip that takes more than one word's time to reset |
| `FramesStreamed` | `DmaOutput!ImplementsStream` | strips, FIFOs and alarms of any length, alarms that fail |
| `TimersTypeCorrect` | `RepeatingTimers!TypeOK` | five ports, any number of timers, handles and retries, any length of the daemon's queue |
| `StructOutlivesCallback` | `RepeatingTimers!AlarmOutlivesCallback` | the same |
| `OnlyKilledThreadsLeak` | `RepeatingTimers!LeaksAreCancelledRequests` | the same |
| `StationGivesUpLate` | `Startup!GivesUpLate` | all ports, any number of retries and polls |
| `RequestsFindTheServer` | `Startup!RequestsKnowTheServer` | the same |
| `TypeCorrect` (of `Broadcasts_proofs` and `DmaOutput_proofs`), `FilterTypeCorrect` and `NetTypeCorrect` (of `Startup`) | their modules' type invariants, which no run checks | as above |
| `PatternInTable`, `RandomNeverDividesByZero`, `DropsStayInGamma`, `GreysStayInGamma`, `NoChannelAboveValue`, `FadeGreyFits`, `SolidOverflows`, `FadesFade` | no table is left, nothing divided by zero, no channel brighter than asked | every position in the beat, strip, hue and value |

Every safety property a passing run checks, invariant or action property, is
one of these theorems.

### The hypotheses

The assumptions on the constants (the `ASSUME` of each module) say that sets and
bounds are of the right kind.  The following say more.

- `LedAssumption`: the word holds twice the last time and any lead or period.  The
  code's words count microseconds in 64 bits; 2^63 of them are 292 000 years.
- `RareFrames`: `Whole * (MaxFrameGap + BITS) < Full * p` for every tempo `p`, that
  is, frames are closer together than a beat is long, less `scale8`'s error of one
  unit per bit and one part in `Whole`.  Frames are 10 ms and the
  time to draw one apart, beats are tenths of a second long.  Without it a drop may fall between two
  frames, and the count misses a beat.
- `TimesAssumption`: the alarm outlasts the FIFO and the strip's reset, which is what
  400 us were chosen for (see `StripSeesWholeFrames` above), and a self test's sleep
  outlasts its frame.
- `LatchTicks > 1`: the strip does not latch between a word and the next, as no strip
  whose reset is 50 us or more does when a word takes 30.
- `RoomForOffsets`: the difference of the two clocks, with the flights, is less than
  half the range of the 64-bit offset; again 292 000 years.
- `InOrder`: the callback's two stores are seen in program order, as they are on the
  Pico and on one core of the ESP32.  Without it the properties fail (see "Findings").
- `NoBlockedAdd`: nobody calls `queue_add_blocking`.  Nobody does in the firmware;
  a blocked add waits on the condition that an add signals, and could take a
  removal's wakeup.
- `OnlyRemovalsBlock`: of the operations that block, `queue_remove_blocking` is the
  only one called.

TLC's instances satisfy all of them.

### The arguments

`FifoImplemented` rests on `RingInv`: who holds the mutex is the one thread at
`check` or `advance`, and a thread at `advance` has copied what the ring says it
should have.  `SamplesComeInOrder` rests on `FreshInv`: a flag that is up
belongs to a request from which no sample has come, and the handler carries
that knowledge past its two tests although the timer may overwrite both
variables behind it - by then only with a newer request.

`RaceIsPaidFor` adds `PaidInv`, which counts one step ahead: an answer that would be
refused when it comes (`Exposed`) is paid for already, by the sample whose handler
has cleared the flag and is about to be added.

`WakeupsAreNotLost` rests on `WakeInv`: while a removal sleeps, the ring holds no more
elements than there are threads that will answer for one - adders still to signal,
removals awake.  An add brings one of each; a removal takes one of each; a signal
replaces the adder that sends it by the removal it wakes, provided that only
removals sleep there (`NoBlockedAdd`).

`MutexComesBack` needs to know of a thread that sleeps that it is one of those that
block (`HolderInv`), so that it wakes where a removal goes on.

`OffsetWithinDelay` and `NewSamplesDecide` are a vote.  `FilterInv` says of each
sample that it is off by half of its own round trip at most, and one for rounding,
through unsigned stamps and a division (`SampleOK`), and that the offset in use is
the median of the ring.  That a median exists is shown by a well-founded minimum
(the definition chooses it by its rank, so nothing is sorted; `MiddleOfSorted`
shows by counting that it is what the code's `qsort` leaves at `n / 2`); `MajorityStraddles`
then finds in every majority of the accepted samples one at most as large and one
at least as large as the median, which lies no further from the truth than they do.

`FilterIsRight` rests on `IInv`: the number of a datagram is the server's newest less
its age, and `last` is the newest less `behind` (`AgesTrue`, `BehindTrue`), modulo
the range.  From these `DeltaOfAges` computes the signed difference from the two
ages; neither fact survives a wrap or a restart without the other, nor without the
bound on what may still be in the network.  `GapCountIsRight` adds `CountInv`, in
which the sum of the property also stays within one round of the counter.
`PermitIsOne` rests on `PermitInv`, which says for every place a permit can be -
semaphore, LED core, DMA, interrupt, handler, alarm - what the others then are.
`BuffersApart` rests on `BufferInv`: the buffer being read is the one drawn last,
and during the self test, which has one buffer only, the words still to be read are
fewer than what is left of its sleep (`ReadOrDrawn`).

`FramesArriveWhole` adds `FrameInv`, in which the words of a frame are counted wherever
they are, in memory, FIFO, shift register and strip: none or `NUM_PIXELS`
(`NoneMissing`), all of one picture (`OnePicture`), without a pause in the middle
(`NoGap`), and all gone when the permit comes back (`LineFree`).  The last rests on
`RestFits`: an armed alarm never rings before the words still to come out have come
out and the strip has reset, which `Tick` keeps because it lowers both by one.

`FramesStreamed` reads the words on their way as one sequence (`OnWay`).  `FrameInv`
says that they are one picture's and how many there are, so the sequence is known
from the two (`OnWayCounted`); a step that keeps both stutters, and the number
changes only when the DMA is started, from none to `NUM_PIXELS`, and when the strip
latches, from `NUM_PIXELS` to none.

The theorems about the LED clock rest on `LedInv`.  Its `Phased` says that the next beat
is the anchor or whole periods past it, and that in the second case a frame has been
drawn since the last beat.  `NoBeatIsMissed` needs `DrawnSince` besides, which says what the last
frame has shown.  `scale8` is a loop, here a recursive function of the bit; its
invariants (`TurnKeepsInv`) hold for every bit by `IntervalInduction`, which is
induction over an interval stated with a set where the library's theorems have a
predicate.  The same induction shows of the loop that makes up for missed beats that it
passes through whole periods (`RunIsTurned`), so that `BeatOf`, one division, is what
the code computes (`AdvanceIsLoop`).  `Scale8Range`, `Scale8Monotone` and `Scale8Quotient` are what the clock
needs of it.

About timers each port has an invariant of its own: a thread has ended before its
struct is freed (`ThreadsEnd`); an SDK alarm that has been cancelled is not armed again
(`AlarmsEnd`); what the daemon has not been told yet waits in its queue, in order, with
nothing about a timer behind its deletion (`DaemonKnows`), so that the call begun too
late on the ESP32 is the last (`LateOnce`).  They need `Owned`: no two handles share a
struct and no handle names a cancelled one.  For start-up, `TriesInv` bounds the tries
used by the losses in a row, and `FlagInv` says that the flag is up
without an address only in the middle of the DNS callback, and that start-up, once it
has seen the flag, ends only when the address is there: its next step is
`init_udp_socket`, which does not run during the callback.

For `Controller` the argument is in layers, each an inductive invariant that uses those before.

1. `TimersInv`: `exitHandler` is the handler of `state` whenever the event loop
   runs, and the handles are those of the state.  `TimersMatchState` alone is
   not inductive: what a transition cancels is decided by `exitHandler`.
2. `TypeParts`: the types.  That a cancelled timer existed (so that counts stay
   natural numbers) comes from layer 1.
3. `OrderInv`: what is true of every transition under way, in the queue or in
   the loop's hands.  `INITIALIZED` and `TIME_SYNCED` are under way at most
   once; `TIME_SYNCED` only in `REGISTERED` with no time request outstanding
   and at least one sample taken; `TEMPO_SYNCED` only where it stays legal.
   This is the heart of the matter: `TransitionsLegal` speaks of the event the
   loop holds, and is not inductive because it says nothing of the events behind
   it.  The key case is `HandleTime`: a time response is used only if its
   request is outstanding, which is then no longer so, and between `REGISTERED`
   and `TEMPO_SYNCED` nothing sends another.
4. `TempoInv`: in the first life a tempo exchange is in the network only from
   `TIME_SYNCED` on.  `LedFollowsRegistry` needs one fact more, `TempoToldIsSet`: the LED core is
   told of a tempo only once a server's is in the registry, so that it never reads
   the one `registry_init` left there.

Model-checked only: liveness (`GetsRegistered`, `GetsTempo`, `QueuedIsTaken`,
`FramesKeepComing`, `BeatsKeepComing`, `ProgramSettles`, `CancelReturns`,
`StartupEnds`), since the prover handles neither fairness nor `ENABLED`, and the two
violations, which are counterexamples.

## 5. The plan

Done: every part of the firmware that has a protocol, a race or arithmetic of its
own.  What could follow, in this order:

1. `Controller` with `RepeatingTimers` in the place of its own timers, so that a
   callback under way may still send a request of the state that was left.
2. `Controller` with several controllers and one server.

## 6. Not modelled

- `hal/runtime`, the POSIX simulator's window, and metal-cpp, the vendored headers
  it uses (more than two thirds of the repository's lines): they display frames
  and have one thing in common with the firmware, an atomic pointer to the last
  frame, replaced whole.  `spsc_queue.h` there is vendored and unused.
- The inside of the ESP32's LED driver, `hal/board`, `hal/blink`, `hal/process`: calls of an SDK
  in a row, without state.
- `autotest`, off by default; tests and build, read for what they state.
- Functions nobody calls: `queue_free`, `shutdown_udp_socket`, `hal_wifi_deinit`,
  `led_set_random_pattern`, `advance_next_beat_time`, `pattern_fade_exp`.
- A failed `queue_init` or `cyw43_arch_init`, after which the firmware goes on with
  what it has not got.
- The timer interrupt of the Pico under FreeRTOS takes lwIP's mutex
  (`LOCK_TCPIP_CORE`) where it cannot wait; what FreeRTOS then does is not
  defined.  Such a request is modelled as one that no lock keeps away.
- The running time of `led_update`'s loop over missed beats; `AdvanceIsLoop` bounds its
  turns by the periods to make up for, and the code sets no limit to these.
- What the colours look like: snakes and sparkles compute no index or divisor
  that could go wrong.
