------------------------------ MODULE DmaOutput ------------------------------
(***************************************************************************)
(* Frames on their way to the LED strip on the Pico: the LED core draws    *)
(* into one of two buffers and hands it to a DMA channel, which feeds the  *)
(* PIO's FIFO; the DMA's interrupt, on the same core, sets an alarm that   *)
(* gives the strip time to latch, and the alarm, on the other core,        *)
(* releases the semaphore the next frame waits for.  ws2812/ws2812.c,      *)
(* hal/ws2812/ports/pico and pico_freertos (the same but for the           *)
(* semaphore's type).                                                      *)
(*                                                                         *)
(* The strip has no frame mark: it takes words as they come, one per       *)
(* pixel, and shows them when the line has been quiet for LatchTicks.      *)
(* A tick is the time of one word, 30 us at 800 kHz.                       *)
(***************************************************************************)
EXTENDS Integers, Sequences

CONSTANTS
  NUM_PIXELS,
  FifoDepth,       \* words in the joined FIFO; one more is being shifted out
  AlarmTicks,      \* 400 us
  LatchTicks,      \* the strip's reset time
  SelfTests,       \* colours of led_self_test
  SelfTestTicks,   \* how long each is shown, LED_SELF_TEST_STEP_MS
  AlarmMayFail     \* no free alarm in the pool

\* The alarm is set when the DMA is done, with the FIFO still full.
ASSUME TimesAssumption ==
  /\ NUM_PIXELS \in Nat \ {0} /\ FifoDepth \in Nat \ {0} /\ LatchTicks \in Nat \ {0}
  /\ AlarmTicks \in Nat /\ AlarmTicks >= FifoDepth + 1 + LatchTicks
  /\ SelfTests \in Nat
  /\ SelfTestTicks \in Nat /\ SelfTestTicks > NUM_PIXELS + FifoDepth
  /\ AlarmMayFail \in BOOLEAN

VARIABLES
  colors,          \* the two frame buffers and led_self_test's own
  current_stream,
  pc, drawn,       \* the LED core: what it is at, pixels drawn so far
  picture,         \* which picture it is drawing (mod 3: two others may be about)
  tests, nap,      \* self tests to come, and ticks left to sleep
  sem,             \* reset_delay_complete_sem
  dma,             \* the buffer it reads and how far it is
  ints0,           \* the interrupt is raised
  isr,             \* dma_complete_handler: where it is
  reset_delay_alarm_id,
  alarm,           \* the alarm armed in the pool: its id and ticks to go
  callback,        \* reset_delay_complete: between its two lines
  fifo, osr,       \* words in the FIFO, and the one being shifted out
  strip, quiet     \* words since it last latched; ticks of quiet on the line

core   == <<colors, current_stream, pc, drawn, picture, tests, nap>>
irq    == <<ints0, isr>>
timer  == <<reset_delay_alarm_id, alarm, callback>>
line   == <<fifo, osr, strip, quiet>>
vars   == <<core, sem, dma, irq, timer, line>>

Pixel == 1 .. NUM_PIXELS
SelfTestBuffer == 2
Nothing == -1             \* no word
NoId == 0
Unarmed == [id |-> NoId, left |-> 0]
Stopped == [buffer |-> 0, next |-> NUM_PIXELS + 1]
Transferring == dma.next <= NUM_PIXELS

Init == /\ colors = [b \in 0 .. 2 |-> [p \in Pixel |-> 0]]
        /\ current_stream = IF SelfTests > 0 THEN SelfTestBuffer ELSE 0
        /\ pc = "draw" /\ drawn = 0 /\ picture = 0
        /\ tests = SelfTests /\ nap = 0
        /\ sem = 1
        /\ dma = Stopped
        /\ ints0 = FALSE /\ isr = "idle"
        /\ reset_delay_alarm_id = NoId /\ alarm = Unarmed /\ callback = FALSE
        /\ fifo = <<>> /\ osr = Nothing /\ strip = <<>> /\ quiet = LatchTicks

-------------------------------------------------------------------------------
(* The LED core, which the interrupt may stop between any two steps. *)

\* run_pattern, or led_self_test_fill's loop, pixel after pixel.
Draw == /\ isr = "idle" /\ pc = "draw" /\ drawn < NUM_PIXELS
        /\ colors' = [colors EXCEPT ![current_stream][drawn + 1] = picture]
        /\ drawn' = drawn + 1
        /\ UNCHANGED <<current_stream, pc, picture, tests, nap, sem, dma, irq, timer, line>>

\* output_strings_dma: sem_acquire_blocking, and then the trigger.
Acquire == /\ isr = "idle" /\ pc = "draw" /\ drawn = NUM_PIXELS
           /\ sem > 0
           /\ sem' = sem - 1
           /\ pc' = "trigger"
           /\ UNCHANGED <<colors, current_stream, drawn, picture, tests, nap, dma, irq, timer, line>>

\* MUTANT of NextStream: the buffers are not swapped.
SameStream(b) == IF b = SelfTestBuffer THEN 0 ELSE b

\* current_stream ^= 1; frames proper start with buffer 0.
NextStream(b) == IF b = SelfTestBuffer THEN 0 ELSE 1 - b

\* MUTANT of NapAfter: the self test does not sleep.
NoNap == 0

\* sleep_ms, in the self test only: between frames the LED core may sleep or
\* not, but a self test reuses its buffer.
NapAfter == IF tests > 0 THEN SelfTestTicks ELSE 0

Trigger == /\ isr = "idle" /\ pc = "trigger"
           /\ dma' = [buffer |-> current_stream, next |-> 1]
           /\ current_stream' = IF tests > 1 THEN SelfTestBuffer ELSE NextStream(current_stream)
           /\ tests' = IF tests > 0 THEN tests - 1 ELSE 0
           /\ nap' = NapAfter
           /\ pc' = "sleep"
           /\ drawn' = 0 /\ picture' = (picture + 1) % 3
           /\ UNCHANGED <<colors, sem, irq, timer, line>>

Wake == /\ isr = "idle" /\ pc = "sleep" /\ nap = 0
        /\ pc' = "draw"
        /\ UNCHANGED <<colors, current_stream, drawn, picture, tests, nap, sem, dma, irq, timer, line>>

-------------------------------------------------------------------------------
(* The interrupt, on the LED core, and the alarm, on the other one. *)

\* MUTANT of Acknowledged: the interrupt is raised again on return.
Unacknowledged == TRUE

\* Writing the bit to ints0 clears it.
Acknowledged == FALSE

\* Clear the interrupt; cancel an alarm still armed, if the handle is its.
EnterIsr ==
  /\ ints0 /\ isr = "idle"
  /\ ints0' = Acknowledged
  /\ alarm' = IF reset_delay_alarm_id # NoId /\ alarm.id = reset_delay_alarm_id
              THEN Unarmed ELSE alarm
  /\ isr' = "add"
  /\ UNCHANGED <<core, sem, dma, reset_delay_alarm_id, callback, line>>

\* MUTANT of Delay: the strip gets no time to latch.
NoDelay == 0

Delay == AlarmTicks

\* add_alarm_in_us.  Ids are not reused at once; -1 stands for a failure.
AddAlarm ==
  /\ isr = "add"
  /\ \/ \E id \in {1, 2} \ {reset_delay_alarm_id} :
          /\ alarm' = [id |-> id, left |-> Delay]
          /\ isr' = "store"
     \/ AlarmMayFail /\ isr' = "store failure" /\ UNCHANGED alarm
  /\ UNCHANGED <<core, sem, dma, ints0, reset_delay_alarm_id, callback, line>>

\* Its id is stored when the alarm may have gone off already.
StoreId ==
  /\ isr \in {"store", "store failure"}
  /\ reset_delay_alarm_id' \in IF isr = "store failure" THEN {-1}
                               ELSE IF alarm # Unarmed THEN {alarm.id} ELSE {1, 2}
  /\ isr' = "idle"
  /\ UNCHANGED <<core, sem, dma, ints0, alarm, callback, line>>

\* reset_delay_complete: forget the handle ...
AlarmFires ==
  /\ alarm # Unarmed /\ alarm.left = 0
  /\ alarm' = Unarmed
  /\ reset_delay_alarm_id' = NoId
  /\ callback' = TRUE
  /\ UNCHANGED <<core, sem, dma, irq, line>>

\* ... and release: a semaphore of one permit, a binary one on FreeRTOS.
Release ==
  /\ callback
  /\ callback' = FALSE
  /\ sem' = 1
  /\ UNCHANGED <<core, dma, irq, reset_delay_alarm_id, alarm, line>>

-------------------------------------------------------------------------------
(* The hardware. *)

\* The channel moves words as fast as the FIFO has room, and interrupts.
DmaWord ==
  /\ Transferring /\ Len(fifo) < FifoDepth
  /\ fifo' = Append(fifo, colors[dma.buffer][dma.next])
  /\ dma' = [dma EXCEPT !.next = @ + 1]
  /\ ints0' = (ints0 \/ dma.next = NUM_PIXELS)
  /\ UNCHANGED <<core, sem, isr, timer, osr, strip, quiet>>

\* A word's time passes: the strip gets the word being shifted out, or after
\* enough quiet shows what it has; the next word is loaded.
Tick ==
  /\ ~(Transferring /\ Len(fifo) < FifoDepth)
  /\ alarm # Unarmed => alarm.left > 0
  /\ IF osr # Nothing
     THEN /\ strip' = Append(strip, osr)
          /\ quiet' = 0
     ELSE /\ quiet' = IF quiet < LatchTicks THEN quiet + 1 ELSE quiet
          /\ strip' = IF quiet' = LatchTicks THEN <<>> ELSE strip
  /\ IF fifo # <<>> THEN osr' = Head(fifo) /\ fifo' = Tail(fifo)
                    ELSE osr' = Nothing /\ UNCHANGED fifo
  /\ nap' = IF nap > 0 THEN nap - 1 ELSE 0
  /\ alarm' = IF alarm # Unarmed THEN [alarm EXCEPT !.left = @ - 1] ELSE alarm
  /\ UNCHANGED <<colors, current_stream, pc, drawn, picture, tests, sem, dma, irq,
                 reset_delay_alarm_id, callback>>

LedCore == Draw \/ Acquire \/ Trigger \/ Wake
Handler == EnterIsr \/ AddAlarm \/ StoreId
Alarm   == AlarmFires \/ Release

Next == LedCore \/ Handler \/ Alarm \/ DmaWord \/ Tick

Spec == Init /\ [][Next]_vars

\* The LED core draws on and on, interrupts and alarms are served, and the
\* hardware does not stop.
FairSpec == /\ Spec
            /\ WF_vars(LedCore) /\ WF_vars(Handler) /\ WF_vars(Alarm)
            /\ WF_vars(DmaWord) /\ WF_vars(Tick)

-------------------------------------------------------------------------------
(***************************************************************************)
(* Properties.                                                             *)
(***************************************************************************)

TypeOK ==
  /\ colors \in [0 .. 2 -> [Pixel -> 0 .. 2]]
  /\ current_stream \in 0 .. 2
  /\ pc \in {"draw", "trigger", "sleep"} /\ drawn \in 0 .. NUM_PIXELS
  /\ picture \in 0 .. 2 /\ tests \in 0 .. SelfTests /\ nap \in 0 .. SelfTestTicks
  /\ sem \in 0 .. 1
  /\ dma \in [buffer : 0 .. 2, next : 1 .. NUM_PIXELS + 1]
  /\ ints0 \in BOOLEAN /\ isr \in {"idle", "add", "store", "store failure"}
  /\ reset_delay_alarm_id \in {-1, NoId, 1, 2}
  /\ alarm \in [id : 0 .. 2, left : 0 .. AlarmTicks] /\ callback \in BOOLEAN
  /\ fifo \in Seq(0 .. 2) /\ Len(fifo) <= FifoDepth
  /\ osr \in {Nothing} \cup 0 .. 2
  /\ strip \in Seq(0 .. 2) /\ quiet \in 0 .. LatchTicks

\* Whatever the strip holds belongs to one picture and fits it, and what it
\* latches is the whole of it: no frame is torn by drawing into the buffer
\* the DMA reads, none runs into the one before, none is cut short.
StripSeesWholeFrames ==
  /\ \A i \in 1 .. Len(strip) : strip[i] = strip[1]
  /\ Len(strip) <= NUM_PIXELS
  /\ quiet >= LatchTicks - 1 => Len(strip) \in {0, NUM_PIXELS}

\* The LED core never draws into a buffer that is being read, or waits to be:
\* with only two buffers it is the semaphore that keeps it from lapping the
\* DMA, although it draws the next frame before it asks for the semaphore.
NeverDrawsWhatIsRead ==
  [][colors' # colors => ~Transferring \/ dma.buffer # current_stream]_vars

\* The words on their way, the oldest first: those the strip has, the one being
\* shifted out, the FIFO, and what the DMA has still to read.
OnWay == strip \o (IF osr = Nothing THEN <<>> ELSE <<osr>>) \o fifo
               \o SubSeq(colors[dma.buffer], dma.next, NUM_PIXELS)

Stream == INSTANCE FrameStream WITH line <- OnWay

\* The pipeline sends the pictures in the order they were drawn, each once and
\* whole, and starts the next only when the strip has latched: buffers swapped
\* wrongly, a permit too many, an alarm too early, a word lost or drawn over
\* while it waits would each show.
ImplementsStream == Stream!Spec

\* The one permit is somewhere: with the LED core, or with the transfer, the
\* interrupt and the alarm that give it back one after the other, and never in
\* two of these places.  (Lost only when no alarm could be had.)
Places == <<sem = 1, pc = "trigger", Transferring, ints0,
            isr = "add", alarm # Unarmed, callback>>
OnePermit ==
  LET held == {i \in DOMAIN Places : Places[i]}
  IN  \A i, j \in held : i = j

\* As long as alarms can be had, another frame always goes out.
FramesKeepComing == [](reset_delay_alarm_id # -1) => []<>(pc = "trigger")

==============================================================================
