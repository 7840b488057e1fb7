--------------------------- MODULE DmaOutput_proofs ---------------------------
(***************************************************************************)
(* The DMA output's one permit, its two buffers and its frames, for every  *)
(* number of pixels, depth of the FIFO and length of the delays: the permit*)
(* is never in two places, the LED core never draws into the buffer the DMA*)
(* reads, the strip latches whole frames only, and the pictures reach it   *)
(* once each and in order (FrameStream).  The buffers are kept             *)
(* apart by the permit, and during self tests, which have one buffer only, *)
(* by the time they take; the frames come whole because nothing is sent    *)
(* between the DMA's last word and the alarm.                              *)
(***************************************************************************)
EXTENDS DmaOutput, SequenceTheorems, TLAPS

-------------------------------------------------------------------------------
(* Types, one lemma for each of the parts Next is made of. *)

LEMMA TypeInit == Init => TypeOK
<1> SUFFICES ASSUME Init PROVE TypeOK
  OBVIOUS
<1>1. colors \in [0 .. 2 -> [Pixel -> 0 .. 2]]
  BY DEF Init
<1>2. current_stream \in 0 .. 2 /\ tests \in 0 .. SelfTests /\ nap \in 0 .. SelfTestTicks
  BY TimesAssumption DEF Init, SelfTestBuffer
<1>3. dma \in [buffer : 0 .. 2, next : 1 .. NUM_PIXELS + 1]
  BY TimesAssumption DEF Init, Stopped
<1>4. alarm \in [id : 0 .. 2, left : 0 .. AlarmTicks]
  BY TimesAssumption DEF Init, Unarmed, NoId
<1>5. fifo \in Seq(0 .. 2) /\ Len(fifo) <= FifoDepth /\ strip \in Seq(0 .. 2)
  BY TimesAssumption DEF Init
<1>6. quiet \in 0 .. LatchTicks /\ drawn \in 0 .. NUM_PIXELS
  BY TimesAssumption DEF Init
<1>7. /\ picture \in 0 .. 2 /\ sem \in 0 .. 1 /\ osr \in {Nothing} \cup 0 .. 2
      /\ pc \in {"draw", "trigger", "sleep"}
      /\ isr \in {"idle", "add", "store", "store failure"}
      /\ reset_delay_alarm_id \in {-1, NoId, 1, 2}
  BY DEF Init
<1>8. ints0 \in BOOLEAN /\ callback \in BOOLEAN
  BY DEF Init
<1> QED BY <1>1, <1>2, <1>3, <1>4, <1>5, <1>6, <1>7, <1>8 DEF TypeOK

LEMMA LedCoreType ==
  ASSUME TypeOK, LedCore
  PROVE  TypeOK'
<1>1. CASE Draw
  <2>1. drawn + 1 \in Pixel /\ drawn' \in 0 .. NUM_PIXELS
    BY <1>1, TimesAssumption DEF Draw, TypeOK, Pixel
  <2>2. colors' \in [0 .. 2 -> [Pixel -> 0 .. 2]]
    BY <1>1, <2>1 DEF Draw, TypeOK
  <2> QED BY <1>1, <2>1, <2>2 DEF Draw, TypeOK, irq, timer, line
<1>2. CASE Acquire
  BY <1>2 DEF Acquire, TypeOK, irq, timer, line
<1>3. CASE Trigger
  <2>1. dma' \in [buffer : 0 .. 2, next : 1 .. NUM_PIXELS + 1]
    BY <1>3, TimesAssumption DEF Trigger, TypeOK
  <2>2. current_stream' \in 0 .. 2
    BY <1>3 DEF Trigger, TypeOK, NextStream, SelfTestBuffer
  <2>3. tests' \in 0 .. SelfTests /\ nap' \in 0 .. SelfTestTicks
    BY <1>3, TimesAssumption DEF Trigger, TypeOK, NapAfter
  <2>4. drawn' \in 0 .. NUM_PIXELS /\ picture' \in 0 .. 2
    BY <1>3, TimesAssumption DEF Trigger, TypeOK
  <2> QED BY <1>3, <2>1, <2>2, <2>3, <2>4 DEF Trigger, TypeOK, irq, timer, line
<1>4. CASE Wake
  BY <1>4 DEF Wake, TypeOK, irq, timer, line
<1> QED BY <1>1, <1>2, <1>3, <1>4 DEF LedCore

LEMMA HandlerType ==
  ASSUME TypeOK, Handler
  PROVE  TypeOK'
<1>0. Unarmed \in [id : 0 .. 2, left : 0 .. AlarmTicks]
  BY TimesAssumption DEF Unarmed, NoId
<1>1. CASE EnterIsr
  BY <1>0, <1>1 DEF EnterIsr, TypeOK, core, line, Acknowledged
<1>2. CASE AddAlarm
  <2>1. \A id \in {1, 2} : [id |-> id, left |-> Delay] \in [id : 0 .. 2, left : 0 .. AlarmTicks]
    BY TimesAssumption DEF Delay
  <2>2. alarm' \in [id : 0 .. 2, left : 0 .. AlarmTicks] /\ isr' \in {"store", "store failure"}
    BY <1>2, <2>1 DEF AddAlarm, TypeOK
  <2> QED BY <1>2, <2>2 DEF AddAlarm, TypeOK, core, line
<1>3. CASE StoreId
  <2>1. reset_delay_alarm_id' \in {-1, NoId, 1, 2}
    <3>1. /\ alarm \in [id : 0 .. 2, left : 0 .. AlarmTicks]
          /\ reset_delay_alarm_id' \in IF isr = "store failure" THEN {-1}
                                       ELSE IF alarm # Unarmed THEN {alarm.id} ELSE {1, 2}
      BY <1>3 DEF StoreId, TypeOK
    <3>2. alarm.id \in 0 .. 2
      BY <3>1
    <3>3. 0 .. 2 \subseteq {-1, NoId, 1, 2}
      BY DEF NoId
    <3> QED BY <3>1, <3>2, <3>3
  <2>2. isr' = "idle"
        /\ UNCHANGED <<core, sem, dma, ints0, alarm, callback, line>>
    BY <1>3 DEF StoreId
  <2>3. isr' \in {"idle", "add", "store", "store failure"}
    BY <2>2
  <2>4. UNCHANGED <<colors, current_stream, pc, drawn, picture, tests, nap, sem, dma,
                    ints0, alarm, callback, fifo, osr, strip, quiet>>
    BY <2>2 DEF core, line
  <2> QED BY <2>1, <2>3, <2>4 DEF TypeOK
<1> QED BY <1>1, <1>2, <1>3 DEF Handler

LEMMA AlarmType ==
  ASSUME TypeOK, Alarm
  PROVE  TypeOK'
<1>1. alarm' \in [id : 0 .. 2, left : 0 .. AlarmTicks]
  <2>1. Unarmed \in [id : 0 .. 2, left : 0 .. AlarmTicks]
    BY TimesAssumption DEF Unarmed, NoId
  <2> QED BY <2>1 DEF Alarm, AlarmFires, Release, TypeOK
<1>2. reset_delay_alarm_id' \in {-1, NoId, 1, 2} /\ sem' \in 0 .. 1
  <2>1. /\ reset_delay_alarm_id' \in {NoId, reset_delay_alarm_id} /\ sem' \in {sem, 1}
        /\ reset_delay_alarm_id \in {-1, NoId, 1, 2} /\ sem \in 0 .. 1
    BY DEF Alarm, AlarmFires, Release, TypeOK
  <2> QED BY <2>1
<1>3. callback' \in BOOLEAN
  BY DEF Alarm, AlarmFires, Release
<1>4. UNCHANGED <<core, dma, irq, line>>
  BY DEF Alarm, AlarmFires, Release
<1> QED BY <1>1, <1>2, <1>3, <1>4 DEF TypeOK, core, irq, line

LEMMA DmaWordType ==
  ASSUME TypeOK, DmaWord
  PROVE  TypeOK'
<1>1. dma.next \in Pixel /\ dma.buffer \in 0 .. 2
  <2>1. dma \in [buffer : 0 .. 2, next : 1 .. NUM_PIXELS + 1] /\ dma.next <= NUM_PIXELS
    BY DEF DmaWord, TypeOK, Transferring
  <2> QED BY <2>1, TimesAssumption DEF Pixel
<1>2. colors[dma.buffer][dma.next] \in 0 .. 2
  <2>1. colors \in [0 .. 2 -> [Pixel -> 0 .. 2]]
    BY DEF TypeOK
  <2> QED BY <1>1, <2>1
<1>3. fifo' \in Seq(0 .. 2) /\ Len(fifo') <= FifoDepth
  <2>1. /\ fifo \in Seq(0 .. 2) /\ Len(fifo) < FifoDepth /\ FifoDepth \in Nat
        /\ fifo' = Append(fifo, colors[dma.buffer][dma.next])
    BY TimesAssumption DEF DmaWord, TypeOK
  <2> QED BY <1>2, <2>1
<1>4. dma' \in [buffer : 0 .. 2, next : 1 .. NUM_PIXELS + 1]
  <2>1. /\ dma \in [buffer : 0 .. 2, next : 1 .. NUM_PIXELS + 1]
        /\ dma' = [dma EXCEPT !.next = dma.next + 1]
    BY DEF DmaWord, TypeOK
  <2>2. dma.next + 1 \in 1 .. NUM_PIXELS + 1
    BY <1>1, TimesAssumption DEF Pixel
  <2> QED BY <2>1, <2>2
<1>5. UNCHANGED <<core, sem, isr, timer, osr, strip, quiet>> /\ ints0' \in BOOLEAN
  BY DEF DmaWord
<1> QED BY <1>3, <1>4, <1>5 DEF TypeOK, core, timer

LEMMA TickType ==
  ASSUME TypeOK, Tick
  PROVE  TypeOK'
<1>1. strip' \in Seq(0 .. 2) /\ quiet' \in 0 .. LatchTicks
  <2>1. /\ osr \in {Nothing} \cup 0 .. 2 /\ strip \in Seq(0 .. 2)
        /\ quiet \in 0 .. LatchTicks /\ LatchTicks \in Nat
    BY TimesAssumption DEF TypeOK
  <2>2. /\ IF osr # Nothing THEN strip' = Append(strip, osr) /\ quiet' = 0
           ELSE /\ quiet' = IF quiet < LatchTicks THEN quiet + 1 ELSE quiet
                /\ strip' = IF quiet' = LatchTicks THEN <<>> ELSE strip
    BY DEF Tick
  <2>3. CASE osr = Nothing
    <3>1. strip' = <<>> \/ strip' = strip
      BY <2>2, <2>3
    <3>2. quiet' = IF quiet < LatchTicks THEN quiet + 1 ELSE quiet
      BY <2>2, <2>3
    <3>3. <<>> \in Seq(0 .. 2)
      OBVIOUS
    <3>4. quiet' \in 0 .. LatchTicks
      BY <2>1, <3>2
    <3>5. strip' \in Seq(0 .. 2)
      BY <2>1, <3>1, <3>3
    <3> QED BY <3>4, <3>5
  <2>4. CASE osr # Nothing
    <3>1. osr \in 0 .. 2 /\ strip' = Append(strip, osr) /\ quiet' = 0
      BY <2>1, <2>2, <2>4
    <3> QED BY <2>1, <3>1
  <2> QED BY <2>3, <2>4
<1>2. /\ fifo' \in Seq(0 .. 2) /\ Len(fifo') <= FifoDepth
      /\ osr' \in {Nothing} \cup 0 .. 2
  <2>1. fifo \in Seq(0 .. 2) /\ Len(fifo) <= FifoDepth /\ FifoDepth \in Nat
    BY TimesAssumption DEF TypeOK
  <2>2. IF fifo # <<>> THEN osr' = Head(fifo) /\ fifo' = Tail(fifo)
        ELSE osr' = Nothing /\ fifo' = fifo
    BY DEF Tick
  <2> QED BY <2>1, <2>2
<1>3. nap' \in 0 .. SelfTestTicks
  <2>1. nap \in 0 .. SelfTestTicks /\ SelfTestTicks \in Nat
    BY TimesAssumption DEF TypeOK
  <2>2. nap' = IF nap > 0 THEN nap - 1 ELSE 0
    BY DEF Tick
  <2> QED BY <2>1, <2>2
<1>4. alarm' \in [id : 0 .. 2, left : 0 .. AlarmTicks]
  <2>1. alarm \in [id : 0 .. 2, left : 0 .. AlarmTicks] /\ AlarmTicks \in Nat
    BY TimesAssumption DEF TypeOK
  <2>2. CASE alarm = Unarmed
    BY <2>1, <2>2 DEF Tick
  <2>3. CASE alarm # Unarmed
    <3>1. alarm.left - 1 \in 0 .. AlarmTicks
      <4>1. alarm.left > 0
        BY <2>3 DEF Tick
      <4> QED BY <2>1, <4>1
    <3>2. alarm' = [alarm EXCEPT !.left = alarm.left - 1]
      BY <2>3 DEF Tick
    <3> QED BY <2>1, <3>1, <3>2
  <2> QED BY <2>2, <2>3
<1>5. UNCHANGED <<colors, current_stream, pc, drawn, picture, tests, sem, dma,
                  ints0, isr, reset_delay_alarm_id, callback>>
  BY DEF Tick, irq
<1> QED BY <1>1, <1>2, <1>3, <1>4, <1>5 DEF TypeOK

LEMMA TypeNext == TypeOK /\ [Next]_vars => TypeOK'
<1> SUFFICES ASSUME TypeOK, [Next]_vars PROVE TypeOK'
  OBVIOUS
<1>1. CASE UNCHANGED vars
  BY <1>1 DEF vars, core, irq, timer, line, TypeOK
<1> QED BY <1>1, LedCoreType, HandlerType, AlarmType, DmaWordType, TickType DEF Next

\* Every variable keeps its type; in particular no word is written to a full
\* FIFO and no alarm counts down past zero.
THEOREM TypeCorrect == Spec => []TypeOK
BY TypeInit, TypeNext, PTL DEF Spec

-------------------------------------------------------------------------------
(* The one permit. *)

Armed == alarm # Unarmed

\* The places two by two, in the order the permit takes.
PermitInOnePlace ==
  /\ sem = 1 => pc # "trigger" /\ ~Transferring /\ ~ints0 /\ isr # "add" /\ ~Armed /\ ~callback
  /\ pc = "trigger" => ~Transferring /\ ~ints0 /\ isr # "add" /\ ~Armed /\ ~callback
  /\ Transferring => ~ints0 /\ isr # "add" /\ ~Armed /\ ~callback
  /\ ints0 => isr # "add" /\ ~Armed /\ ~callback
  /\ isr = "add" => ~Armed /\ ~callback
  /\ Armed => ~callback

\* An alarm that is armed stays so while it counts down.
ArmedHasId == Armed => alarm.id # NoId

PermitInv == TypeOK /\ PermitInOnePlace /\ ArmedHasId

LEMMA PermitImpliesOne == PermitInv => OnePermit
<1> SUFFICES ASSUME PermitInv, NEW i \in 1 .. 7, NEW j \in 1 .. 7, Places[i], Places[j]
             PROVE  i = j
  <2>1. DOMAIN Places = 1 .. 7
    BY DEF Places
  <2> QED BY <2>1 DEF OnePermit
<1>1. /\ Places[1] <=> sem = 1
      /\ Places[2] <=> pc = "trigger"
      /\ Places[3] <=> Transferring
      /\ Places[4] <=> ints0
      /\ Places[5] <=> isr = "add"
      /\ Places[6] <=> Armed
      /\ Places[7] <=> callback
  BY DEF Places, Armed
<1>2. \A k \in 1 .. 7 : k = 1 \/ k = 2 \/ k = 3 \/ k = 4 \/ k = 5 \/ k = 6 \/ k = 7
  OBVIOUS
<1> HIDE DEF Places
<1> QED BY <1>1, <1>2 DEF PermitInv, PermitInOnePlace

LEMMA PermitInit == Init => PermitInv
<1> SUFFICES ASSUME Init PROVE PermitInv
  OBVIOUS
<1>1. ~Transferring
  BY TimesAssumption DEF Init, Stopped, Transferring
<1>2. PermitInOnePlace /\ ArmedHasId
  BY <1>1 DEF Init, PermitInOnePlace, ArmedHasId, Armed
<1> QED BY <1>2, TypeInit DEF PermitInv

LEMMA PermitNext == PermitInv /\ [Next]_vars => PermitInv'
<1> SUFFICES ASSUME PermitInv, [Next]_vars PROVE PermitInv'
  OBVIOUS
<1>1. TypeOK'
  BY TypeNext DEF PermitInv
<1>2. PermitInOnePlace' /\ ArmedHasId'
  <2> USE DEF PermitInOnePlace, ArmedHasId, Armed
  <2>1. CASE UNCHANGED vars
    BY <2>1 DEF PermitInv, vars, core, irq, timer, line, Transferring
  <2>2. CASE Draw \/ Wake
    BY <2>2 DEF PermitInv, Draw, Wake, irq, timer, line, Transferring
  <2>3. CASE Acquire
    BY <2>3 DEF PermitInv, TypeOK, Acquire, irq, timer, line, Transferring
  <2>4. CASE Trigger
    BY <2>4 DEF PermitInv, TypeOK, Trigger, irq, timer, line, Transferring
  <2>5. CASE EnterIsr
    BY <2>5 DEF PermitInv, EnterIsr, Acknowledged, core, line, Transferring
  <2>6. CASE AddAlarm
    <3>1. alarm = Unarmed
      BY <2>6 DEF PermitInv, AddAlarm
    <3>2. alarm' = Unarmed \/ alarm'.id \in {1, 2}
      <4>1. \A id \in {1, 2} : [id |-> id, left |-> Delay].id = id
        OBVIOUS
      <4>2. \/ \E id \in {1, 2} : alarm' = [id |-> id, left |-> Delay]
            \/ alarm' = alarm
        BY <2>6 DEF AddAlarm
      <4> QED BY <3>1, <4>1, <4>2
    <3>3. isr = "add" /\ isr' # "add"
          /\ UNCHANGED <<sem, pc, dma, ints0, callback>>
      BY <2>6 DEF AddAlarm, core
    <3> QED BY <3>2, <3>3 DEF PermitInv, Transferring, NoId
  <2>7. CASE StoreId
    BY <2>7 DEF PermitInv, StoreId, core, line, Transferring
  <2>8. CASE AlarmFires \/ Release
    BY <2>8 DEF PermitInv, AlarmFires, Release, core, irq, line, Transferring
  <2>9. CASE DmaWord
    <3>1. dma.next \in 1 .. NUM_PIXELS /\ dma'.next = dma.next + 1
      <4>1. dma \in [buffer : 0 .. 2, next : 1 .. NUM_PIXELS + 1]
        BY DEF PermitInv, TypeOK
      <4>2. dma.next <= NUM_PIXELS /\ dma' = [dma EXCEPT !.next = dma.next + 1]
        BY <2>9 DEF DmaWord, Transferring
      <4> QED BY <4>1, <4>2, TimesAssumption
    <3>2. ints0' <=> ints0 \/ dma.next = NUM_PIXELS
      BY <2>9 DEF DmaWord
    <3>3. Transferring /\ (Transferring' <=> dma.next # NUM_PIXELS)
      BY <3>1, <2>9, TimesAssumption DEF DmaWord, Transferring
    <3>4. UNCHANGED <<sem, pc, isr, alarm, callback>>
      BY <2>9 DEF DmaWord, core, timer
    <3> QED BY <3>2, <3>3, <3>4 DEF PermitInv
  <2>10. CASE Tick
    <3>1. Armed' <=> Armed
      BY <2>10 DEF PermitInv, TypeOK, Tick, Unarmed
    <3>2. alarm'.id = alarm.id
      BY <2>10 DEF PermitInv, TypeOK, Tick
    <3>3. UNCHANGED <<sem, pc, dma, ints0, isr, callback>>
      BY <2>10 DEF Tick, irq
    <3>4. Transferring' <=> Transferring
      BY <3>3 DEF Transferring
    <3> HIDE DEF Armed
    <3> QED BY <3>1, <3>2, <3>3, <3>4 DEF PermitInv
  <2> QED BY <2>1, <2>2, <2>3, <2>4, <2>5, <2>6, <2>7, <2>8, <2>9, <2>10
          DEF Next, LedCore, Handler, Alarm
<1> QED BY <1>1, <1>2 DEF PermitInv

\* The permit to send a frame is never in two places: neither an interrupt nor
\* an alarm can give it back twice, whatever their order on the two cores.
THEOREM PermitIsOne == Spec => []OnePermit
BY PermitInit, PermitNext, PermitImpliesOne, PTL DEF Spec

-------------------------------------------------------------------------------
(* The two buffers. *)

\* Words on their way, while the DMA transfers.
WordsLeft == (NUM_PIXELS + 1 - dma.next) + Len(fifo)

\* A buffer that is read and is the one to be drawn next is a self test's, and
\* the LED core sleeps for longer than its words take.
ReadOrDrawn ==
  /\ (Transferring /\ dma.buffer = current_stream) => pc = "sleep" /\ WordsLeft < nap

BufferInv == PermitInv /\ ReadOrDrawn

LEMMA BufferInit == Init => BufferInv
<1>1. Init => ~Transferring
  BY TimesAssumption DEF Init, Stopped, Transferring
<1> QED BY <1>1, PermitInit DEF BufferInv, ReadOrDrawn

\* The buffer handed over is not the next one to be drawn, or there is a nap.
LEMMA HandedOver ==
  ASSUME PermitInv, Trigger
  PROVE  ReadOrDrawn'
<1>1. /\ current_stream \in 0 .. 2 /\ tests \in Nat
      /\ fifo \in Seq(0 .. 2) /\ Len(fifo) <= FifoDepth
  <2>1. /\ current_stream \in 0 .. 2 /\ tests \in 0 .. SelfTests
        /\ fifo \in Seq(0 .. 2) /\ Len(fifo) <= FifoDepth
    BY DEF PermitInv, TypeOK
  <2> QED BY <2>1, TimesAssumption
<1>2. dma'.buffer = current_stream /\ dma'.next = 1 /\ fifo' = fifo /\ pc' = "sleep"
  BY DEF Trigger, line
<1>3. CASE tests > 1
  <2>1. nap' = SelfTestTicks
    BY <1>1, <1>3 DEF Trigger, NapAfter
  <2>2. WordsLeft' < nap'
    BY <1>1, <1>2, <2>1, TimesAssumption DEF WordsLeft
  <2> QED BY <1>2, <2>2 DEF ReadOrDrawn
<1>4. CASE ~(tests > 1)
  <2>1. current_stream' = NextStream(current_stream)
    BY <1>4 DEF Trigger
  <2>2. current_stream' # current_stream
    BY <1>1, <2>1 DEF NextStream, SelfTestBuffer
  <2> QED BY <1>2, <2>2 DEF ReadOrDrawn
<1> QED BY <1>3, <1>4

LEMMA TimePasses ==
  ASSUME PermitInv, ReadOrDrawn, Tick
  PROVE  ReadOrDrawn'
<1>1. UNCHANGED <<current_stream, pc, dma>>
  BY DEF Tick
<1> SUFFICES ASSUME Transferring, dma.buffer = current_stream
             PROVE  pc = "sleep" /\ WordsLeft' < nap'
  BY <1>1 DEF ReadOrDrawn, Transferring
<1>2. /\ fifo \in Seq(0 .. 2) /\ ~(Len(fifo) < FifoDepth) /\ FifoDepth \in Nat \ {0}
      /\ nap \in Nat /\ dma.next \in 1 .. NUM_PIXELS /\ NUM_PIXELS \in Nat
  <2>1. dma \in [buffer : 0 .. 2, next : 1 .. NUM_PIXELS + 1] /\ dma.next <= NUM_PIXELS
    BY DEF PermitInv, TypeOK, Transferring
  <2>2. dma.next \in 1 .. NUM_PIXELS /\ NUM_PIXELS \in Nat
    BY <2>1, TimesAssumption
  <2>3. fifo \in Seq(0 .. 2) /\ nap \in Nat
    <3>1. fifo \in Seq(0 .. 2) /\ nap \in 0 .. SelfTestTicks
      BY DEF PermitInv, TypeOK
    <3> QED BY <3>1, TimesAssumption
  <2> QED BY <2>2, <2>3, TimesAssumption DEF Tick
<1>3. pc = "sleep" /\ WordsLeft < nap
  BY DEF ReadOrDrawn
<1>4. Len(fifo) \in Nat /\ fifo # <<>>
  BY <1>2
<1>5. fifo' = Tail(fifo)
  BY <1>4 DEF Tick
<1>6. Len(fifo') = Len(fifo) - 1
  BY <1>2, <1>4, <1>5
<1>7. WordsLeft' = WordsLeft - 1 /\ WordsLeft \in Nat
  BY <1>1, <1>2, <1>4, <1>6 DEF WordsLeft
<1>8. nap' = nap - 1
  BY <1>2, <1>3, <1>7 DEF Tick
<1> QED BY <1>2, <1>3, <1>7, <1>8

\* A word moved to the FIFO is still on its way.
LEMMA WordMoves ==
  ASSUME PermitInv, ReadOrDrawn, DmaWord
  PROVE  ReadOrDrawn'
<1>1. UNCHANGED <<current_stream, pc, nap>> /\ Transferring
      /\ dma' = [dma EXCEPT !.next = dma.next + 1]
      /\ fifo' = Append(fifo, colors[dma.buffer][dma.next])
  BY DEF DmaWord, core
<1>2. /\ dma \in [buffer : 0 .. 2, next : 1 .. NUM_PIXELS + 1]
      /\ fifo \in Seq(0 .. 2) /\ NUM_PIXELS \in Nat
  BY TimesAssumption DEF PermitInv, TypeOK
<1>3. dma'.buffer = dma.buffer /\ dma'.next = dma.next + 1 /\ dma.next \in Nat
  BY <1>1, <1>2
<1>4. Len(fifo') = Len(fifo) + 1 /\ Len(fifo) \in Nat
  BY <1>1, <1>2
<1>5. WordsLeft' = WordsLeft
  <2>1. \A pixels, next, words \in Nat :
          (pixels + 1 - (next + 1)) + (words + 1) = (pixels + 1 - next) + words
    OBVIOUS
  <2>2. (NUM_PIXELS + 1 - (dma.next + 1)) + (Len(fifo) + 1) = WordsLeft
    <3>1. NUM_PIXELS \in Nat /\ dma.next \in Nat /\ Len(fifo) \in Nat
      BY <1>3, <1>4, TimesAssumption
    <3> QED BY <2>1, <3>1, Zenon DEF WordsLeft
  <2>3. WordsLeft' = (NUM_PIXELS + 1 - (dma.next + 1)) + (Len(fifo) + 1)
    BY <1>3, <1>4, Zenon DEF WordsLeft
  <2> QED BY <2>2, <2>3
<1> QED BY <1>1, <1>3, <1>5 DEF ReadOrDrawn

LEMMA BufferNext == BufferInv /\ [Next]_vars => BufferInv'
<1> SUFFICES ASSUME BufferInv, [Next]_vars PROVE BufferInv'
  OBVIOUS
<1>1. PermitInv'
  BY PermitNext DEF BufferInv
<1>2. ReadOrDrawn'
  <2>1. CASE Trigger
    BY <2>1, HandedOver DEF BufferInv
  <2>2. CASE Tick
    BY <2>2, TimePasses DEF BufferInv
  <2>3. CASE DmaWord
    BY <2>3, WordMoves DEF BufferInv
  <2>4. CASE Acquire
    <3>1. ~Transferring
      BY <2>4 DEF BufferInv, PermitInv, PermitInOnePlace, TypeOK, Acquire
    <3>2. UNCHANGED dma
      BY <2>4 DEF Acquire
    <3> QED BY <3>1, <3>2 DEF ReadOrDrawn, Transferring
  <2>5. CASE Wake
    <3>1. nap = 0 /\ UNCHANGED <<current_stream, nap, dma, fifo>>
      BY <2>5 DEF Wake, line
    <3>2. Transferring => WordsLeft \in Nat
      <4>1. /\ dma \in [buffer : 0 .. 2, next : 1 .. NUM_PIXELS + 1]
            /\ fifo \in Seq(0 .. 2) /\ NUM_PIXELS \in Nat
        BY TimesAssumption DEF BufferInv, PermitInv, TypeOK
      <4>2. Len(fifo) \in Nat /\ dma.next \in 1 .. NUM_PIXELS + 1
        BY <4>1
      <4> QED BY <4>1, <4>2 DEF WordsLeft
    <3>3. ~(Transferring /\ dma.buffer = current_stream)
      BY <3>1, <3>2 DEF BufferInv, ReadOrDrawn
    <3> QED BY <3>1, <3>3 DEF ReadOrDrawn, Transferring
  <2>6. CASE Draw \/ Handler \/ Alarm \/ UNCHANGED vars
    <3>1. UNCHANGED <<current_stream, pc, nap, dma, fifo>>
      BY <2>6 DEF Draw, Handler, EnterIsr, AddAlarm, StoreId, Alarm, AlarmFires, Release,
                  vars, core, line
    <3> QED BY <3>1 DEF BufferInv, ReadOrDrawn, WordsLeft, Transferring
  <2> QED BY <2>1, <2>2, <2>3, <2>4, <2>5, <2>6 DEF Next, LedCore
<1> QED BY <1>1, <1>2 DEF BufferInv

\* The LED core never draws into the buffer that is being read: a frame's
\* because the other one has to be handed over first, which takes the permit,
\* and a self test's because its words have left before the nap is over.
THEOREM BuffersApart == Spec => NeverDrawsWhatIsRead
<1>1. BufferInv /\ [Next]_vars
        => [colors' # colors => ~Transferring \/ dma.buffer # current_stream]_vars
  <2> SUFFICES ASSUME BufferInv, Next, colors' # colors
               PROVE  ~Transferring \/ dma.buffer # current_stream
    OBVIOUS
  <2>1. Draw
    BY DEF Next, LedCore, Acquire, Trigger, Wake, Handler, EnterIsr, AddAlarm, StoreId,
           Alarm, AlarmFires, Release, DmaWord, Tick, core
  <2> QED BY <2>1 DEF Draw, BufferInv, ReadOrDrawn
<1>2. Spec => []BufferInv
  BY BufferInit, BufferNext, PTL DEF Spec
<1> QED BY <1>1, <1>2, PTL DEF Spec, NeverDrawsWhatIsRead

-------------------------------------------------------------------------------
(***************************************************************************)
(* What the strip sees.  The words of one frame are counted from the DMA to*)
(* the strip; the alarm leaves them, and the strip's reset, enough time.   *)
(***************************************************************************)

\* What has been drawn is of the present picture.
DrawnInv ==
  /\ \A p \in 1 .. drawn : colors[current_stream][p] = picture
  /\ pc = "trigger" => drawn = NUM_PIXELS
  /\ pc = "sleep" => drawn = 0

ToMove   == NUM_PIXELS + 1 - dma.next
Shifting == IF osr = Nothing THEN 0 ELSE 1
Words    == Len(strip) + Shifting + Len(fifo) + ToMove

\* Everything on its way, and what the strip has, is of picture v.
OneColor(v) ==
  /\ \A i \in 1 .. Len(strip) : strip[i] = v
  /\ osr \in {Nothing, v}
  /\ \A i \in 1 .. Len(fifo) : fifo[i] = v
  /\ \A p \in dma.next .. NUM_PIXELS : colors[dma.buffer][p] = v

\* Ticks until the strip has latched.
Rest == IF osr # Nothing \/ fifo # <<>> THEN Len(fifo) + 1 + LatchTicks
        ELSE IF strip # <<>> THEN LatchTicks - quiet ELSE 0

OnePicture == \E v \in 0 .. 2 : OneColor(v)
NoneMissing == Words = 0 \/ Words = NUM_PIXELS
\* The line is quiet only before a frame and after it.
NoGap == strip # <<>> => /\ osr = Nothing => fifo = <<>> /\ ~Transferring
                         /\ osr # Nothing => quiet = 0
                         /\ quiet < LatchTicks
LineFree == sem = 1 \/ pc = "trigger" \/ callback => Words = 0
RestFits == Armed => Rest <= alarm.left

LineInv == OnePicture /\ NoneMissing /\ NoGap /\ LineFree /\ RestFits

FrameInv == BufferInv /\ DrawnInv /\ LineInv

\* A step that changes no picture under way.
SamePicture == \E v \in 0 .. 2 : OneColor(v) /\ OneColor(v)'

LEMMA LineTypes ==
  ASSUME TypeOK
  PROVE  /\ fifo \in Seq(0 .. 2) /\ Len(fifo) \in Nat /\ Len(fifo) <= FifoDepth
         /\ fifo = <<>> <=> Len(fifo) = 0
         /\ strip \in Seq(0 .. 2) /\ Len(strip) \in Nat
         /\ strip = <<>> <=> Len(strip) = 0
         /\ ToMove \in Nat /\ (Transferring <=> ToMove > 0)
         /\ Shifting \in 0 .. 1 /\ (Shifting = 0 <=> osr = Nothing)
         /\ Words \in Nat /\ NUM_PIXELS \in Nat \ {0} /\ LatchTicks \in Nat \ {0}
         /\ FifoDepth \in Nat \ {0} /\ AlarmTicks \in Nat
         /\ quiet \in 0 .. LatchTicks /\ alarm.left \in Nat
         /\ dma.next \in 1 .. NUM_PIXELS + 1
         /\ osr \in {Nothing} \cup 0 .. 2
<1>1. /\ fifo \in Seq(0 .. 2) /\ strip \in Seq(0 .. 2) /\ Len(fifo) <= FifoDepth
      /\ dma \in [buffer : 0 .. 2, next : 1 .. NUM_PIXELS + 1]
      /\ alarm \in [id : 0 .. 2, left : 0 .. AlarmTicks]
      /\ quiet \in 0 .. LatchTicks /\ osr \in {Nothing} \cup 0 .. 2
  BY DEF TypeOK
<1>2. /\ NUM_PIXELS \in Nat \ {0} /\ LatchTicks \in Nat \ {0} /\ FifoDepth \in Nat \ {0}
      /\ AlarmTicks \in Nat
  BY TimesAssumption
<1>3. /\ Len(fifo) \in Nat /\ (fifo = <<>> <=> Len(fifo) = 0)
      /\ Len(strip) \in Nat /\ (strip = <<>> <=> Len(strip) = 0)
  BY <1>1
<1>4. dma.next \in 1 .. NUM_PIXELS + 1 /\ alarm.left \in Nat
  BY <1>1, <1>2
<1>5. ToMove \in Nat /\ (Transferring <=> ToMove > 0)
  BY <1>2, <1>4 DEF ToMove, Transferring
<1>6. Shifting \in 0 .. 1 /\ (Shifting = 0 <=> osr = Nothing)
  BY DEF Shifting
<1>7. Words \in Nat
  BY <1>3, <1>5, <1>6 DEF Words
<1> QED BY <1>1, <1>2, <1>3, <1>4, <1>5, <1>6, <1>7

LEMMA FreeLine ==
  ASSUME TypeOK, Words = 0
  PROVE  strip = <<>> /\ osr = Nothing /\ fifo = <<>> /\ ~Transferring /\ ToMove = 0
<1> DEFINE a == Len(strip)
           b == Shifting
           c == Len(fifo)
           d == ToMove
<1>1. a \in Nat /\ b \in 0 .. 1 /\ c \in Nat /\ d \in Nat /\ a + b + c + d = 0
  BY LineTypes DEF Words
<1> HIDE DEF a, b, c, d
<1>2. a = 0 /\ b = 0 /\ c = 0 /\ d = 0 BY <1>1
<1> QED BY <1>2, LineTypes DEF a, b, c, d

LEMMA FrameInit == Init => DrawnInv /\ LineInv /\ OneColor(0) /\ Words = 0
<1> SUFFICES ASSUME Init PROVE DrawnInv /\ LineInv /\ OneColor(0) /\ Words = 0 OBVIOUS
<1>1. DrawnInv BY DEF Init, DrawnInv
<1>2. /\ strip = <<>> /\ osr = Nothing /\ fifo = <<>> /\ dma.next = NUM_PIXELS + 1
      /\ alarm = Unarmed /\ NUM_PIXELS \in Nat
  BY TimesAssumption DEF Init, Stopped
<1>3. ToMove = 0 /\ Shifting = 0 /\ Len(strip) = 0 /\ Len(fifo) = 0
  BY <1>2 DEF ToMove, Shifting
<1>4. Words = 0 BY <1>3 DEF Words
<1>5. OneColor(0) BY <1>2, <1>3 DEF OneColor
<1>6. OnePicture BY <1>5 DEF OnePicture
<1> QED BY <1>1, <1>2, <1>4, <1>5, <1>6 DEF LineInv, NoneMissing, NoGap, LineFree, RestFits, Armed

\* Where nothing moves on the line, only the permit and the alarm matter.
LEMMA StillLine ==
  ASSUME LineInv, UNCHANGED <<line, dma>>,
         \A p \in dma.next .. NUM_PIXELS : colors'[dma.buffer][p] = colors[dma.buffer][p]
  PROVE  /\ OnePicture' /\ NoneMissing' /\ NoGap' /\ Words' = Words /\ Rest' = Rest
         /\ SamePicture
<1>1. fifo' = fifo /\ osr' = osr /\ strip' = strip /\ quiet' = quiet /\ dma' = dma
  BY DEF line
<1>2. PICK v \in 0 .. 2 : OneColor(v) BY DEF LineInv, OnePicture
<1>3. OneColor(v)' BY <1>1, <1>2 DEF OneColor
<1>4. Words' = Words /\ Rest' = Rest
  BY <1>1 DEF Words, Rest, Shifting, ToMove
<1>5. SamePicture BY <1>2, <1>3 DEF SamePicture
<1> QED BY <1>1, <1>3, <1>4, <1>5 DEF OnePicture, NoneMissing, NoGap, LineInv, Transferring

LEMMA CoreFrames ==
  ASSUME FrameInv, LedCore, TypeOK'
  PROVE  /\ DrawnInv' /\ LineInv'
         /\ Trigger => /\ Words = 0 /\ Words' = NUM_PIXELS
                       /\ \A v \in 0 .. 2 : v = picture => OneColor(v)'
         /\ ~Trigger => Words' = Words /\ SamePicture
<1>1. TypeOK /\ BufferInv /\ PermitInv /\ DrawnInv /\ LineInv
  BY DEF FrameInv, BufferInv, PermitInv
<1>2. CASE Draw
  <2>1. /\ drawn \in 0 .. NUM_PIXELS /\ drawn < NUM_PIXELS /\ NUM_PIXELS \in Nat
        /\ current_stream \in 0 .. 2 /\ drawn + 1 \in Pixel
        /\ colors \in [0 .. 2 -> [Pixel -> 0 .. 2]] /\ dma.buffer \in 0 .. 2
    <3>1. /\ drawn \in 0 .. NUM_PIXELS /\ drawn < NUM_PIXELS /\ current_stream \in 0 .. 2
          /\ colors \in [0 .. 2 -> [Pixel -> 0 .. 2]]
      BY <1>1, <1>2 DEF Draw, TypeOK
    <3>2. dma \in [buffer : 0 .. 2, next : 1 .. NUM_PIXELS + 1] BY <1>1 DEF TypeOK
    <3>3. dma.buffer \in 0 .. 2 BY <3>2
    <3>4. drawn + 1 \in Pixel /\ NUM_PIXELS \in Nat BY <3>1, TimesAssumption DEF Pixel
    <3> QED BY <3>1, <3>3, <3>4
  <2>2. /\ colors' = [colors EXCEPT ![current_stream][drawn + 1] = picture]
        /\ drawn' = drawn + 1 /\ pc = "draw"
        /\ UNCHANGED <<current_stream, pc, picture, sem, dma, alarm, callback, line>>
    BY <1>2 DEF Draw, timer
  <2>3. colors'[current_stream] = [colors[current_stream] EXCEPT ![drawn + 1] = picture]
    BY <2>1, <2>2
  <2>4. \A b \in 0 .. 2 : b # current_stream => colors'[b] = colors[b]
    BY <2>1, <2>2
  <2>5. DrawnInv'
    <3>1. ASSUME NEW p \in 1 .. drawn + 1 PROVE colors'[current_stream][p] = picture
      <4>1. p \in Pixel BY <2>1 DEF Pixel
      <4>2. p = drawn + 1 \/ p \in 1 .. drawn BY <2>1
      <4> QED BY <1>1, <2>1, <2>3, <4>1, <4>2 DEF DrawnInv
    <3> QED BY <2>2, <3>1 DEF DrawnInv
  <2>6. \A p \in dma.next .. NUM_PIXELS : colors'[dma.buffer][p] = colors[dma.buffer][p]
    <3>1. CASE Transferring
      <4>1. dma.buffer # current_stream BY <1>1, <2>2, <3>1 DEF BufferInv, ReadOrDrawn
      <4> QED BY <2>1, <2>4, <4>1
    <3>2. CASE ~Transferring
      <4>1. dma.next .. NUM_PIXELS = {}
        BY <1>1, <3>2, LineTypes DEF Transferring
      <4> QED BY <4>1
    <3> QED BY <3>1, <3>2
  <2>7. /\ OnePicture' /\ NoneMissing' /\ NoGap' /\ Words' = Words /\ Rest' = Rest
        /\ SamePicture
    BY <1>1, <2>2, <2>6, StillLine
  <2>8. ~Trigger BY <2>2 DEF Trigger
  <2> QED BY <1>1, <2>2, <2>5, <2>7, <2>8 DEF LineInv, LineFree, RestFits, Armed
<1>3. CASE Acquire \/ Wake
  <2>1. UNCHANGED <<colors, current_stream, drawn, picture, dma, alarm, callback, line>>
    BY <1>3 DEF Acquire, Wake, timer
  <2>2. /\ OnePicture' /\ NoneMissing' /\ NoGap' /\ Words' = Words /\ Rest' = Rest
        /\ SamePicture
    BY <1>1, <2>1, StillLine
  <2>3. sem' = 1 \/ pc' = "trigger" => sem = 1 \/ pc = "trigger"
    <3>1. sem \in 0 .. 1 BY <1>1 DEF TypeOK
    <3>2. CASE Acquire
      <4>1. sem > 0 BY <3>2 DEF Acquire
      <4> QED BY <3>1, <4>1
    <3>3. CASE Wake BY <3>3 DEF Wake
    <3> QED BY <1>3, <3>2, <3>3
  <2>4. (pc' = "trigger" => drawn = NUM_PIXELS) /\ (pc' = "sleep" => drawn = 0)
    BY <1>1, <1>3 DEF Acquire, Wake, DrawnInv
  <2>5. ~Trigger BY <1>3 DEF Acquire, Wake, Trigger
  <2> QED BY <1>1, <2>1, <2>2, <2>3, <2>4, <2>5
          DEF DrawnInv, LineInv, LineFree, RestFits, Armed
<1>4. CASE Trigger
  <2>1. /\ pc = "trigger" /\ pc' = "sleep" /\ drawn' = 0 /\ dma' = [buffer |-> current_stream, next |-> 1]
        /\ UNCHANGED <<colors, sem, alarm, callback, fifo, osr, strip, quiet>>
    BY <1>4 DEF Trigger, timer, line
  <2>2. strip = <<>> /\ osr = Nothing /\ fifo = <<>>
    BY <1>1, <2>1, FreeLine DEF LineInv, LineFree
  <2>3. sem # 1 /\ ~callback /\ ~Armed
    BY <1>1, <2>1 DEF PermitInv, PermitInOnePlace
  <2>4. \A p \in 1 .. NUM_PIXELS : colors[current_stream][p] = picture
    BY <1>1, <2>1 DEF DrawnInv
  <2>5. PICK v \in 0 .. 2 : v = picture BY <1>1 DEF TypeOK
  <2>6. OneColor(v)'
    <3>1. \A i \in 1 .. Len(strip) : strip[i] = v BY <2>2
    <3>2. \A i \in 1 .. Len(fifo) : fifo[i] = v BY <2>2
    <3> QED BY <2>1, <2>2, <2>4, <2>5, <3>1, <3>2 DEF OneColor
  <2>7. Words' = NUM_PIXELS
    <3>1. ToMove' = NUM_PIXELS /\ Shifting' = 0 /\ Len(strip') = 0 /\ Len(fifo') = 0
      BY <2>1, <2>2, TimesAssumption DEF ToMove, Shifting
    <3> QED BY <3>1, TimesAssumption DEF Words
  <2>8. DrawnInv' BY <2>1 DEF DrawnInv
  <2>9. OnePicture' BY <2>6 DEF OnePicture
  <2>10. Words = 0 BY <1>1, <2>1 DEF LineInv, LineFree
  <2>11. ASSUME NEW w \in 0 .. 2, w = picture PROVE OneColor(w)'
    <3>1. w = v BY <2>5, <2>11
    <3> QED BY <2>6, <3>1
  <2>12. LineInv'
    BY <2>1, <2>2, <2>3, <2>7, <2>9
       DEF LineInv, NoneMissing, NoGap, LineFree, RestFits, Armed
  <2> QED BY <1>4, <2>7, <2>8, <2>10, <2>11, <2>12
<1> QED BY <1>2, <1>3, <1>4 DEF LedCore

LEMMA TimerFrames ==
  ASSUME FrameInv, Handler \/ Alarm, TypeOK'
  PROVE  DrawnInv' /\ LineInv' /\ Words' = Words /\ SamePicture
<1>1. TypeOK /\ PermitInv /\ DrawnInv /\ LineInv
  BY DEF FrameInv, BufferInv, PermitInv
<1>2. UNCHANGED <<core, dma, line>>
  BY DEF Handler, EnterIsr, AddAlarm, StoreId, Alarm, AlarmFires, Release
<1>3. /\ OnePicture' /\ NoneMissing' /\ NoGap' /\ Words' = Words /\ Rest' = Rest
      /\ SamePicture
  BY <1>1, <1>2, StillLine DEF core
<1>4. DrawnInv'
  BY <1>1, <1>2 DEF DrawnInv, core
<1>5. CASE EnterIsr \/ StoreId
  <2>1. UNCHANGED <<pc, sem, callback>> /\ (alarm' = alarm \/ alarm' = Unarmed)
    BY <1>5 DEF EnterIsr, StoreId, core
  <2> QED BY <1>1, <1>3, <1>4, <2>1 DEF LineInv, LineFree, RestFits, Armed
<1>6. CASE AddAlarm
  <2>1. UNCHANGED <<pc, sem, callback>> BY <1>6 DEF AddAlarm, core
  <2>2. CASE alarm' = alarm
    BY <1>1, <1>3, <1>4, <2>1, <2>2 DEF LineInv, LineFree, RestFits, Armed
  <2>3. CASE \E id \in {1, 2} : alarm' = [id |-> id, left |-> AlarmTicks]
    <3>1. alarm'.left = AlarmTicks BY <2>3
    <3>2. Rest <= AlarmTicks
      <4>1. Rest <= FifoDepth + 1 + LatchTicks BY <1>1, LineTypes DEF Rest
      <4>2. Rest \in Int BY <1>1, LineTypes DEF Rest
      <4> QED BY <4>1, <4>2, TimesAssumption
    <3> QED BY <1>1, <1>3, <1>4, <2>1, <3>1, <3>2 DEF LineInv, LineFree, RestFits
  <2> QED BY <1>6, <2>2, <2>3 DEF AddAlarm, Delay
<1>7. CASE AlarmFires
  <2>1. /\ Armed /\ alarm.left = 0 /\ alarm' = Unarmed
        /\ UNCHANGED <<pc, sem>>
    BY <1>7 DEF AlarmFires, Armed, core
  <2>2. Rest <= 0 BY <1>1, <2>1 DEF LineInv, RestFits
  <2>3. osr = Nothing /\ fifo = <<>> /\ strip = <<>>
    BY <1>1, <2>2, LineTypes DEF Rest, LineInv, NoGap
  <2>4. ToMove = 0
    <3>1. ~Transferring BY <1>1, <2>1 DEF PermitInv, PermitInOnePlace
    <3> QED BY <1>1, <3>1, LineTypes
  <2>5. Words = 0
    <3>1. Shifting = 0 /\ Len(fifo) = 0 /\ Len(strip) = 0 BY <2>3 DEF Shifting
    <3> QED BY <2>4, <3>1 DEF Words
  <2> QED BY <1>3, <1>4, <2>1, <2>5 DEF LineInv, LineFree, RestFits, Armed
<1>8. CASE Release
  <2>1. callback /\ ~callback' /\ UNCHANGED <<pc, alarm>>
    BY <1>8 DEF Release, core
  <2> QED BY <1>1, <1>3, <1>4, <2>1 DEF LineInv, LineFree, RestFits, Armed
<1> QED BY <1>5, <1>6, <1>7, <1>8 DEF Handler, Alarm

LEMMA WordFrames ==
  ASSUME FrameInv, DmaWord, TypeOK'
  PROVE  DrawnInv' /\ LineInv' /\ Words' = Words /\ SamePicture
<1>1. TypeOK /\ PermitInv /\ DrawnInv /\ LineInv
  BY DEF FrameInv, BufferInv, PermitInv
<1>2. /\ Transferring
      /\ fifo' = Append(fifo, colors[dma.buffer][dma.next])
      /\ dma' = [dma EXCEPT !.next = dma.next + 1]
      /\ UNCHANGED <<core, sem, callback, alarm, osr, strip, quiet>>
  BY DEF DmaWord, timer
<1>3. dma'.next = dma.next + 1 /\ dma'.buffer = dma.buffer /\ dma.next \in 1 .. NUM_PIXELS
  <2>1. dma \in [buffer : 0 .. 2, next : 1 .. NUM_PIXELS + 1] BY <1>1 DEF TypeOK
  <2>2. dma.next \in 1 .. NUM_PIXELS BY <1>1, <1>2, LineTypes DEF Transferring
  <2> QED BY <1>2, <2>1, <2>2
<1>4. DrawnInv'
  BY <1>1, <1>2 DEF DrawnInv, core
<1>5. PICK v \in 0 .. 2 : OneColor(v) BY <1>1 DEF LineInv, OnePicture
<1>6. OneColor(v)'
  <2>1. colors[dma.buffer][dma.next] = v
    <3>1. dma.next \in dma.next .. NUM_PIXELS BY <1>3
    <3> QED BY <1>5, <3>1 DEF OneColor
  <2>2. ASSUME NEW i \in 1 .. Len(fifo') PROVE fifo'[i] = v
    <3>1. /\ fifo' = Append(fifo, v) /\ fifo \in Seq(0 .. 2) /\ Len(fifo) \in Nat
      BY <1>1, <1>2, <2>1, LineTypes
    <3>2. i \in 1 .. Len(fifo) + 1 BY <3>1
    <3>3. CASE i = Len(fifo) + 1 BY <3>1, <3>3
    <3>4. CASE i # Len(fifo) + 1
      <4>1. i \in 1 .. Len(fifo) BY <3>1, <3>2, <3>4
      <4>2. fifo'[i] = fifo[i] BY <3>1, <4>1
      <4> QED BY <1>5, <4>1, <4>2 DEF OneColor
    <3> QED BY <3>3, <3>4
  <2>3. ASSUME NEW p \in dma'.next .. NUM_PIXELS PROVE colors'[dma'.buffer][p] = v
    <3>1. p \in dma.next .. NUM_PIXELS BY <1>3
    <3> QED BY <1>2, <1>3, <1>5, <3>1 DEF OneColor, core
  <2> QED BY <1>2, <1>5, <2>2, <2>3 DEF OneColor
<1>7. Words' = Words
  <2>1. Len(fifo') = Len(fifo) + 1 BY <1>1, <1>2, LineTypes
  <2>2. ToMove' = ToMove - 1
    <3>1. NUM_PIXELS \in Nat /\ dma.next \in Nat BY <1>3, TimesAssumption
    <3> QED BY <1>3, <3>1 DEF ToMove
  <2>3. Shifting' = Shifting /\ strip' = strip BY <1>2 DEF Shifting
  <2>4. Len(strip) \in Nat /\ Shifting \in Nat /\ Len(fifo) \in Nat /\ ToMove \in Nat
    BY <1>1, LineTypes
  <2>5. Words' = Len(strip) + Shifting + (Len(fifo) + 1) + (ToMove - 1)
    BY <2>1, <2>2, <2>3 DEF Words
  <2> HIDE DEF ToMove, Shifting
  <2> QED BY <2>4, <2>5 DEF Words
<1>8. NoGap'
  BY <1>1, <1>2 DEF LineInv, NoGap
<1>9. ~Armed /\ ~ (sem = 1 \/ pc = "trigger" \/ callback)
  BY <1>1, <1>2 DEF PermitInv, PermitInOnePlace
<1>10. OnePicture' BY <1>6 DEF OnePicture
<1>11. SamePicture BY <1>5, <1>6 DEF SamePicture
<1> QED BY <1>1, <1>2, <1>4, <1>7, <1>8, <1>9, <1>10, <1>11
        DEF LineInv, NoneMissing, LineFree, RestFits, Armed, core

\* A word's time.
LEMMA TickFrames ==
  ASSUME FrameInv, Tick, TypeOK'
  PROVE  DrawnInv' /\ LineInv' /\ Words' \in {Words, 0} /\ SamePicture
<1>1. TypeOK /\ DrawnInv /\ LineInv /\ NoGap
  BY DEF FrameInv, BufferInv, PermitInv, LineInv
<1>2. UNCHANGED <<colors, current_stream, pc, drawn, picture, sem, dma, callback>>
  BY DEF Tick
<1>3. fifo = <<>> => ~Transferring
  BY <1>1, LineTypes DEF Tick
<1>4. /\ osr # Nothing => strip' = Append(strip, osr) /\ quiet' = 0
      /\ osr = Nothing => /\ quiet' = IF quiet < LatchTicks THEN quiet + 1 ELSE quiet
                          /\ strip' = IF quiet' = LatchTicks THEN <<>> ELSE strip
      /\ fifo # <<>> => osr' = Head(fifo) /\ fifo' = Tail(fifo)
      /\ fifo = <<>> => osr' = Nothing /\ fifo' = fifo
  BY DEF Tick
<1>5. DrawnInv' BY <1>1, <1>2 DEF DrawnInv
<1>6. Transferring' <=> Transferring BY <1>2 DEF Transferring
<1> DEFINE s == Len(strip)
           f == Len(fifo)
<1>7. /\ s \in Nat /\ f \in Nat /\ (strip = <<>> <=> s = 0) /\ (fifo = <<>> <=> f = 0)
      /\ quiet \in 0 .. LatchTicks /\ LatchTicks \in Nat \ {0}
      /\ strip \in Seq(0 .. 2) /\ fifo \in Seq(0 .. 2) /\ Len(<<>>) = 0
  BY <1>1, LineTypes
<1>8. osr # Nothing => Len(strip') = s + 1 /\ strip' # <<>> /\ osr \in 0 .. 2
  BY <1>1, <1>4, <1>7, LineTypes
<1>9. fifo # <<>> => /\ Len(fifo') = f - 1 /\ osr' = fifo[1] /\ osr' # Nothing
                     /\ \A i \in 1 .. f - 1 : fifo'[i] = fifo[i + 1]
  <2> SUFFICES ASSUME fifo # <<>>
               PROVE  /\ Len(fifo') = f - 1 /\ osr' = fifo[1] /\ osr' # Nothing
                      /\ \A i \in 1 .. f - 1 : fifo'[i] = fifo[i + 1]
    OBVIOUS
  <2>1. fifo[1] \in 0 .. 2 /\ Head(fifo) = fifo[1] BY <1>7
  <2>2. Nothing \notin 0 .. 2 BY DEF Nothing
  <2>3. osr' = Head(fifo) /\ fifo' = Tail(fifo) BY <1>4
  <2>4. fifo \in Seq(0 .. 2) BY <1>7
  <2>5. /\ Len(Tail(fifo)) = Len(fifo) - 1
        /\ \A i \in 1 .. Len(fifo) - 1 : Tail(fifo)[i] = fifo[i + 1]
    BY <2>4
  <2>6. osr' = fifo[1] /\ osr' # Nothing BY <2>1, <2>2, <2>3
  <2> QED BY <2>3, <2>5, <2>6
<1>10. PICK v \in 0 .. 2 : OneColor(v) BY <1>1 DEF LineInv, OnePicture
<1>11. OneColor(v)'
  <2>1. ASSUME NEW i \in 1 .. Len(strip') PROVE strip'[i] = v
    <3>1. CASE osr # Nothing
      <4>1. osr = v /\ strip' = Append(strip, v) BY <1>4, <1>10, <3>1 DEF OneColor
      <4>2. v \in 0 .. 2 OBVIOUS
      <4>3. i = s + 1 => strip'[i] = v BY <1>7, <4>1
      <4>4. i \in 1 .. s => strip'[i] = strip[i] BY <1>7, <4>1
      <4>5. i \in 1 .. s + 1 BY <1>8, <3>1
      <4> QED BY <1>7, <1>10, <4>3, <4>4, <4>5 DEF OneColor
    <3>2. CASE osr = Nothing
      <4>1. strip' # <<>> BY <1>7
      <4>2. strip' = strip BY <1>4, <3>2, <4>1
      <4> QED BY <1>10, <4>2 DEF OneColor
    <3> QED BY <3>1, <3>2
  <2>2. osr' \in {Nothing, v}
    <3>1. fifo # <<>> => 1 \in 1 .. f BY <1>7
    <3> QED BY <1>4, <1>9, <1>10, <3>1 DEF OneColor
  <2>3. ASSUME NEW i \in 1 .. Len(fifo') PROVE fifo'[i] = v
    <3>1. fifo # <<>> BY <1>4, <1>7
    <3>2. i \in 1 .. f - 1 /\ i + 1 \in 1 .. f BY <1>7, <1>9, <3>1
    <3>3. fifo'[i] = fifo[i + 1] BY <1>9, <3>1, <3>2
    <3> QED BY <1>10, <3>2, <3>3 DEF OneColor
  <2> HIDE DEF s, f
  <2> QED BY <1>2, <1>10, <2>1, <2>2, <2>3 DEF OneColor
<1>12. OnePicture' BY <1>11 DEF OnePicture
<1>13. NoGap'
  <2> SUFFICES ASSUME strip' # <<>>
               PROVE  /\ osr' = Nothing => fifo' = <<>> /\ ~Transferring
                      /\ osr' # Nothing => quiet' = 0
                      /\ quiet' < LatchTicks
    BY <1>6 DEF NoGap
  <2>1. osr' = Nothing => fifo' = <<>> /\ ~Transferring BY <1>3, <1>4, <1>9
  <2>2. ASSUME osr' # Nothing PROVE quiet' = 0
    <3>1. fifo # <<>> BY <1>4, <2>2
    <3>2. osr # Nothing
      <4> SUFFICES ASSUME osr = Nothing PROVE FALSE OBVIOUS
      <4>1. strip = <<>> BY <1>1, <3>1 DEF NoGap
      <4> QED BY <1>4, <4>1
    <3> QED BY <1>4, <3>2
  <2>3. quiet' < LatchTicks
    <3>1. CASE osr # Nothing BY <1>4, <1>7, <3>1
    <3>2. CASE osr = Nothing
      <4>1. quiet' # LatchTicks BY <1>4, <3>2
      <4>2. quiet' = IF quiet < LatchTicks THEN quiet + 1 ELSE quiet BY <1>4, <3>2
      <4> QED BY <1>7, <4>1, <4>2
    <3> QED BY <3>1, <3>2
  <2> QED BY <2>1, <2>2, <2>3
<1>14. Words' = Words \/ Words' = 0
  <2>1. ToMove' = ToMove /\ ToMove \in Nat BY <1>1, <1>2, LineTypes DEF ToMove
  <2>2. Shifting = (IF osr = Nothing THEN 0 ELSE 1) /\ Shifting' = (IF osr' = Nothing THEN 0 ELSE 1)
    BY DEF Shifting
  <2>3. fifo = <<>> => ToMove = 0 BY <1>1, <1>3, LineTypes
  <2>4. Words = s + Shifting + f + ToMove /\ Words' = Len(strip') + Shifting' + Len(fifo') + ToMove'
    BY DEF Words
  <2> HIDE DEF ToMove, Shifting, Words
  <2>5. CASE osr # Nothing /\ fifo # <<>>
    <3>1. Len(strip') = s + 1 /\ Shifting = 1 /\ Shifting' = 1 /\ Len(fifo') = f - 1
      BY <1>8, <1>9, <2>2, <2>5
    <3> HIDE DEF s, f
    <3> QED BY <1>7, <2>1, <2>4, <3>1
  <2>6. CASE osr # Nothing /\ fifo = <<>>
    <3>1. Len(strip') = s + 1 /\ Shifting = 1 /\ Shifting' = 0 /\ Len(fifo') = f
      BY <1>4, <1>8, <2>2, <2>6
    <3> HIDE DEF s, f
    <3> QED BY <1>7, <2>1, <2>4, <3>1
  <2>7. CASE osr = Nothing /\ fifo # <<>>
    <3>1. strip = <<>> BY <1>1, <2>7 DEF NoGap
    <3>2. Len(strip') = s BY <1>4, <2>7, <3>1
    <3>3. Shifting = 0 /\ Shifting' = 1 /\ Len(fifo') = f - 1 BY <1>9, <2>2, <2>7
    <3> HIDE DEF s, f
    <3> QED BY <1>7, <2>1, <2>4, <3>2, <3>3
  <2>8. CASE osr = Nothing /\ fifo = <<>>
    <3>1. Shifting = 0 /\ Shifting' = 0 /\ Len(fifo') = f /\ f = 0 /\ ToMove = 0
      BY <1>4, <1>7, <2>2, <2>3, <2>8
    <3>2. strip' = strip \/ strip' = <<>> BY <1>4, <2>8
    <3>3. Len(strip') = s \/ Len(strip') = 0 BY <1>7, <3>2
    <3> HIDE DEF s, f
    <3> QED BY <1>7, <2>1, <2>4, <3>1, <3>3
  <2> QED BY <2>5, <2>6, <2>7, <2>8
<1>15. NoneMissing' BY <1>1, <1>14 DEF LineInv, NoneMissing
<1>16. LineFree' BY <1>1, <1>2, <1>14 DEF LineInv, LineFree
<1>17. RestFits'
  <2> SUFFICES ASSUME Armed' PROVE Rest' <= alarm'.left BY DEF RestFits
  <2>1. Armed /\ alarm' = [alarm EXCEPT !.left = alarm.left - 1] /\ alarm.left > 0
    BY DEF Tick, Armed
  <2>2. alarm'.left = alarm.left - 1 /\ alarm.left \in Nat
    <3>1. alarm \in [id : 0 .. 2, left : 0 .. AlarmTicks] BY <1>1 DEF TypeOK
    <3> QED BY <2>1, <3>1, <1>1, LineTypes
  <2>3. Rest <= alarm.left BY <1>1, <2>1 DEF LineInv, RestFits
  <2>4. CASE fifo # <<>>
    <3>1. Rest = f + 1 + LatchTicks /\ Rest' = (f - 1) + 1 + LatchTicks
      BY <1>9, <2>4 DEF Rest
    <3> HIDE DEF s, f
    <3> QED BY <1>7, <2>2, <2>3, <3>1
  <2>5. CASE fifo = <<>> /\ osr # Nothing
    <3>1. Rest = 0 + 1 + LatchTicks BY <1>7, <2>5 DEF Rest
    <3>2. Rest' = LatchTicks - 0 BY <1>4, <1>8, <2>5 DEF Rest
    <3> QED BY <1>7, <2>2, <2>3, <3>1, <3>2
  <2>6. CASE fifo = <<>> /\ osr = Nothing
    <3>1. Rest' = IF strip' # <<>> THEN LatchTicks - quiet' ELSE 0
      BY <1>4, <2>6 DEF Rest
    <3>2. CASE strip' = <<>> BY <2>1, <2>2, <3>1, <3>2
    <3>3. CASE strip' # <<>>
      <4>1. strip' = strip BY <1>4, <2>6, <3>3
      <4>2. quiet < LatchTicks /\ Rest = LatchTicks - quiet
        BY <1>1, <2>6, <3>3, <4>1 DEF NoGap, Rest
      <4>3. quiet' = quiet + 1 BY <1>4, <2>6, <4>2
      <4> QED BY <1>7, <2>2, <2>3, <3>1, <3>3, <4>2, <4>3
    <3> QED BY <3>2, <3>3
  <2> QED BY <2>4, <2>5, <2>6
<1>18. SamePicture BY <1>10, <1>11 DEF SamePicture
<1> QED BY <1>5, <1>12, <1>13, <1>14, <1>15, <1>16, <1>17, <1>18 DEF LineInv

LEMMA FrameInvariant == Spec => []FrameInv
<1>1. Init => FrameInv BY BufferInit, FrameInit DEF FrameInv
<1>2. FrameInv /\ [Next]_vars => FrameInv'
  <2> SUFFICES ASSUME FrameInv, [Next]_vars PROVE FrameInv' OBVIOUS
  <2>1. BufferInv' /\ TypeOK' BY BufferNext DEF FrameInv, BufferInv, PermitInv
  <2>2. CASE UNCHANGED vars
    <3>1. DrawnInv' BY <2>2 DEF FrameInv, DrawnInv, vars, core
    <3>2. OnePicture' /\ NoneMissing' /\ NoGap' /\ Words' = Words /\ Rest' = Rest
      BY <2>2, StillLine DEF FrameInv, vars, core
    <3>3. UNCHANGED <<sem, pc, callback, alarm>> BY <2>2 DEF vars, core, timer
    <3> QED BY <2>1, <3>1, <3>2, <3>3 DEF FrameInv, LineInv, LineFree, RestFits, Armed
  <2> QED BY <2>1, <2>2, CoreFrames, TimerFrames, WordFrames, TickFrames DEF Next, FrameInv
<1> QED BY <1>1, <1>2, PTL DEF Spec

\* Whatever the strip holds belongs to one picture, and it latches the whole of
\* it (StripSeesWholeFrames), for every strip, FIFO and alarm that leaves the
\* words in the FIFO and the strip's reset their time, if the reset takes longer
\* than a word.
THEOREM FramesArriveWhole == LatchTicks > 1 /\ Spec => []StripSeesWholeFrames
<1> SUFFICES ASSUME LatchTicks > 1 PROVE Spec => []StripSeesWholeFrames OBVIOUS
<1>1. FrameInv => StripSeesWholeFrames
  <2> SUFFICES ASSUME FrameInv PROVE StripSeesWholeFrames OBVIOUS
  <2>1. TypeOK /\ OnePicture /\ NoneMissing /\ NoGap
    BY DEF FrameInv, BufferInv, PermitInv, LineInv
  <2>2. PICK v \in 0 .. 2 : OneColor(v) BY <2>1 DEF OnePicture
  <2>3. \A i \in 1 .. Len(strip) : strip[i] = strip[1]
    <3> SUFFICES ASSUME NEW i \in 1 .. Len(strip) PROVE strip[i] = strip[1] OBVIOUS
    <3>1. 1 \in 1 .. Len(strip) BY <2>1, LineTypes
    <3> QED BY <2>2, <3>1 DEF OneColor
  <2> DEFINE a == Len(strip)
             b == Shifting
             c == Len(fifo)
             d == ToMove
  <2>4. /\ a \in Nat /\ b \in Nat /\ c \in Nat /\ d \in Nat /\ NUM_PIXELS \in Nat
        /\ a + b + c + d = 0 \/ a + b + c + d = NUM_PIXELS
    BY <2>1, LineTypes DEF Words, NoneMissing
  <2>5. a <= NUM_PIXELS
    <3> HIDE DEF a, b, c, d
    <3> QED BY <2>4
  <2>6. ASSUME quiet >= LatchTicks - 1, a # 0 PROVE a = NUM_PIXELS
    <3>1. strip # <<>> BY <2>1, <2>6, LineTypes
    <3>2. quiet # 0 BY <2>1, <2>6, LineTypes
    <3>3. osr = Nothing /\ fifo = <<>> /\ ~Transferring BY <2>1, <3>1, <3>2 DEF NoGap
    <3>4. b = 0 /\ c = 0 /\ d = 0 BY <2>1, <3>3, LineTypes
    <3> HIDE DEF a, b, c, d
    <3> QED BY <2>4, <2>6, <3>4
  <2> QED BY <2>3, <2>5, <2>6 DEF StripSeesWholeFrames
<1> QED BY <1>1, FrameInvariant, PTL
-------------------------------------------------------------------------------
(***************************************************************************)
(* The pipeline implements FrameStream: what is on its way is a picture as *)
(* often as there are words, and their number tells Send and Show from the *)
(* steps in between.                                                       *)
(***************************************************************************)

Alike(s, v) == \A i \in 1 .. Len(s) : s[i] = v
AlikeFrom(n, c, v) == \A p \in n .. NUM_PIXELS : c[p] = v

LEMMA Joined ==
  ASSUME NEW v \in 0 .. 2, NEW s \in Seq(0 .. 2), NEW t \in Seq(0 .. 2),
         Alike(s, v), Alike(t, v)
  PROVE  s \o t \in Seq(0 .. 2) /\ Len(s \o t) = Len(s) + Len(t) /\ Alike(s \o t, v)
<1>1. /\ s \o t \in Seq(0 .. 2) /\ Len(s \o t) = Len(s) + Len(t)
      /\ Len(s) \in Nat /\ Len(t) \in Nat
      /\ \A i \in 1 .. Len(s) + Len(t) :
           (s \o t)[i] = IF i <= Len(s) THEN s[i] ELSE t[i - Len(s)]
  BY ConcatProperties
<1>2. ASSUME NEW i \in 1 .. Len(s) + Len(t) PROVE (s \o t)[i] = v
  <2>1. CASE i <= Len(s)
    <3>1. i \in 1 .. Len(s) BY <1>1, <2>1
    <3> QED BY <1>1, <2>1, <3>1 DEF Alike
  <2>2. CASE ~ (i <= Len(s))
    <3>1. i - Len(s) \in 1 .. Len(t) BY <1>1, <2>2
    <3> QED BY <1>1, <2>2, <3>1 DEF Alike
  <2> QED BY <2>1, <2>2
<1> QED BY <1>1, <1>2 DEF Alike

\* OnWay and Words of a strip, a word shifted, a FIFO and a buffer.
Chain(s, o, f, c, n) == s \o (IF o = Nothing THEN <<>> ELSE <<o>>) \o f
                          \o SubSeq(c, n, NUM_PIXELS)
Number(s, o, f, n) == Len(s) + (IF o = Nothing THEN 0 ELSE 1) + Len(f)
                      + (NUM_PIXELS + 1 - n)

LEMMA AllOnWay ==
  ASSUME NEW v \in 0 .. 2, NEW s \in Seq(0 .. 2), NEW o \in {Nothing, v},
         NEW f \in Seq(0 .. 2), NEW c \in [Pixel -> 0 .. 2], NEW n \in 1 .. NUM_PIXELS + 1,
         Alike(s, v), Alike(f, v), AlikeFrom(n, c, v)
  PROVE  Chain(s, o, f, c, n) = [p \in 1 .. Number(s, o, f, n) |-> v]
<1> DEFINE w == IF o = Nothing THEN <<>> ELSE <<o>>
           r == SubSeq(c, n, NUM_PIXELS)
           k == IF o = Nothing THEN 0 ELSE 1
<1>1. w \in Seq(0 .. 2) /\ Len(w) = k /\ Alike(w, v)
  <2>1. CASE o = Nothing BY <2>1 DEF Alike
  <2>2. CASE o # Nothing
    <3>1. w = <<v>> BY <2>2
    <3>2. <<v>> \in Seq(0 .. 2) /\ Len(<<v>>) = 1 /\ <<v>>[1] = v OBVIOUS
    <3> QED BY <2>2, <3>1, <3>2 DEF Alike
  <2> QED BY <2>1, <2>2
<1>2. r \in Seq(0 .. 2) /\ Len(r) = NUM_PIXELS + 1 - n /\ Alike(r, v)
  <2>1. NUM_PIXELS \in Nat BY TimesAssumption
  <2>3. n \in Int /\ NUM_PIXELS \in Int /\ \A p \in n .. NUM_PIXELS : c[p] \in 0 .. 2
    BY <2>1 DEF Pixel
  <2>4. /\ r \in Seq(0 .. 2)
        /\ Len(r) = IF n <= NUM_PIXELS THEN NUM_PIXELS - n + 1 ELSE 0
        /\ \A i \in 1 .. NUM_PIXELS - n + 1 : r[i] = c[n + i - 1]
    BY <2>3, SubSeqProperties
  <2>5. \A i \in 1 .. NUM_PIXELS - n + 1 : n + i - 1 \in n .. NUM_PIXELS BY <2>1
  <2> QED BY <2>1, <2>4, <2>5 DEF Alike, AlikeFrom
<1> HIDE DEF w, r, k
<1>3. s \o w \in Seq(0 .. 2) /\ Len(s \o w) = Len(s) + k /\ Alike(s \o w, v)
  BY <1>1, Joined
<1>4. /\ s \o w \o f \in Seq(0 .. 2) /\ Len(s \o w \o f) = Len(s) + k + Len(f)
      /\ Alike(s \o w \o f, v)
  BY <1>3, Joined
<1>5. /\ s \o w \o f \o r \in Seq(0 .. 2) /\ Alike(s \o w \o f \o r, v)
      /\ Len(s \o w \o f \o r) = Len(s) + k + Len(f) + (NUM_PIXELS + 1 - n)
  BY <1>2, <1>4, Joined
<1> DEFINE all == s \o w \o f \o r
<1>6. all = [p \in 1 .. Len(all) |-> v]
  <2>1. all \in Seq(0 .. 2) /\ \A p \in 1 .. Len(all) : all[p] = v BY <1>5 DEF Alike
  <2> HIDE DEF all
  <2> DEFINE u == [p \in 1 .. Len(all) |-> v]
  <2>2. Len(all) \in Nat BY <2>1
  <2>3. u \in Seq(0 .. 2) /\ Len(u) = Len(all) /\ \A p \in 1 .. Len(all) : all[p] = u[p]
    BY <2>1, <2>2
  <2> HIDE DEF u
  <2>4. all = u BY <2>1, <2>3, SeqEqual
  <2> QED BY <2>4 DEF u
<1> QED BY <1>5, <1>6 DEF w, r, k, Chain, Number

LEMMA OnWayCounted ==
  ASSUME NEW v \in 0 .. 2
  PROVE  TypeOK /\ OneColor(v) => OnWay = [p \in 1 .. Words |-> v]
<1> SUFFICES ASSUME TypeOK, OneColor(v) PROVE OnWay = [p \in 1 .. Words |-> v]
  OBVIOUS
<1>1. /\ strip \in Seq(0 .. 2) /\ fifo \in Seq(0 .. 2) /\ osr \in {Nothing, v}
      /\ Alike(strip, v) /\ Alike(fifo, v) /\ dma.next \in 1 .. NUM_PIXELS + 1
      /\ AlikeFrom(dma.next, colors[dma.buffer], v)
  BY LineTypes DEF OneColor, Alike, AlikeFrom
<1>2. colors[dma.buffer] \in [Pixel -> 0 .. 2]
  <2>1. dma \in [buffer : 0 .. 2, next : 1 .. NUM_PIXELS + 1]
        /\ colors \in [0 .. 2 -> [Pixel -> 0 .. 2]]
    BY DEF TypeOK
  <2> QED BY <2>1
<1>3. Chain(strip, osr, fifo, colors[dma.buffer], dma.next)
      = [p \in 1 .. Number(strip, osr, fifo, dma.next) |-> v]
  <2> DEFINE c == colors[dma.buffer]
             n == dma.next
  <2>1. /\ c \in [Pixel -> 0 .. 2] /\ n \in 1 .. NUM_PIXELS + 1
        /\ AlikeFrom(n, c, v)
    BY <1>1, <1>2
  <2> HIDE DEF c, n
  <2>2. strip \in Seq(0 .. 2) BY <1>1
  <2>3. fifo \in Seq(0 .. 2) BY <1>1
  <2>4. osr \in {Nothing, v} BY <1>1
  <2>5. Alike(strip, v) /\ Alike(fifo, v) BY <1>1
  <2>6. Chain(strip, osr, fifo, c, n) = [p \in 1 .. Number(strip, osr, fifo, n) |-> v]
    BY <2>1, <2>2, <2>3, <2>4, <2>5, AllOnWay
  <2> QED BY <2>6 DEF c, n
<1> QED BY <1>3, Zenon DEF OnWay, Words, Shifting, ToMove, Chain, Number

LEMMA OnWayCountedNext ==
  ASSUME NEW v \in 0 .. 2, TypeOK', OneColor(v)'
  PROVE  OnWay' = [p \in 1 .. Words' |-> v]
<1>1. (TypeOK /\ OneColor(v) => OnWay = [p \in 1 .. Words |-> v])'
  BY OnWayCounted, PTL
<1> QED BY <1>1

\* The count of the words and their one picture decide which step of FrameStream
\* is taken.
LEMMA CountSame ==
  ASSUME TypeOK, TypeOK', NEW v \in 0 .. 2, OneColor(v), OneColor(v)', Words' = Words
  PROVE  OnWay' = OnWay
<1>1. OnWay = [p \in 1 .. Words |-> v] BY OnWayCounted
<1>2. OnWay' = [p \in 1 .. Words' |-> v] BY OnWayCountedNext
<1> QED BY <1>1, <1>2

\* The strip, FIFO, DMA, interrupt and alarm send the pictures drawn by the LED
\* core each once, whole and in order, and wait for the strip in between
\* (ImplementsStream): led_update with ws2812_dma.c, for every strip, FIFO and
\* alarm, and also when an alarm fails.
THEOREM FramesStreamed == Spec => ImplementsStream
<1>1. Init => Stream!Init
  <2> SUFFICES ASSUME Init PROVE Stream!Init OBVIOUS
  <2>1. OneColor(0) /\ Words = 0 /\ picture = 0
    BY FrameInit DEF Init
  <2>2. OnWay = [p \in 1 .. 0 |-> 0]
    BY <2>1, TypeInit, OnWayCounted
  <2>3. OnWay = <<>> BY <2>2
  <2> QED BY <2>1, <2>3 DEF Stream!Init
<1>2. FrameInv /\ FrameInv' /\ [Next]_vars => [Stream!Next]_<<picture, OnWay>>
  <2> SUFFICES ASSUME FrameInv, FrameInv', [Next]_vars
               PROVE  [Stream!Next]_<<picture, OnWay>>
    OBVIOUS
  <2>1. TypeOK /\ TypeOK' BY DEF FrameInv, BufferInv, PermitInv
  <2>2. CASE Words' = Words /\ SamePicture /\ picture' = picture
    <3>1. PICK v \in 0 .. 2 : OneColor(v) /\ OneColor(v)' BY <2>2 DEF SamePicture
    <3>2. OnWay' = OnWay BY <2>1, <2>2, <3>1, CountSame
    <3> QED BY <2>2, <3>2
  <2>3. CASE Tick
    <3>1. Words' \in {Words, 0} /\ SamePicture /\ picture' = picture
      BY <2>1, <2>3, TickFrames DEF Tick
    <3>2. CASE Words' = Words BY <2>2, <3>1, <3>2
    <3>3. CASE Words' = 0 /\ Words # 0
      <4>1. PICK v \in 0 .. 2 : OneColor(v) /\ OneColor(v)' BY <3>1 DEF SamePicture
      <4>2. OnWay = [p \in 1 .. Words |-> v] BY <2>1, <4>1, OnWayCounted
      <4>3. OnWay' = [p \in 1 .. Words' |-> v] BY <2>1, <4>1, OnWayCountedNext
      <4>4. OnWay' = <<>> BY <3>3, <4>3
      <4>5. OnWay # <<>>
        <5>1. Words \in Nat BY <2>1, LineTypes
        <5>2. Len(OnWay) = Words BY <4>2, <5>1
        <5> QED BY <3>3, <5>2
      <4> QED BY <3>1, <4>4, <4>5 DEF Stream!Next, Stream!Show
    <3> QED BY <3>1, <3>2, <3>3
  <2>4. CASE Trigger
    <3>1. Words = 0 /\ Words' = NUM_PIXELS /\ \A v \in 0 .. 2 : v = picture => OneColor(v)'
      BY <2>1, <2>4, CoreFrames DEF LedCore
    <3>2. picture' = (picture + 1) % 3 BY <2>4 DEF Trigger
    <3>3. PICK v \in 0 .. 2 : v = picture BY <2>1 DEF TypeOK
    <3>4. OnWay' = [p \in 1 .. NUM_PIXELS |-> picture]
      BY <2>1, <3>1, <3>3, OnWayCountedNext
    <3>5. OnWay = <<>>
      <4>1. PICK w \in 0 .. 2 : OneColor(w) BY DEF FrameInv, LineInv, OnePicture
      <4>2. OnWay = [p \in 1 .. 0 |-> w] BY <2>1, <3>1, <4>1, OnWayCounted
      <4> QED BY <4>2
    <3> QED BY <3>2, <3>4, <3>5 DEF Stream!Next, Stream!Send
  <2>5. CASE LedCore /\ ~Trigger
    <3>1. Words' = Words /\ SamePicture BY <2>1, <2>5, CoreFrames
    <3>2. picture' = picture BY <2>5 DEF LedCore, Draw, Acquire, Wake
    <3> QED BY <2>2, <3>1, <3>2
  <2>6. CASE Handler \/ Alarm
    <3>1. Words' = Words /\ SamePicture BY <2>1, <2>6, TimerFrames
    <3>2. picture' = picture
      BY <2>6 DEF Handler, EnterIsr, AddAlarm, StoreId, Alarm, AlarmFires, Release, core
    <3> QED BY <2>2, <3>1, <3>2
  <2>7. CASE DmaWord
    <3>1. Words' = Words /\ SamePicture BY <2>1, <2>7, WordFrames
    <3>2. picture' = picture BY <2>7 DEF DmaWord, core
    <3> QED BY <2>2, <3>1, <3>2
  <2>8. CASE UNCHANGED vars
    <3>1. UNCHANGED <<picture, colors, strip, osr, fifo, dma>>
      BY <2>8 DEF vars, core, line
    <3> QED BY <3>1 DEF OnWay
  <2> QED BY <2>3, <2>4, <2>5, <2>6, <2>7, <2>8 DEF Next
<1> QED BY <1>1, <1>2, FrameInvariant, PTL DEF Spec, ImplementsStream, Stream!Spec

===============================================================================
