------------------------ MODULE CircularBuffer_proofs -------------------------
(***************************************************************************)
(* The POSIX ring implements a bounded first-in first-out queue, for every *)
(* capacity below the range of its 16-bit indices, every set of threads    *)
(* and every mix of operations.  No removal misses its wakeup, as long as  *)
(* nobody blocks in an add, and the mutex comes back, as long as only      *)
(* removals block.                                                         *)
(*                                                                         *)
(* The ring is first studied as a function of two indices and an array     *)
(* (RingLevel, RingSlot, RingSeq); the invariant says who holds the mutex  *)
(* and what a thread between memcpy and inc_index knows.                   *)
(***************************************************************************)
EXTENDS CircularBuffer, FiniteSetTheorems, TLAPS

RingLevel(w, r) == IF w - r < 0 THEN w - r + Capacity + 1 ELSE w - r
RingSlot(r, k)  == IF r + k <= Capacity THEN r + k ELSE r + k - (Capacity + 1)
RingSeq(w, r, d) == [i \in 1 .. RingLevel(w, r) |-> d[RingSlot(r, i - 1)]]
After(i) == IF i = Capacity THEN 0 ELSE i + 1

\* Between memcpy and inc_index: what the thread holding the mutex has done.
Copied(t) == IF op[t] \in AddOps
             THEN Level # Capacity /\ data[wptr] = val[t]
             ELSE Level # 0 /\ data[rptr] = val[t]

\* Where a thread has not copied yet.
Before == {"lock", "check", "wait", "relock"}

ThreadInv(t) ==
  /\ pc[t] = "idle" => op[t] = "none" /\ val[t] = NoValue
  /\ pc[t] # "idle" => op[t] \in QueueOps
  /\ pc[t] \in {"check", "advance"} => lock = t
  /\ pc[t] = "advance" => Copied(t)
  /\ pc[t] \in Before /\ op[t] \notin AddOps => val[t] = NoValue
  /\ pc[t] = "signal" => result[t]
  /\ t \in inCond \cup outCond => pc[t] = "wait"

RingInv == TypeOK /\ \A t \in Threads : ThreadInv(t)

-------------------------------------------------------------------------------
\* An index moves to the next slot, or back to the first after the last, also
\* when the increment overflows.
LEMMA IncIsAfter ==
  ASSUME NEW i \in Slots
  PROVE  Inc(i) = After(i) /\ After(i) \in Slots
<1>1. CASE i + 1 < IndexModulus
  <2>1. (i + 1) % IndexModulus = i + 1
    BY <1>1, CapacityAssumption DEF Slots
  <2> QED BY <2>1, <1>1, CapacityAssumption DEF Inc, After, Slots
<1>2. CASE i + 1 >= IndexModulus
  <2>1. i + 1 = IndexModulus /\ i = Capacity
    BY <1>2, CapacityAssumption DEF Slots
  <2>2. (i + 1) % IndexModulus = 0
    BY <2>1, CapacityAssumption
  <2> QED BY <2>1, <2>2, CapacityAssumption DEF Inc, After, Slots
<1> QED BY <1>1, <1>2, CapacityAssumption DEF Slots

\* The level counts the elements between the two indices.
LEMMA LevelInRange ==
  ASSUME NEW w \in Slots, NEW r \in Slots
  PROVE  RingLevel(w, r) \in 0 .. Capacity
BY CapacityAssumption DEF Slots, RingLevel

LEMMA SlotInRing ==
  ASSUME NEW r \in Slots, NEW k \in 0 .. Capacity
  PROVE  RingSlot(r, k) \in Slots
BY CapacityAssumption DEF Slots, RingSlot

\* Unless the ring is full, the slot at wptr holds no element, and writing it
\* and moving on adds one element at the end.
LEMMA AddSlot ==
  ASSUME NEW w \in Slots, NEW r \in Slots, RingLevel(w, r) # Capacity
  PROVE  /\ RingLevel(After(w), r) = RingLevel(w, r) + 1
         /\ RingSlot(r, RingLevel(w, r)) = w
         /\ \A k \in 0 .. RingLevel(w, r) - 1 : RingSlot(r, k) # w
BY CapacityAssumption DEF Slots, RingLevel, RingSlot, After

\* Unless the ring is empty, the oldest element is at rptr and moving on drops it.
LEMMA TakeSlot ==
  ASSUME NEW w \in Slots, NEW r \in Slots, RingLevel(w, r) # 0
  PROVE  /\ RingLevel(w, After(r)) = RingLevel(w, r) - 1
         /\ RingSlot(r, 0) = r
         /\ \A k \in 0 .. RingLevel(w, r) - 2 : RingSlot(After(r), k) = RingSlot(r, k + 1)
BY CapacityAssumption DEF Slots, RingLevel, RingSlot, After

\* The same facts about the ring read as a sequence.
LEMMA SeqLength ==
  ASSUME NEW w \in Slots, NEW r \in Slots, NEW d
  PROVE  /\ Len(RingSeq(w, r, d)) = RingLevel(w, r)
         /\ RingLevel(w, r) # 0 => RingSeq(w, r, d) # <<>> /\ Head(RingSeq(w, r, d)) = d[r]
         /\ RingLevel(w, r) = 0 => RingSeq(w, r, d) = <<>>
<1> DEFINE s == RingSeq(w, r, d)
<1>0. RingLevel(w, r) \in Nat
  BY LevelInRange, CapacityAssumption
<1>1. Len(s) = RingLevel(w, r)
  BY <1>0 DEF RingSeq
<1>2. ASSUME RingLevel(w, r) # 0 PROVE s # <<>> /\ Head(s) = d[r]
  <2>1. s # <<>> BY <1>0, <1>1, <1>2
  <2>2. s[1] = d[RingSlot(r, 0)] BY <1>0, <1>2 DEF RingSeq
  <2>3. RingSlot(r, 0) = r BY <1>2, TakeSlot
  <2> QED BY <2>1, <2>2, <2>3
<1>3. ASSUME RingLevel(w, r) = 0 PROVE s = <<>>
  BY <1>3 DEF RingSeq
<1> QED BY <1>1, <1>2, <1>3

LEMMA SeqAdd ==
  ASSUME NEW w \in Slots, NEW r \in Slots, NEW d, RingLevel(w, r) # Capacity
  PROVE  RingSeq(After(w), r, d) = Append(RingSeq(w, r, d), d[w])
<1> DEFINE n == RingLevel(w, r)
<1>0. n \in Nat BY LevelInRange, CapacityAssumption
<1>1. RingSeq(After(w), r, d) = [i \in 1 .. n + 1 |-> d[RingSlot(r, i - 1)]]
  BY AddSlot DEF RingSeq
<1>2. d[RingSlot(r, (n + 1) - 1)] = d[w] BY <1>0, AddSlot
<1>3. Append(RingSeq(w, r, d), d[w])
        = [i \in 1 .. n + 1 |-> IF i = n + 1 THEN d[w] ELSE d[RingSlot(r, i - 1)]]
  BY <1>0 DEF RingSeq
<1> HIDE DEF n
<1> QED BY <1>0, <1>1, <1>2, <1>3

LEMMA SeqTake ==
  ASSUME NEW w \in Slots, NEW r \in Slots, NEW d, RingLevel(w, r) # 0
  PROVE  RingSeq(w, After(r), d) = Tail(RingSeq(w, r, d))
<1> DEFINE n == RingLevel(w, r)
<1>0. n \in Nat \ {0} BY LevelInRange, CapacityAssumption
<1>1. RingSeq(w, After(r), d) = [i \in 1 .. n - 1 |-> d[RingSlot(After(r), i - 1)]]
  BY TakeSlot DEF RingSeq
<1>2. \A i \in 1 .. n - 1 : RingSlot(After(r), i - 1) = RingSlot(r, i)
  <2> TAKE i \in 1 .. n - 1
  <2>1. i - 1 \in 0 .. n - 2 /\ (i - 1) + 1 = i BY <1>0
  <2> QED BY <2>1, TakeSlot
<1>3. Tail(RingSeq(w, r, d)) = [i \in 1 .. n - 1 |-> d[RingSlot(r, (i + 1) - 1)]]
  BY <1>0 DEF RingSeq
<1>4. \A i \in 1 .. n - 1 : (i + 1) - 1 = i BY <1>0
<1> HIDE DEF n
<1> QED BY <1>0, <1>1, <1>2, <1>3, <1>4

\* memcpy of an add writes a slot that holds no element.
LEMMA SeqWrite ==
  ASSUME NEW w \in Slots, NEW r \in Slots, NEW d, NEW e,
         \A s \in Slots : s # w => e[s] = d[s],
         RingLevel(w, r) # Capacity
  PROVE  RingSeq(w, r, e) = RingSeq(w, r, d)
<1> DEFINE n == RingLevel(w, r)
<1>0. n \in Nat BY LevelInRange, CapacityAssumption
<1>1. \A i \in 1 .. n : e[RingSlot(r, i - 1)] = d[RingSlot(r, i - 1)]
  <2> TAKE i \in 1 .. n
  <2>1. i - 1 \in 0 .. n - 1 BY <1>0
  <2>2. RingSlot(r, i - 1) # w BY <2>1, AddSlot
  <2>3. RingSlot(r, i - 1) \in Slots
    <3>1. n \in 0 .. Capacity BY LevelInRange
    <3>2. i - 1 \in 0 .. Capacity BY <2>1, <3>1, CapacityAssumption
    <3> QED BY <3>2, SlotInRing
  <2> QED BY <2>2, <2>3
<1> HIDE DEF n
<1>2. RingSeq(w, r, e) = [i \in 1 .. n |-> e[RingSlot(r, i - 1)]] BY DEF RingSeq, n
<1>3. RingSeq(w, r, d) = [i \in 1 .. n |-> d[RingSlot(r, i - 1)]] BY DEF RingSeq, n
<1> QED BY <1>1, <1>2, <1>3

LEMMA ContentsIsRing ==
  /\ Level = RingLevel(wptr, rptr)
  /\ Contents = RingSeq(wptr, rptr, data)
BY DEF Level, Contents, Slot, RingLevel, RingSlot, RingSeq

-------------------------------------------------------------------------------
LEMMA InitRing == Init => RingInv
<1> SUFFICES ASSUME Init PROVE RingInv OBVIOUS
<1>1. TypeOK
  BY CapacityAssumption DEF Init, TypeOK, Slots, Steps
<1>2. ASSUME NEW t \in Threads PROVE ThreadInv(t)
  BY DEF Init, ThreadInv
<1> QED BY <1>1, <1>2 DEF RingInv

\* What a step that leaves the ring, the mutex and thread t alone preserves.
LEMMA OtherThread ==
  ASSUME RingInv, NEW t \in Threads,
         pc'[t] = pc[t], op'[t] = op[t], val'[t] = val[t], result'[t] = result[t],
         lock = t => lock' = t /\ UNCHANGED ring,
         t \in inCond' \cup outCond' => t \in inCond \cup outCond
  PROVE  ThreadInv(t)'
<1>1. ThreadInv(t) BY DEF RingInv
<1>2. pc[t] = "advance" => Copied(t)'
  BY <1>1 DEF ThreadInv, Before, Copied, ring, Level
<1> QED BY <1>1, <1>2 DEF ThreadInv, Before

LEMMA CallStep ==
  ASSUME RingInv, NEW t \in Threads, NEW o \in Calls[t], NEW v \in Arguments(o),
         Call(t, o, v)
  PROVE  RingInv'
<1>0. o \in QueueOps BY CallsAssumption
<1>1. TypeOK'
  BY <1>0 DEF RingInv, TypeOK, Call, Arguments, Goto, Steps, ring, conds
<1>2. ThreadInv(t)'
  BY <1>0 DEF RingInv, TypeOK, ThreadInv, Call, Arguments, Before, Goto, conds
<1>3. ASSUME NEW u \in Threads, u # t PROVE ThreadInv(u)'
  BY <1>3, OtherThread DEF RingInv, TypeOK, Call, Goto, conds, ring
<1> QED BY <1>1, <1>2, <1>3 DEF RingInv

LEMMA LockStep ==
  ASSUME RingInv, NEW t \in Threads, Lock(t) \/ Relock(t)
  PROVE  RingInv'
<1>1. TypeOK'
  BY DEF RingInv, TypeOK, Lock, Relock, AfterWait, Goto, Steps, ring, conds
<1>2. ThreadInv(t)'
  BY DEF RingInv, TypeOK, ThreadInv, Before, Lock, Relock, AfterWait, Goto, conds
<1>3. ASSUME NEW u \in Threads, u # t PROVE ThreadInv(u)'
  BY <1>3, OtherThread, NobodyAssumption
  DEF RingInv, TypeOK, Lock, Relock, AfterWait, Goto, conds, ring
<1> QED BY <1>1, <1>2, <1>3 DEF RingInv

LEMMA CopyStep ==
  ASSUME RingInv, NEW t \in Threads, Copy(t)
  PROVE  RingInv'
<1>0. lock = t /\ op[t] \in QueueOps BY DEF RingInv, ThreadInv, Before, Copy
<1>1. TypeOK' BY DEF RingInv, TypeOK, Copy, Goto, Steps, conds
<1>2. Copied(t)'
  <2>1. Level' = Level BY DEF Copy, Level
  <2>2. CASE op[t] \in AddOps
    BY <2>1, <2>2 DEF RingInv, TypeOK, Copy, Ready, Copied
  <2>3. CASE op[t] \notin AddOps
    BY <2>1, <2>3 DEF RingInv, TypeOK, Copy, Ready, Copied
  <2> QED BY <2>2, <2>3
<1>3. ThreadInv(t)'
  BY <1>0, <1>2 DEF RingInv, TypeOK, ThreadInv, Before, Copy, Goto, conds
<1>4. ASSUME NEW u \in Threads, u # t PROVE ThreadInv(u)'
  BY <1>0, <1>4, OtherThread DEF RingInv, TypeOK, Copy, Goto, conds, ring
<1> QED BY <1>1, <1>3, <1>4 DEF RingInv

LEMMA AdvanceStep ==
  ASSUME RingInv, NEW t \in Threads, Advance(t)
  PROVE  RingInv'
<1>0. lock = t /\ op[t] \in QueueOps BY DEF RingInv, ThreadInv, Before, Advance
<1>1. wptr' \in Slots /\ rptr' \in Slots
  BY IncIsAfter DEF RingInv, TypeOK, Advance
<1>2. TypeOK' BY <1>1 DEF RingInv, TypeOK, Advance, Goto, Steps, conds
<1>3. ThreadInv(t)'
  BY <1>0 DEF RingInv, TypeOK, ThreadInv, Before, Advance, Goto, conds
<1>4. ASSUME NEW u \in Threads, u # t PROVE ThreadInv(u)'
  BY <1>0, <1>4, OtherThread DEF RingInv, TypeOK, Advance, Goto, conds, ring
<1> QED BY <1>2, <1>3, <1>4 DEF RingInv

LEMMA StopStep ==
  ASSUME RingInv, NEW t \in Threads, GiveUp(t) \/ Wait(t)
  PROVE  RingInv'
<1>0. lock = t /\ op[t] \in QueueOps BY DEF RingInv, ThreadInv, Before, GiveUp, Wait
<1>1. TypeOK'
  <2>1. CASE GiveUp(t)
    BY <2>1 DEF RingInv, TypeOK, GiveUp, Goto, Steps, ring, conds
  <2>2. CASE Wait(t)
    <3>1. inCond' \subseteq Threads /\ outCond' \subseteq Threads
      BY <2>2 DEF RingInv, TypeOK, Wait
    <3> QED BY <2>2, <3>1 DEF RingInv, TypeOK, Wait, Goto, Steps, ring
  <2> QED BY <2>1, <2>2
<1>2. ThreadInv(t)'
  BY <1>0 DEF RingInv, TypeOK, ThreadInv, Before, GiveUp, Wait, Goto, conds
<1>3. ASSUME NEW u \in Threads, u # t PROVE ThreadInv(u)'
  BY <1>0, <1>3, OtherThread DEF RingInv, TypeOK, GiveUp, Wait, Goto, conds, ring
<1> QED BY <1>1, <1>2, <1>3 DEF RingInv

\* A thread taken out of its wait set, by a signal or without one.
LEMMA WokenThread ==
  ASSUME RingInv, NEW w \in Threads, pc[w] = "wait", pc'[w] = "relock",
         UNCHANGED <<op, val, result>>,
         inCond' = inCond \ {w}, outCond' = outCond \ {w}
  PROVE  ThreadInv(w)'
BY DEF RingInv, ThreadInv, Before

LEMMA SignalStep ==
  ASSUME RingInv, NEW t \in Threads, Signal(t)
  PROVE  RingInv'
<1>1. CASE UNCHANGED conds /\ Goto(t, "return")
  <2>1. TypeOK' BY <1>1 DEF RingInv, TypeOK, Signal, Goto, Steps, ring, conds
  <2>2. ThreadInv(t)'
    BY <1>1 DEF RingInv, TypeOK, ThreadInv, Before, Signal, Goto, conds
  <2>3. ASSUME NEW u \in Threads, u # t PROVE ThreadInv(u)'
    BY <1>1, <2>3, OtherThread DEF RingInv, TypeOK, Signal, Goto, conds, ring
  <2> QED BY <2>1, <2>2, <2>3 DEF RingInv
<1>2. CASE \E w \in inCond \cup outCond :
             /\ pc' = [pc EXCEPT ![t] = "return", ![w] = "relock"]
             /\ inCond' = inCond \ {w} /\ outCond' = outCond \ {w}
  <2>0. PICK w \in inCond \cup outCond :
             /\ pc' = [pc EXCEPT ![t] = "return", ![w] = "relock"]
             /\ inCond' = inCond \ {w} /\ outCond' = outCond \ {w}
    BY <1>2
  <2>1. w \in Threads /\ pc[w] = "wait" /\ pc[t] = "signal" /\ w # t
    BY DEF RingInv, TypeOK, ThreadInv, Before, Signal
  <2>2. TypeOK' BY <2>0, <2>1 DEF RingInv, TypeOK, Signal, Steps, ring
  <2>3. ThreadInv(t)'
    BY <2>0, <2>1 DEF RingInv, TypeOK, ThreadInv, Before, Signal
  <2>4. ThreadInv(w)'
    BY <2>0, <2>1, WokenThread DEF RingInv, TypeOK, Signal
  <2>5. ASSUME NEW u \in Threads, u # t, u # w PROVE ThreadInv(u)'
    BY <2>0, <2>1, <2>5, OtherThread DEF RingInv, TypeOK, Signal, ring
  <2> QED BY <2>2, <2>3, <2>4, <2>5 DEF RingInv
<1> QED BY <1>1, <1>2 DEF Signal

LEMMA SpuriousStep ==
  ASSUME RingInv, NEW t \in Threads, SpuriousWakeup(t)
  PROVE  RingInv'
<1>1. TypeOK' BY DEF RingInv, TypeOK, SpuriousWakeup, Goto, Steps, ring
<1>2. ThreadInv(t)'
  BY WokenThread DEF RingInv, TypeOK, SpuriousWakeup, Goto
<1>3. ASSUME NEW u \in Threads, u # t PROVE ThreadInv(u)'
  BY <1>3, OtherThread DEF RingInv, TypeOK, SpuriousWakeup, Goto, ring
<1> QED BY <1>1, <1>2, <1>3 DEF RingInv

LEMMA ReturnStep ==
  ASSUME RingInv, NEW t \in Threads, Return(t)
  PROVE  RingInv'
<1>1. TypeOK' BY DEF RingInv, TypeOK, Return, Goto, Steps, ring, conds
<1>2. ThreadInv(t)' BY DEF RingInv, TypeOK, ThreadInv, Before, Return, Goto, conds
<1>3. ASSUME NEW u \in Threads, u # t PROVE ThreadInv(u)'
  BY <1>3, OtherThread DEF RingInv, TypeOK, Return, Goto, conds, ring
<1> QED BY <1>1, <1>2, <1>3 DEF RingInv

LEMMA NextRing == RingInv /\ [Next]_vars => RingInv'
<1> SUFFICES ASSUME RingInv, [Next]_vars PROVE RingInv' OBVIOUS
<1>1. ASSUME NEW t \in Threads, NEW o \in Calls[t], NEW v \in Arguments(o), Call(t, o, v)
      PROVE RingInv'
  BY <1>1, CallStep
<1>2. ASSUME NEW t \in Threads, Run(t) PROVE RingInv'
  BY <1>2, LockStep, CopyStep, AdvanceStep, StopStep, SignalStep, ReturnStep DEF Run
<1>3. ASSUME NEW t \in Threads, SpuriousWakeup(t) PROVE RingInv'
  BY <1>3, SpuriousStep
<1>4. CASE UNCHANGED vars
  BY <1>4 DEF RingInv, TypeOK, ThreadInv, Before, Copied, Level, vars, ring, threads, conds
<1> QED BY <1>1, <1>2, <1>3, <1>4 DEF Next

\* The invariant of the ring: indices in range, the mutex held across every
\* look at the level and every copy, waiters only among those that wait.
THEOREM RingInvariant == Spec => []RingInv
<1> QED BY InitRing, NextRing, PTL DEF Spec

-------------------------------------------------------------------------------
(***************************************************************************)
(* Refinement: a call takes effect when Advance or GiveUp releases the     *)
(* mutex; every other step leaves the abstract queue alone.                *)
(***************************************************************************)

\* How one thread's call looks from outside.
View(t) == [op |-> op[t], val |-> Shown(t), status |-> Status(t)]

LEMMA InitRefines == Init => Fifo!Init
<1> SUFFICES ASSUME Init PROVE Fifo!Init OBVIOUS
<1>1. Level = 0 BY DEF Init, Level
<1>2. Contents = <<>> BY <1>1 DEF Contents
<1>3. \A t \in Threads : View(t) = Fifo!Idle
  BY DEF Init, View, Shown, Status, Fifo!Idle, AddOps
<1> QED BY <1>2, <1>3 DEF Fifo!Init, CallOf, View

\* The abstract calls change in one place only.
LEMMA OneCall ==
  ASSUME NEW t \in Threads, NEW c, View(t)' = c,
         \A u \in Threads : u # t => View(u)' = View(u)
  PROVE  CallOf' = [CallOf EXCEPT ![t] = c]
BY DEF CallOf, View

LEMMA NoCall ==
  ASSUME \A u \in Threads : View(u)' = View(u)
  PROVE  CallOf' = CallOf
BY DEF CallOf, View

\* A thread that does not move looks the same.
LEMMA SameView ==
  ASSUME NEW u, pc'[u] = pc[u], op'[u] = op[u], val'[u] = val[u], result'[u] = result[u]
  PROVE  View(u)' = View(u)
BY DEF View, Shown, Status

LEMMA SameContents == UNCHANGED ring => Contents' = Contents
BY DEF ring, Contents, Slot, Level

\* Settling a call changes its value and its status.
LEMMA SettleOne ==
  ASSUME NEW t \in Threads, NEW st, NEW v,
         View(t)' = [op |-> op[t], val |-> v, status |-> st],
         \A u \in Threads : u # t => View(u)' = View(u)
  PROVE  Fifo!Settle(t, st, v)
<1> DEFINE c == [op |-> op[t], val |-> v, status |-> st]
<1>1. CallOf' = [CallOf EXCEPT ![t] = c] BY OneCall
<1>2. CallOf[t] = View(t) BY DEF CallOf, View
<1>3. CallOf[t].op = op[t] BY <1>2 DEF View
<1> QED BY <1>1, <1>3 DEF Fifo!Settle

LEMMA CallRefines ==
  ASSUME RingInv, NEW t \in Threads, NEW o \in Calls[t], NEW v \in Arguments(o),
         Call(t, o, v)
  PROVE  Fifo!Next
<1>1. o \in QueueOps BY CallsAssumption
<1>2. Contents' = Contents BY SameContents DEF Call
<1>3. \A u \in Threads : u # t => View(u)' = View(u)
  BY SameView DEF RingInv, TypeOK, Call, Goto
<1>4. View(t)' = [op |-> o, val |-> v, status |-> "pending"]
  <2>1. pc'[t] = "lock" /\ op'[t] = o /\ val'[t] = v
    BY DEF RingInv, TypeOK, Call, Goto
  <2>2. o \notin AddOps => v = NoValue BY DEF Arguments
  <2> QED BY <2>1, <2>2 DEF View, Shown, Status
<1>5. CallOf[t].status = "idle" BY DEF CallOf, Status, Call
<1>6. CallOf' = [CallOf EXCEPT ![t] = [op |-> o, val |-> v, status |-> "pending"]]
  BY <1>3, <1>4, OneCall
<1>7. Fifo!Invoke(t, o, v) BY <1>2, <1>5, <1>6 DEF Fifo!Invoke
<1>8. o \in Fifo!QueueOps /\ v \in Fifo!Arguments(o)
  BY <1>1 DEF QueueOps, BlockingOps, Arguments, AddOps, Fifo!QueueOps, Fifo!AddOps,
              Fifo!TakeOps, Fifo!PeekOps, Fifo!Arguments
<1> QED BY <1>7, <1>8 DEF Fifo!Next

\* Steps inside a call: nothing is seen of them.
LEMMA InnerRefines ==
  ASSUME RingInv, NEW t \in Threads,
         Lock(t) \/ Wait(t) \/ SpuriousWakeup(t) \/ Relock(t)
  PROVE  UNCHANGED <<Contents, CallOf>>
<1>1. Contents' = Contents
  BY SameContents DEF Lock, Wait, SpuriousWakeup, Relock
<1>2. \A u \in Threads : u # t => View(u)' = View(u)
  BY SameView DEF RingInv, TypeOK, Lock, Wait, SpuriousWakeup, Relock, Goto
<1>3. View(t)' = View(t)
  BY DEF RingInv, TypeOK, Lock, Wait, SpuriousWakeup, Relock, AfterWait, Goto,
         View, Shown, Status
<1> QED BY <1>1, <1>2, <1>3, NoCall

LEMMA CopyRefines ==
  ASSUME RingInv, NEW t \in Threads, Copy(t)
  PROVE  UNCHANGED <<Contents, CallOf>>
<1>1. Contents' = Contents
  <2>1. CASE op[t] \in AddOps
    <3>1. RingLevel(wptr, rptr) # Capacity
      BY <2>1, ContentsIsRing DEF Copy, Ready
    <3>2. Contents' = RingSeq(wptr, rptr, data')
      BY DEF Copy, Contents, Level, Slot, RingLevel, RingSlot, RingSeq
    <3>3. /\ wptr \in Slots /\ rptr \in Slots
          /\ data \in [Slots -> Values \cup {NoValue}]
          /\ val[t] \in Values \cup {NoValue}
      BY DEF RingInv, TypeOK
    <3>4. \A s \in Slots : s # wptr => data'[s] = data[s]
      BY <2>1, <3>3 DEF Copy
    <3>5. RingSeq(wptr, rptr, data') = RingSeq(wptr, rptr, data)
      BY <3>1, <3>3, <3>4, SeqWrite
    <3> QED BY <3>2, <3>5, ContentsIsRing
  <2>2. CASE op[t] \notin AddOps
    BY <2>2, SameContents DEF Copy, ring
  <2> QED BY <2>1, <2>2
<1>2. \A u \in Threads : u # t => View(u)' = View(u)
  BY SameView DEF RingInv, TypeOK, Copy, Goto
<1>3. View(t)' = View(t)
  <2>1. pc[t] = "check" /\ pc'[t] = "advance" /\ op'[t] = op[t]
    BY DEF RingInv, TypeOK, Copy, Goto
  <2>2. op[t] \in AddOps => val'[t] = val[t] BY DEF Copy
  <2> QED BY <2>1, <2>2 DEF View, Shown, Status
<1> QED BY <1>1, <1>2, <1>3, NoCall

\* Where the operations take effect.
LEMMA AdvanceRefines ==
  ASSUME RingInv, NEW t \in Threads, Advance(t)
  PROVE  Fifo!Next
<1>0. /\ pc[t] = "advance" /\ op[t] \in QueueOps /\ Copied(t)
      /\ wptr \in Slots /\ rptr \in Slots
  BY DEF RingInv, TypeOK, ThreadInv, Before, Advance
<1>1. \A u \in Threads : u # t => View(u)' = View(u)
  BY SameView DEF RingInv, TypeOK, Advance, Goto
<1>2. View(t)' = [op |-> op[t], val |-> val[t], status |-> "ok"]
  BY DEF RingInv, TypeOK, Advance, Goto, View, Shown, Status
<1>3. Fifo!Settle(t, "ok", val[t]) BY <1>1, <1>2, SettleOne
<1>4. CallOf[t] = View(t) BY DEF CallOf, View
<1>5. CallOf[t].status = "pending" /\ CallOf[t].op = op[t]
  BY <1>0, <1>4 DEF View, Status
<1>6. Contents' = RingSeq(wptr', rptr', data)
  BY DEF Advance, Contents, Level, Slot, RingLevel, RingSlot, RingSeq
<1>7. CASE op[t] \in AddOps
  <2>1. RingLevel(wptr, rptr) # Capacity /\ data[wptr] = val[t]
    BY <1>0, <1>7, ContentsIsRing DEF Copied
  <2>2. wptr' = After(wptr) /\ rptr' = rptr
    BY <1>0, <1>7, IncIsAfter DEF Advance, AddOps, TakeOps
  <2>3. Contents' = Append(Contents, val[t])
    BY <1>0, <1>6, <2>1, <2>2, SeqAdd, ContentsIsRing
  <2>4. Len(Contents) < Capacity
    BY <1>0, <2>1, SeqLength, LevelInRange, ContentsIsRing, CapacityAssumption
  <2>5. CallOf[t].val = val[t] BY <1>4, <1>7 DEF View, Shown
  <2>6. Fifo!Add(t)
    BY <1>3, <1>5, <1>7, <2>3, <2>4, <2>5
    DEF Fifo!Add, Fifo!Under, Fifo!AddOps, AddOps
  <2> QED BY <2>6 DEF Fifo!Next
<1>8. CASE op[t] \notin AddOps
  <2>1. RingLevel(wptr, rptr) # 0 /\ data[rptr] = val[t]
    BY <1>0, <1>8, ContentsIsRing DEF Copied
  <2>2. Contents # <<>> /\ Head(Contents) = val[t]
    BY <1>0, <2>1, SeqLength, ContentsIsRing
  <2>3. wptr' = wptr BY <1>8 DEF Advance
  <2>4. CASE op[t] \in TakeOps
    <3>1. rptr' = After(rptr) BY <1>0, <2>4, IncIsAfter DEF Advance
    <3>2. Contents' = Tail(Contents)
      BY <1>0, <1>6, <2>1, <2>3, <3>1, SeqTake, ContentsIsRing
    <3>3. Fifo!Remove(t)
      BY <1>3, <1>5, <2>2, <2>4, <3>2 DEF Fifo!Remove, Fifo!Under, Fifo!TakeOps, TakeOps
    <3> QED BY <3>3 DEF Fifo!Next
  <2>5. CASE op[t] \notin TakeOps
    <3>1. Contents' = Contents
      BY <1>6, <2>3, <2>5, ContentsIsRing DEF Advance
    <3>2. op[t] \in PeekOps
      BY <1>0, <1>8, <2>5 DEF QueueOps, BlockingOps, AddOps, TakeOps, PeekOps
    <3>3. Fifo!Peek(t)
      BY <1>3, <1>5, <2>2, <3>1, <3>2 DEF Fifo!Peek, Fifo!Under, Fifo!PeekOps, PeekOps
    <3> QED BY <3>3 DEF Fifo!Next
  <2> QED BY <2>4, <2>5
<1> QED BY <1>7, <1>8

LEMMA GiveUpRefines ==
  ASSUME RingInv, NEW t \in Threads, GiveUp(t)
  PROVE  Fifo!Next
<1>0. /\ pc[t] = "check" /\ op[t] \in QueueOps /\ op[t] \notin BlockingOps /\ ~Ready(t)
      /\ wptr \in Slots /\ rptr \in Slots
  BY DEF RingInv, TypeOK, ThreadInv, Before, GiveUp
<1>1. \A u \in Threads : u # t => View(u)' = View(u)
  BY SameView DEF RingInv, TypeOK, GiveUp, Goto
<1>2. CallOf[t] = View(t) BY DEF CallOf, View
<1>3. CallOf[t].status = "pending" /\ CallOf[t].op = op[t] BY <1>0, <1>2 DEF View, Status
<1>4. Contents' = Contents BY SameContents DEF GiveUp
<1>5. op[t] \in Fifo!TryOps BY <1>0 DEF QueueOps, Fifo!TryOps
<1>6. IF op[t] \in AddOps THEN Len(Contents) = Capacity ELSE Contents = <<>>
  BY <1>0, SeqLength, ContentsIsRing DEF Ready
<1>7. op[t] \in AddOps \/ val[t] = NoValue BY <1>0 DEF RingInv, ThreadInv, Before
<1>8. Shown(t) = val[t] BY <1>0, <1>7 DEF Shown, Status
<1>9. View(t)' = [op |-> op[t], val |-> CallOf[t].val, status |-> "refused"]
  BY <1>0, <1>2, <1>8 DEF RingInv, TypeOK, GiveUp, Goto, View, Shown, Status
<1>10. Fifo!Settle(t, "refused", CallOf[t].val) BY <1>1, <1>9, SettleOne
<1>11. Fifo!Refuse(t)
  BY <1>3, <1>4, <1>5, <1>6, <1>10 DEF Fifo!Refuse, Fifo!Under, Fifo!AddOps, AddOps
<1> QED BY <1>11 DEF Fifo!Next

LEMMA SignalRefines ==
  ASSUME RingInv, NEW t \in Threads, Signal(t)
  PROVE  UNCHANGED <<Contents, CallOf>>
<1>1. Contents' = Contents BY SameContents DEF Signal
<1>2. UNCHANGED <<op, val, result>> /\ pc[t] = "signal" /\ result[t]
  BY DEF Signal, RingInv, ThreadInv
<1>3. ASSUME NEW u \in Threads PROVE View(u)' = View(u)
  <2>1. \/ pc'[u] = pc[u]
        \/ pc[u] = "wait" /\ pc'[u] = "relock"
        \/ u = t /\ pc'[u] = "return"
    BY DEF Signal, Goto, RingInv, TypeOK, ThreadInv
  <2> QED BY <1>2, <2>1 DEF View, Shown, Status
<1> QED BY <1>1, <1>3, NoCall

LEMMA ReturnRefines ==
  ASSUME RingInv, NEW t \in Threads, Return(t)
  PROVE  Fifo!Next
<1>1. Contents' = Contents BY SameContents DEF Return
<1>2. \A u \in Threads : u # t => View(u)' = View(u)
  BY SameView DEF RingInv, TypeOK, Return, Goto
<1>3. View(t)' = Fifo!Idle
  BY DEF RingInv, TypeOK, Return, Goto, View, Shown, Status, Fifo!Idle, AddOps
<1>4. CallOf' = [CallOf EXCEPT ![t] = Fifo!Idle] BY <1>2, <1>3, OneCall
<1>5. CallOf[t].status \in {"ok", "refused"} BY DEF CallOf, Status, Return
<1>6. Fifo!Return(t) BY <1>1, <1>4, <1>5 DEF Fifo!Return
<1> QED BY <1>6 DEF Fifo!Next

LEMMA NextRefines == RingInv /\ [Next]_vars => [Fifo!Next]_<<Contents, CallOf>>
<1> SUFFICES ASSUME RingInv, [Next]_vars PROVE [Fifo!Next]_<<Contents, CallOf>>
  OBVIOUS
<1>1. ASSUME NEW t \in Threads, NEW o \in Calls[t], NEW v \in Arguments(o), Call(t, o, v)
      PROVE Fifo!Next
  BY <1>1, CallRefines
<1>2. ASSUME NEW t \in Threads, Run(t)
      PROVE [Fifo!Next]_<<Contents, CallOf>>
  BY <1>2, InnerRefines, CopyRefines, AdvanceRefines, GiveUpRefines, SignalRefines,
     ReturnRefines DEF Run
<1>3. ASSUME NEW t \in Threads, SpuriousWakeup(t)
      PROVE UNCHANGED <<Contents, CallOf>>
  BY <1>3, InnerRefines
<1>4. CASE UNCHANGED vars
  <2>1. Contents' = Contents BY <1>4, SameContents DEF vars
  <2>2. \A u \in Threads : View(u)' = View(u) BY <1>4, SameView DEF vars, threads
  <2> QED BY <2>1, <2>2, NoCall
<1> QED BY <1>1, <1>2, <1>3, <1>4 DEF Next

\* Both indices stay in the ring and every variable keeps its type, although
\* an index is incremented before it is compared.
THEOREM RingTypeCorrect == Spec => []TypeOK
BY RingInvariant, PTL DEF RingInv

\* The ring under its mutex is a bounded first-in first-out queue with atomic
\* operations, whatever the capacity, the threads and their calls: no element
\* is lost, doubled or reordered, and a non-blocking operation is refused
\* only when the queue really is full or empty.
THEOREM FifoImplemented == Spec => ImplementsFifo
<1>1. Spec => Fifo!Init /\ [][Fifo!Next]_<<Contents, CallOf>>
  BY InitRefines, NextRefines, RingInvariant, PTL DEF Spec
<1> QED BY <1>1 DEF ImplementsFifo, Fifo!Spec

-------------------------------------------------------------------------------
(***************************************************************************)
(* No wakeup is lost.  A removal that sleeps was let in when the ring was  *)
(* empty; from then on each element added brings a thread that will wake   *)
(* it, each element taken costs a thread that was awake, and a signal      *)
(* replaces the adder that sends it by the removal it wakes.  That last    *)
(* step is the one a blocked add would break: it waits on in_cond as well. *)
(***************************************************************************)

\* How the firmware uses its queues: no call of queue_add_blocking.
NoBlockedAdd == IsFiniteSet(Threads) /\ \A t \in Threads : "add_blocking" \notin Calls[t]

\* The threads that still answer for an element of the ring.
Answering == {t \in Threads : Signalling(t) \/ Removing(t)}

WakeInv ==
  /\ \A t \in Threads : pc[t] # "idle" => op[t] \in Calls[t]
  /\ \A t \in inCond : op[t] \in TakeOps
  /\ inCond # {} => Level <= Cardinality(Answering)

LEMMA AnsweringFinite == NoBlockedAdd => IsFiniteSet(Answering)
<1> SUFFICES ASSUME NoBlockedAdd PROVE IsFiniteSet(Answering) OBVIOUS
<1>1. Answering \in SUBSET Threads BY DEF Answering
<1> QED BY <1>1, FS_Subset DEF NoBlockedAdd

\* As long as no thread that answers leaves, nothing is lost.
LEMMA MoreAnswer ==
  ASSUME NoBlockedAdd, IsFiniteSet(Answering'), RingInv, RingInv', WakeInv,
         inCond' \subseteq inCond \/ Level = 0, Level' = Level, Answering \subseteq Answering'
  PROVE  inCond' # {} => Level' <= Cardinality(Answering')
<1>1. Level \in Nat
  BY ContentsIsRing, LevelInRange DEF RingInv, TypeOK
<1>2. Cardinality(Answering) <= Cardinality(Answering') BY FS_Subset
<1>3. Cardinality(Answering) \in Nat /\ Cardinality(Answering') \in Nat
  BY AnsweringFinite, FS_CardinalityType
<1> QED BY <1>1, <1>2, <1>3 DEF WakeInv

\* What an operation of the firmware does with the level it finds.
LEMMA LevelMoves ==
  ASSUME RingInv, NEW t \in Threads, Advance(t)
  PROVE  /\ op[t] \in AddOps => Level' = Level + 1
         /\ op[t] \in TakeOps => Level' = Level - 1
         /\ op[t] \notin AddOps \cup TakeOps => Level' = Level
         /\ Level \in Nat
<1>0. /\ pc[t] = "advance" /\ Copied(t) /\ wptr \in Slots /\ rptr \in Slots
      /\ Capacity \in Nat
  BY CapacityAssumption DEF RingInv, TypeOK, ThreadInv, Advance
<1>1. Inc(wptr) = After(wptr) /\ Inc(rptr) = After(rptr) BY <1>0, IncIsAfter
<1>2. CASE op[t] \in AddOps
  <2>1. Level # Capacity /\ op[t] \notin TakeOps BY <1>0, <1>2 DEF Copied, AddOps, TakeOps
  <2>2. wptr' = After(wptr) /\ rptr' = rptr BY <1>1, <1>2, <2>1 DEF Advance
  <2>3. Level' = Level + 1 /\ Level \in Nat BY <1>0, <2>1, <2>2 DEF Level, After, Slots
  <2> QED BY <1>2, <2>1, <2>3
<1>3. CASE op[t] \in TakeOps
  <2>1. Level # 0 /\ op[t] \notin AddOps BY <1>0, <1>3 DEF Copied, AddOps, TakeOps
  <2>2. rptr' = After(rptr) /\ wptr' = wptr BY <1>1, <1>3, <2>1 DEF Advance
  <2>3. Level' = Level - 1 /\ Level \in Nat BY <1>0, <2>1, <2>2 DEF Level, After, Slots
  <2> QED BY <1>3, <2>1, <2>3
<1>4. CASE op[t] \notin AddOps \cup TakeOps
  <2>1. rptr' = rptr /\ wptr' = wptr BY <1>4 DEF Advance
  <2> QED BY <1>0, <1>4, <2>1 DEF Level, Slots
<1> QED BY <1>2, <1>3, <1>4

LEMMA AdvanceKeepsWakeups ==
  ASSUME NoBlockedAdd, RingInv, WakeInv, NEW t \in Threads, Advance(t)
  PROVE  inCond' # {} => Level' <= Cardinality(Answering')
<1> SUFFICES ASSUME inCond' # {} PROVE Level' <= Cardinality(Answering') OBVIOUS
<1>1. Level <= Cardinality(Answering) BY DEF WakeInv, Advance, conds
<1>2. IsFiniteSet(Answering) /\ Cardinality(Answering) \in Nat
  BY AnsweringFinite, FS_CardinalityType
<1>3. op' = op /\ pc[t] = "advance" /\ \A u \in Threads : pc'[u] = IF u = t THEN "signal" ELSE pc[u]
  BY DEF Advance, Goto, RingInv, TypeOK
<1>4. CASE op[t] \in AddOps
  <2>1. Answering' = Answering \cup {t} /\ t \notin Answering
    BY <1>3, <1>4 DEF Answering, Signalling, Removing, AddOps, TakeOps
  <2>2. Cardinality(Answering') = Cardinality(Answering) + 1
    BY <1>2, <2>1, FS_AddElement
  <2> QED BY <1>1, <1>2, <1>4, <2>2, LevelMoves
<1>5. CASE op[t] \in TakeOps
  <2>1. Answering' = Answering \ {t} /\ t \in Answering
    BY <1>3, <1>5 DEF Answering, Signalling, Removing, AddOps, TakeOps
  <2>2. Cardinality(Answering') = Cardinality(Answering) - 1
    BY <1>2, <2>1, FS_RemoveElement
  <2> QED BY <1>1, <1>2, <1>5, <2>2, LevelMoves
<1>6. CASE op[t] \notin AddOps \cup TakeOps
  <2>1. Answering' = Answering
    BY <1>3, <1>6 DEF Answering, Signalling, Removing, AddOps, TakeOps
  <2> QED BY <1>1, <1>6, <2>1, LevelMoves
<1> QED BY <1>4, <1>5, <1>6

LEMMA SignalKeepsWakeups ==
  ASSUME NoBlockedAdd, RingInv, WakeInv, NEW t \in Threads, Signal(t)
  PROVE  inCond' # {} => Level' <= Cardinality(Answering')
<1> SUFFICES ASSUME inCond' # {} PROVE Level' <= Cardinality(Answering') OBVIOUS
<1>1. IsFiniteSet(Answering) /\ Cardinality(Answering) \in Nat
  BY AnsweringFinite, FS_CardinalityType
<1>2. op' = op /\ pc[t] = "signal" /\ Level' = Level /\ pc \in [Threads -> Steps]
  BY DEF Signal, RingInv, TypeOK, ring, Level
<1>3. inCond # {} => Level <= Cardinality(Answering) BY DEF WakeInv
<1>4. CASE UNCHANGED conds /\ op[t] \notin AddOps /\ Goto(t, "return")
  <2>1. \A u \in Threads : pc'[u] = IF u = t THEN "return" ELSE pc[u]
    BY <1>2, <1>4 DEF Goto
  <2>2. Answering' = Answering
    BY <1>2, <1>4, <2>1 DEF Answering, Signalling, Removing
  <2> QED BY <1>2, <1>3, <1>4, <2>2 DEF conds
<1>5. ASSUME NEW w \in inCond, op[t] \in AddOps, inCond' = inCond \ {w},
             pc' = [pc EXCEPT ![t] = "return", ![w] = "relock"]
      PROVE Level' <= Cardinality(Answering')
  <2>1. w \in Threads /\ pc[w] = "wait" /\ op[w] \in TakeOps /\ w # t
    BY <1>2, <1>5 DEF RingInv, TypeOK, ThreadInv, WakeInv
  <2>2. \A u \in Threads : pc'[u] = IF u = t THEN "return"
                                    ELSE IF u = w THEN "relock" ELSE pc[u]
    BY <1>2, <1>5, <2>1
  <2>3. /\ Answering' = (Answering \ {t}) \cup {w}
        /\ t \in Answering /\ w \notin Answering \ {t}
    BY <1>2, <1>5, <2>1, <2>2 DEF Answering, Signalling, Removing, AddOps, TakeOps
  <2>4. IsFiniteSet(Answering \ {t}) /\ Cardinality(Answering \ {t}) = Cardinality(Answering) - 1
    BY <1>1, <2>3, FS_RemoveElement
  <2>5. Cardinality(Answering') = Cardinality(Answering \ {t}) + 1
    BY <2>3, <2>4, FS_AddElement
  <2> QED BY <1>1, <1>2, <1>3, <1>5, <2>4, <2>5
<1>6. ASSUME NEW w \in outCond, op[t] \notin AddOps, inCond' = inCond \ {w},
             pc' = [pc EXCEPT ![t] = "return", ![w] = "relock"]
      PROVE Level' <= Cardinality(Answering')
  <2>1. w \in Threads /\ pc[w] = "wait" /\ w # t
    BY <1>2 DEF RingInv, TypeOK, ThreadInv
  <2>2. \A u \in Threads : pc'[u] = IF u = t THEN "return"
                                    ELSE IF u = w THEN "relock" ELSE pc[u]
    BY <1>2, <1>6, <2>1
  <2>3. Answering \subseteq Answering'
    BY <1>2, <1>6, <2>1, <2>2 DEF Answering, Signalling, Removing, AddOps, TakeOps
  <2>4. IsFiniteSet(Answering')
    <3>1. Answering' \in SUBSET Threads BY DEF Answering
    <3> QED BY <3>1, FS_Subset DEF NoBlockedAdd
  <2>5. inCond # {} BY <1>6
  <2>6. RingInv' BY SignalStep
  <2> QED BY <1>2, <1>6, <2>3, <2>4, <2>6, MoreAnswer
<1>7. CASE SignalsInCond(op[t])
  BY <1>5, <1>7 DEF Signal, SignalsInCond, conds
<1>8. CASE ~SignalsInCond(op[t])
  BY <1>4, <1>6, <1>8 DEF Signal, SignalsInCond
<1> QED BY <1>7, <1>8

LEMMA NextWake == NoBlockedAdd /\ RingInv /\ WakeInv /\ [Next]_vars => WakeInv'
<1> SUFFICES ASSUME NoBlockedAdd, RingInv, WakeInv, [Next]_vars PROVE WakeInv' OBVIOUS
<1>0. RingInv' BY NextRing
<1>1. pc \in [Threads -> Steps] /\ op \in [Threads -> QueueOps \cup {"none"}]
  BY DEF RingInv, TypeOK
<1>2. IsFiniteSet(Answering')
  <2>1. Answering' \in SUBSET Threads BY DEF Answering
  <2> QED BY <2>1, FS_Subset DEF NoBlockedAdd
<1>3. CASE UNCHANGED vars
  BY <1>3 DEF WakeInv, Answering, Signalling, Removing, Level, vars, ring, threads, conds
<1>4. ASSUME NEW t \in Threads, NEW o \in Calls[t], NEW v \in Arguments(o), Call(t, o, v)
      PROVE WakeInv'
  <2>1. /\ pc[t] = "idle" /\ Level' = Level /\ inCond' = inCond
        /\ \A u \in Threads : /\ pc'[u] = IF u = t THEN "lock" ELSE pc[u]
                              /\ op'[u] = IF u = t THEN o ELSE op[u]
    BY <1>1, <1>4 DEF Call, Goto, ring, conds, Level
  <2>2. Answering \subseteq Answering'
    BY <2>1 DEF Answering, Signalling, Removing
  <2>3. t \notin inCond BY <2>1 DEF RingInv, ThreadInv
  <2>4. \A u \in inCond : u \in Threads BY DEF RingInv, TypeOK
  <2>5. inCond' # {} => Level' <= Cardinality(Answering')
    BY <1>0, <1>2, <2>1, <2>2, MoreAnswer
  <2> QED BY <2>1, <2>3, <2>4, <2>5 DEF WakeInv
<1>5. ASSUME NEW t \in Threads, Run(t) \/ SpuriousWakeup(t)
      PROVE WakeInv'
  <2>1. (\A u \in Threads : pc'[u] # "idle" => op'[u] \in Calls[u])
    <3>1. CASE Return(t)
      BY <1>1, <3>1 DEF WakeInv, Return, Goto
    <3>2. CASE ~Return(t)
      <4>1. op' = op BY <1>5, <3>2 DEF Run, Lock, Copy, Advance, GiveUp, Wait, Signal, Relock, SpuriousWakeup
      <4>2. pc[t] # "idle" BY <1>5, <3>2 DEF Run, Lock, Copy, Advance, GiveUp, Wait, Signal, Relock, SpuriousWakeup
      <4>3. \A u \in Threads : pc[u] = "idle" => pc'[u] = "idle"
        <5>1. CASE Signal(t)
          BY <1>1, <4>2, <5>1 DEF Signal, Goto, RingInv, ThreadInv
        <5>2. CASE ~Signal(t)
          BY <1>1, <1>5, <3>2, <4>2, <5>2 DEF Run, Lock, Copy, Advance, GiveUp, Wait, Relock, SpuriousWakeup, Goto
        <5> QED BY <5>1, <5>2
      <4> QED BY <4>1, <4>3 DEF WakeInv
    <3> QED BY <3>1, <3>2
  <2>2. (\A u \in inCond' : op'[u] \in TakeOps)
    <3>1. CASE Return(t)
      <4>1. t \notin inCond BY <3>1 DEF Return, RingInv, ThreadInv
      <4>2. inCond \subseteq Threads BY DEF RingInv, TypeOK
      <4> QED BY <1>1, <3>1, <4>1, <4>2 DEF WakeInv, Return, conds
    <3>2. CASE Wait(t)
      <4>1. op' = op /\ inCond' \subseteq inCond \cup {t} BY <3>2 DEF Wait
      <4>2. t \in inCond' => op[t] \in TakeOps
        <5>1. op[t] \in Calls[t] /\ op[t] # "add_blocking" /\ op[t] \in BlockingOps
          BY <3>2 DEF Wait, WakeInv, NoBlockedAdd
        <5>2. t \notin inCond BY <3>2 DEF Wait, RingInv, ThreadInv
        <5> QED BY <3>2, <5>1, <5>2 DEF Wait, WaitsOnInCond, AddOps, TakeOps, BlockingOps
      <4> QED BY <4>1, <4>2 DEF WakeInv
    <3>3. CASE ~Return(t) /\ ~Wait(t)
      <4>1. op' = op /\ inCond' \subseteq inCond
        BY <1>5, <3>3 DEF Run, Lock, Copy, Advance, GiveUp, Signal, Relock, SpuriousWakeup, conds
      <4> QED BY <4>1 DEF WakeInv
    <3> QED BY <3>1, <3>2, <3>3
  <2>3. inCond' # {} => Level' <= Cardinality(Answering')
    <3>1. CASE Advance(t) BY <3>1, AdvanceKeepsWakeups
    <3>2. CASE Signal(t) BY <3>2, SignalKeepsWakeups
    <3>3. CASE Lock(t) \/ Relock(t) \/ Copy(t) \/ SpuriousWakeup(t) \/ Return(t)
      <4>1. Level' = Level /\ inCond' \subseteq inCond
        BY <3>3 DEF Lock, Relock, Copy, SpuriousWakeup, Return, ring, conds, Level
      <4>2. Answering \subseteq Answering'
        BY <1>1, <3>3 DEF Lock, Relock, Copy, SpuriousWakeup, Return, Goto, AfterWait,
                          Answering, Signalling, Removing
      <4> QED BY <1>0, <1>2, <4>1, <4>2, MoreAnswer
    <3>4. CASE GiveUp(t) \/ Wait(t)
      <4>1. Level' = Level /\ pc[t] = "check" /\ op' = op
        BY <3>4 DEF GiveUp, Wait, ring, Level
      <4>2. CASE Removing(t)
        <5>1. op[t] \in TakeOps BY <4>2 DEF Removing
        <5>2. Level = 0 BY <3>4, <5>1 DEF GiveUp, Wait, Ready, AddOps, TakeOps
        <5>3. Cardinality(Answering') \in Nat BY <1>2, FS_CardinalityType
        <5> QED BY <4>1, <5>2, <5>3
      <4>3. CASE ~Removing(t)
        <5>1. op[t] \notin TakeOps BY <4>1, <4>3 DEF Removing
        <5>2. Answering \subseteq Answering'
          BY <1>1, <3>4, <4>1, <5>1 DEF GiveUp, Wait, Goto, Answering, Signalling, Removing
        <5>3. inCond' \subseteq inCond
          <6>1. CASE GiveUp(t) BY <6>1 DEF GiveUp, conds
          <6>2. CASE Wait(t)
            <7>1. op[t] \in Calls[t] /\ op[t] # "add_blocking" /\ op[t] \in BlockingOps
              BY <6>2 DEF Wait, WakeInv, NoBlockedAdd
            <7> QED BY <5>1, <6>2, <7>1 DEF Wait, WaitsOnInCond, AddOps, TakeOps, BlockingOps
          <6> QED BY <3>4, <6>1, <6>2
        <5> QED BY <1>0, <1>2, <4>1, <5>2, <5>3, MoreAnswer
      <4> QED BY <4>2, <4>3
    <3> QED BY <1>5, <3>1, <3>2, <3>3, <3>4 DEF Run
  <2> QED BY <2>1, <2>2, <2>3 DEF WakeInv
<1> QED BY <1>3, <1>4, <1>5 DEF Next

\* While a removal sleeps, every element of the ring has an add still to signal
\* it or a removal awake to take it, for any ring and any number of threads
\* that never block in an add.
THEOREM WakeupsAreNotLost == NoBlockedAdd /\ Spec => []NoLostWakeup
<1> SUFFICES ASSUME NoBlockedAdd PROVE Spec => []NoLostWakeup OBVIOUS
<1>1. Init => RingInv /\ WakeInv
  <2>1. Init => WakeInv BY DEF Init, WakeInv
  <2> QED BY <2>1, InitRing
<1>2. RingInv /\ WakeInv /\ [Next]_vars => (RingInv /\ WakeInv)'
  BY NextRing, NextWake
<1>3. WakeInv => NoLostWakeup BY DEF WakeInv, NoLostWakeup, Answering
<1> QED BY <1>1, <1>2, <1>3, PTL DEF Spec

-------------------------------------------------------------------------------
(***************************************************************************)
(* The mutex comes back.  A wait takes it again before it ends, and only a *)
(* removal is then where it expects it; whoever comes out of another wait  *)
(* has locked itself, and the ring, out.                                   *)
(***************************************************************************)

\* How the firmware uses its queues: of the operations that block it calls
\* queue_remove_blocking only.
OnlyRemovalsBlock ==
  \A t \in Threads : Calls[t] \cap BlockingOps \subseteq {"remove_blocking"}

HolderInv ==
  /\ \A t \in Threads : pc[t] # "idle" => op[t] \in Calls[t]
  /\ \A t \in Threads : pc[t] \in {"wait", "relock"} => op[t] \in BlockingOps
  /\ HolderGoesOn

LEMMA NextHolder ==
  ASSUME OnlyRemovalsBlock, RingInv, HolderInv, [Next]_vars
  PROVE  HolderInv'
<1> USE NobodyAssumption DEF HolderInv, HolderGoesOn
<1>1. pc \in [Threads -> Steps] /\ op \in [Threads -> QueueOps \cup {"none"}]
      /\ lock \in Threads \cup {Nobody}
  BY DEF RingInv, TypeOK
<1>2. ASSUME NEW t \in Threads, NEW o \in Calls[t], NEW v, Call(t, o, v) PROVE HolderInv'
  BY <1>1, <1>2 DEF Call, Goto
<1>3. ASSUME NEW t \in Threads, Lock(t) PROVE HolderInv'
  BY <1>1, <1>3 DEF Lock, Goto
<1>4. ASSUME NEW t \in Threads, Copy(t) \/ Advance(t) \/ GiveUp(t) PROVE HolderInv'
  BY <1>1, <1>4 DEF Copy, Advance, GiveUp, Goto
<1>5. ASSUME NEW t \in Threads, Wait(t) PROVE HolderInv'
  BY <1>1, <1>5 DEF Wait, Goto
<1>6. ASSUME NEW t \in Threads, Signal(t) PROVE HolderInv'
  <2>1. lock' = lock /\ op' = op /\ pc[t] = "signal" BY <1>6 DEF Signal
  <2>2. CASE pc' = [pc EXCEPT ![t] = "return"]
    BY <1>1, <2>1, <2>2
  <2>3. CASE \E w \in inCond \cup outCond : pc' = [pc EXCEPT ![t] = "return", ![w] = "relock"]
    <3>1. PICK w \in inCond \cup outCond : pc' = [pc EXCEPT ![t] = "return", ![w] = "relock"]
      BY <2>3
    <3>2. w \in Threads /\ pc[w] = "wait" BY <3>1 DEF RingInv, TypeOK, ThreadInv
    <3> QED BY <1>1, <2>1, <3>1, <3>2
  <2> QED BY <1>6, <2>2, <2>3 DEF Signal, Goto
<1>7. ASSUME NEW t \in Threads, Relock(t) PROVE HolderInv'
  <2>1. op[t] \in Calls[t] \cap BlockingOps BY <1>7 DEF Relock
  <2>2. op[t] \in TakeOps BY <2>1 DEF OnlyRemovalsBlock, TakeOps
  <2> QED BY <1>1, <1>7, <2>2 DEF Relock, AfterWait, Goto
<1>8. ASSUME NEW t \in Threads, Return(t) PROVE HolderInv'
  BY <1>1, <1>8 DEF Return, Goto
<1>9. ASSUME NEW t \in Threads, SpuriousWakeup(t) PROVE HolderInv'
  BY <1>1, <1>9 DEF SpuriousWakeup, Goto
<1>10. CASE UNCHANGED vars
  BY <1>10 DEF vars, threads, conds
<1> QED BY <1>2, <1>3, <1>4, <1>5, <1>6, <1>7, <1>8, <1>9, <1>10 DEF Next, Run

\* Whoever holds the mutex is about to release it, for any ring and any number
\* of threads that block in removals only: queue_remove_internal locks before
\* its loop and not in it.
THEOREM MutexComesBack == OnlyRemovalsBlock /\ Spec => []HolderGoesOn
<1> SUFFICES ASSUME OnlyRemovalsBlock PROVE Spec => []HolderGoesOn OBVIOUS
<1>1. Init => RingInv /\ HolderInv
  <2>1. Init => HolderInv BY DEF Init, HolderInv, HolderGoesOn
  <2> QED BY <2>1, InitRing
<1>2. RingInv /\ HolderInv /\ [Next]_vars => (RingInv /\ HolderInv)'
  BY NextRing, NextHolder
<1>3. HolderInv => HolderGoesOn BY DEF HolderInv
<1> QED BY <1>1, <1>2, <1>3, PTL DEF Spec

SelfLocked(t) == lock = t /\ pc[t] = "lock"

LEMMA SelfLockedStep ==
  ASSUME RingInv, [Next]_vars, NEW t \in Threads, SelfLocked(t)
  PROVE  SelfLocked(t)' /\ ring' = ring
<1> USE NobodyAssumption DEF SelfLocked
<1>1. pc \in [Threads -> Steps] BY DEF RingInv, TypeOK
<1>2. ASSUME NEW u \in Threads, NEW o \in Calls[u], NEW v, Call(u, o, v)
      PROVE SelfLocked(t)' /\ ring' = ring
  BY <1>1, <1>2 DEF Call, Goto
<1>3. ASSUME NEW u \in Threads, Lock(u) \/ Relock(u) PROVE FALSE
  BY <1>3 DEF Lock, Relock
<1>4. ASSUME NEW u \in Threads, Copy(u) \/ Advance(u) \/ GiveUp(u) \/ Wait(u) PROVE FALSE
  <2>1. pc[u] \in {"check", "advance"} BY <1>4 DEF Copy, Advance, GiveUp, Wait
  <2> QED BY <2>1 DEF RingInv, ThreadInv
<1>5. ASSUME NEW u \in Threads, Signal(u) PROVE SelfLocked(t)' /\ ring' = ring
  <2>1. lock' = lock /\ ring' = ring /\ pc[u] = "signal" BY <1>5 DEF Signal
  <2>2. CASE pc' = [pc EXCEPT ![u] = "return"]
    BY <1>1, <2>1, <2>2
  <2>3. CASE \E w \in inCond \cup outCond : pc' = [pc EXCEPT ![u] = "return", ![w] = "relock"]
    <3>1. PICK w \in inCond \cup outCond : pc' = [pc EXCEPT ![u] = "return", ![w] = "relock"]
      BY <2>3
    <3>2. w \in Threads /\ pc[w] = "wait" BY <3>1 DEF RingInv, TypeOK, ThreadInv
    <3> QED BY <1>1, <2>1, <3>1, <3>2
  <2> QED BY <1>5, <2>2, <2>3 DEF Signal, Goto
<1>6. ASSUME NEW u \in Threads, Return(u) \/ SpuriousWakeup(u)
      PROVE SelfLocked(t)' /\ ring' = ring
  BY <1>1, <1>6 DEF Return, SpuriousWakeup, Goto
<1>7. CASE UNCHANGED vars
  BY <1>7 DEF vars, threads
<1> QED BY <1>2, <1>3, <1>4, <1>5, <1>6, <1>7 DEF Next, Run

\* What the firmware is spared: a thread that comes out of a blocked add or
\* peek and locks again holds the mutex and waits for it for ever, and from
\* then on the ring is what it is.
THEOREM LockedTwiceIsForEver ==
  Spec => [][\A t \in Threads : SelfLocked(t) => SelfLocked(t)' /\ ring' = ring]_vars
<1>1. RingInv /\ [Next]_vars
        => [\A t \in Threads : SelfLocked(t) => SelfLocked(t)' /\ ring' = ring]_vars
  BY SelfLockedStep
<1> QED BY <1>1, RingInvariant, PTL DEF Spec

===============================================================================
