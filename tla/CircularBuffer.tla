---------------------------- MODULE CircularBuffer ----------------------------
(***************************************************************************)
(* The POSIX port's queue, hal/queue/ports/posix/circular_buffer.c: a ring *)
(* of element_count + 1 slots under one mutex, with two condition          *)
(* variables.  One action per step between two points where another        *)
(* thread can run: a lock, a wait, an unlock, a signal.                    *)
(*                                                                         *)
(* Both a blocked add and a blocked removal wait on in_cond; a blocked     *)
(* peek waits on out_cond.  An add signals in_cond, a removal and a peek   *)
(* signal out_cond.  pthread_cond_wait may wake without a signal.  After   *)
(* its wait a removal holds the mutex and looks again; an add or a peek    *)
(* goes back to pthread_mutex_lock, on a mutex it already holds.           *)
(***************************************************************************)
EXTENDS Integers, Sequences, FiniteSets

CONSTANTS Threads, Values, Capacity, NoValue,
          Calls,         \* per thread, the operations it performs
          IndexModulus,  \* wptr and rptr count modulo this (2^16 in the code)
          Nobody         \* holds the mutex when it is free

AddOps  == {"try_add", "add_blocking"}
TakeOps == {"try_remove", "remove_blocking"}
PeekOps == {"try_peek", "peek_blocking"}
BlockingOps == {"add_blocking", "remove_blocking", "peek_blocking"}
QueueOps == {"try_add", "try_remove", "try_peek"} \cup BlockingOps

ASSUME CapacityAssumption ==
  Capacity \in Nat /\ IndexModulus \in Nat /\ Capacity < IndexModulus
ASSUME CallsAssumption == Calls \in [Threads -> SUBSET QueueOps]
ASSUME NobodyAssumption == Nobody \notin Threads

VARIABLES wptr, rptr,  \* the slots written and read next
          data,        \* the slots
          lock,        \* the thread that holds the mutex, or Nobody
          pc, op, val, \* per thread: where it is, what it does, on which element
          result,      \* per thread: what the call returns
          inCond, outCond  \* the threads waiting on each condition

ring    == <<wptr, rptr, data>>
threads == <<pc, op, val, result>>
conds   == <<inCond, outCond>>
vars    == <<ring, lock, threads, conds>>

Slots == 0 .. Capacity
Level == LET rc == wptr - rptr IN IF rc < 0 THEN rc + Capacity + 1 ELSE rc

\* MUTANT of Inc: >= for >, so that the spare slot that tells a full ring
\* from an empty one is lost.
IncTooSoon(index) == LET next == (index + 1) % IndexModulus
                     IN  IF next >= Capacity THEN 0 ELSE next

\* MUTANT of Inc: the index is never compared and runs past the last slot.
IncUnbounded(index) == (index + 1) % IndexModulus

\* ++index > element_count, on an unsigned index of IndexModulus values.
Inc(index) == LET next == (index + 1) % IndexModulus
              IN  IF next > Capacity THEN 0 ELSE next

Arguments(o) == IF o \in AddOps THEN Values ELSE {NoValue}
Goto(t, step) == pc' = [pc EXCEPT ![t] = step]

Init == /\ wptr = 0 /\ rptr = 0
        /\ data = [s \in Slots |-> NoValue]
        /\ lock = Nobody
        /\ pc = [t \in Threads |-> "idle"]
        /\ op = [t \in Threads |-> "none"]
        /\ val = [t \in Threads |-> NoValue]
        /\ result = [t \in Threads |-> FALSE]
        /\ inCond = {} /\ outCond = {}

Call(t, o, v) ==
  /\ pc[t] = "idle"
  /\ op' = [op EXCEPT ![t] = o]
  /\ val' = [val EXCEPT ![t] = v]
  /\ Goto(t, "lock")
  /\ UNCHANGED <<ring, lock, result, conds>>

Lock(t) == /\ pc[t] = "lock"
           /\ lock = Nobody
           /\ lock' = t
           /\ Goto(t, "check")
           /\ UNCHANGED <<ring, op, val, result, conds>>

\* The level tells whether the operation can go ahead.
Ready(t) == IF op[t] \in AddOps THEN Level # Capacity ELSE Level # 0

\* memcpy, still under the mutex.
Copy(t) ==
  /\ pc[t] = "check"
  /\ Ready(t)
  /\ IF op[t] \in AddOps
     THEN data' = [data EXCEPT ![wptr] = val[t]] /\ UNCHANGED val
     ELSE val' = [val EXCEPT ![t] = data[rptr]] /\ UNCHANGED data
  /\ Goto(t, "advance")
  /\ UNCHANGED <<wptr, rptr, lock, op, result, conds>>

\* Advance the index (a peek has none) and release the mutex.
Advance(t) ==
  /\ pc[t] = "advance"
  /\ wptr' = IF op[t] \in AddOps THEN Inc(wptr) ELSE wptr
  /\ rptr' = IF op[t] \in TakeOps THEN Inc(rptr) ELSE rptr
  /\ lock' = Nobody
  /\ result' = [result EXCEPT ![t] = TRUE]
  /\ Goto(t, "signal")
  /\ UNCHANGED <<data, op, val, conds>>

\* The non-blocking operations give up at once.
GiveUp(t) ==
  /\ pc[t] = "check"
  /\ ~Ready(t) /\ op[t] \notin BlockingOps
  /\ lock' = Nobody
  /\ result' = [result EXCEPT ![t] = FALSE]
  /\ Goto(t, "return")
  /\ UNCHANGED <<ring, op, val, conds>>

\* MUTANT of WaitsOnInCond: a removal waits for removals.
WaitsForItsOwn(o) == o \in AddOps

WaitsOnInCond(o) == o \in AddOps \cup TakeOps

\* pthread_cond_wait releases the mutex and joins the waiters in one step.
Wait(t) ==
  /\ pc[t] = "check"
  /\ ~Ready(t) /\ op[t] \in BlockingOps
  /\ IF WaitsOnInCond(op[t])
     THEN inCond' = inCond \cup {t} /\ UNCHANGED outCond
     ELSE outCond' = outCond \cup {t} /\ UNCHANGED inCond
  /\ lock' = Nobody
  /\ Goto(t, "wait")
  /\ UNCHANGED <<ring, op, val, result>>

\* MUTANT of SignalsInCond: an add signals the condition peeks wait on.
SignalsOutCond(o) == o \notin AddOps

SignalsInCond(o) == o \in AddOps

\* pthread_cond_signal, after the mutex is free, wakes one of the waiters.
Signal(t) ==
  /\ pc[t] = "signal"
  /\ LET waiters == IF SignalsInCond(op[t]) THEN inCond ELSE outCond
     IN  \/ /\ waiters = {}
            /\ Goto(t, "return")
            /\ UNCHANGED conds
         \/ \E w \in waiters :
              /\ pc' = [pc EXCEPT ![t] = "return", ![w] = "relock"]
              /\ inCond' = inCond \ {w} /\ outCond' = outCond \ {w}
  /\ UNCHANGED <<ring, lock, op, val, result>>

\* A wait may end without a signal.
SpuriousWakeup(t) ==
  /\ pc[t] = "wait"
  /\ inCond' = inCond \ {t} /\ outCond' = outCond \ {t}
  /\ Goto(t, "relock")
  /\ UNCHANGED <<ring, lock, op, val, result>>

\* MUTANT of AfterWait: the lock is inside the loop, as it is for the others.
AfterWaitLock(o) == "lock"

\* Where the loop resumes: only queue_remove_internal locks before it.
AfterWait(o) == IF o \in TakeOps THEN "check" ELSE "lock"

\* pthread_cond_wait takes the mutex back before it returns.
Relock(t) == /\ pc[t] = "relock"
             /\ lock = Nobody
             /\ lock' = t
             /\ Goto(t, AfterWait(op[t]))
             /\ UNCHANGED <<ring, op, val, result, conds>>

Return(t) == /\ pc[t] = "return"
             /\ Goto(t, "idle")
             /\ op' = [op EXCEPT ![t] = "none"]
             /\ val' = [val EXCEPT ![t] = NoValue]
             /\ result' = [result EXCEPT ![t] = FALSE]
             /\ UNCHANGED <<ring, lock, conds>>

Run(t) == \/ Lock(t) \/ Copy(t) \/ Advance(t) \/ GiveUp(t) \/ Wait(t)
          \/ Signal(t) \/ Relock(t) \/ Return(t)

Next == \E t \in Threads :
          \/ \E o \in Calls[t] : \E v \in Arguments(o) : Call(t, o, v)
          \/ Run(t)
          \/ SpuriousWakeup(t)

Spec == Init /\ [][Next]_vars

\* The scheduler runs every thread, and a thread that keeps asking for the
\* mutex gets it some day.  Nobody has to call, but whoever waits in a loop
\* for messages (the event loop) calls again; a wait may end spuriously, and
\* need not.
CallAgain(t) == \E o \in Calls[t] : \E v \in Arguments(o) : Call(t, o, v)
Fairness == \A t \in Threads :
              /\ WF_vars(Copy(t) \/ Advance(t) \/ GiveUp(t) \/ Wait(t) \/ Signal(t) \/ Return(t))
              /\ SF_vars(Lock(t) \/ Relock(t))
              /\ Calls[t] \cap TakeOps # {} => WF_vars(CallAgain(t))
FairSpec == Spec /\ Fairness

-------------------------------------------------------------------------------
(***************************************************************************)
(* Properties.                                                             *)
(***************************************************************************)

Steps == {"idle", "lock", "check", "advance", "signal", "wait", "relock", "return"}

\* Types, and who holds the mutex: both indices stay in the ring, although
\* they are incremented before they are compared.
TypeOK ==
  /\ wptr \in Slots /\ rptr \in Slots
  /\ data \in [Slots -> Values \cup {NoValue}]
  /\ lock \in Threads \cup {Nobody}
  /\ pc \in [Threads -> Steps]
  /\ op \in [Threads -> QueueOps \cup {"none"}]
  /\ val \in [Threads -> Values \cup {NoValue}]
  /\ result \in [Threads -> BOOLEAN]
  /\ inCond \subseteq Threads /\ outCond \subseteq Threads

\* The ring read as a sequence, oldest element first.
Slot(k) == IF rptr + k <= Capacity THEN rptr + k ELSE rptr + k - (Capacity + 1)
Contents == [i \in 1 .. Level |-> data[Slot(i - 1)]]

\* A call has taken effect once its mutex is released.
Status(t) == CASE pc[t] = "idle" -> "idle"
               [] pc[t] \in {"signal", "return"} -> IF result[t] THEN "ok" ELSE "refused"
               [] OTHER -> "pending"
Shown(t) == IF Status(t) = "pending" /\ op[t] \notin AddOps THEN NoValue ELSE val[t]
CallOf == [t \in Threads |-> [op |-> op[t], val |-> Shown(t), status |-> Status(t)]]

Fifo == INSTANCE BoundedFifo WITH queue <- Contents, call <- CallOf

\* The ring with its mutex is a bounded first-in first-out queue whose
\* operations are atomic: nothing is lost, doubled or reordered however
\* adders and removers interleave and wherever the indices wrap, an add is
\* refused only when full and a removal only when empty.  (The blocking
\* operations may never return; the next property is about that.)
ImplementsFifo == Fifo!Spec

Removing(t) == op[t] \in TakeOps /\ pc[t] \in {"lock", "relock", "check", "advance"}
Signalling(t) == pc[t] = "signal" /\ op[t] \in AddOps

\* No wakeup is lost, although the mutex is released before the signal is
\* sent and others may come in between: while a removal sleeps, every element
\* in the ring has an add still to signal it or a removal awake to take it.
\* (For the operations the firmware uses; a blocked add could eat the signal.)
NoLostWakeup ==
  inCond # {} =>
    Level <= Cardinality({t \in Threads : Signalling(t) \/ Removing(t)})

\* Whoever holds the mutex goes on to release it: no thread waits for a mutex
\* that it, or somebody who waits too, holds.  (For the operations the firmware
\* uses; an add or a peek that wakes locks the mutex it was woken with.)
HolderGoesOn == lock # Nobody => pc[lock] \in {"check", "advance"}

\* The event loop's blocking pop: whatever is queued is taken in the end,
\* even when it slept, woke spuriously or raced other threads for the mutex.
QueuedIsTaken ==
  Level > 0 ~> \E t \in Threads : op[t] \in TakeOps /\ pc[t] = "advance"

===============================================================================
