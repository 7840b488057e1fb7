----------------------------- MODULE BoundedFifo ------------------------------
(***************************************************************************)
(* What every port's hal_queue promises the firmware: a first-in first-out *)
(* queue of bounded capacity, shared by threads, callbacks and interrupts, *)
(* whose operations take effect at one instant between call and return.    *)
(*                                                                         *)
(* The Pico and FreeRTOS ports hand each operation to the queue of their   *)
(* SDK (queue_try_add, xQueueSend, ...); those libraries are modelled by   *)
(* this promise.  The POSIX port has a queue of its own, see               *)
(* CircularBuffer, which is checked and proved to implement it.            *)
(***************************************************************************)
EXTENDS Integers, Sequences

CONSTANTS Threads,     \* whoever calls the queue
          Values,      \* the elements it can hold
          Capacity,    \* element_count
          NoValue      \* nothing has been copied yet

VARIABLES queue,       \* the elements, oldest first
          call         \* per thread, the operation under way

AddOps  == {"try_add", "add_blocking"}
TakeOps == {"try_remove", "remove_blocking"}
PeekOps == {"try_peek", "peek_blocking"}
TryOps  == {"try_add", "try_remove", "try_peek"}
QueueOps == AddOps \cup TakeOps \cup PeekOps

\* What a thread passes: adders pass the element, the others a place for one.
Arguments(op) == IF op \in AddOps THEN Values ELSE {NoValue}

\* A call is under way until it has taken effect ("ok") or given up ("refused").
Idle == [op |-> "none", val |-> NoValue, status |-> "idle"]
Under(t, ops) == call[t].status = "pending" /\ call[t].op \in ops
Settle(t, status, val) ==
  call' = [call EXCEPT ![t] = [op |-> call[t].op, val |-> val, status |-> status]]

Init == queue = <<>> /\ call = [t \in Threads |-> Idle]

Invoke(t, op, v) ==
  /\ call[t].status = "idle"
  /\ call' = [call EXCEPT ![t] = [op |-> op, val |-> v, status |-> "pending"]]
  /\ UNCHANGED queue

Add(t) == /\ Under(t, AddOps)
          /\ Len(queue) < Capacity
          /\ queue' = Append(queue, call[t].val)
          /\ Settle(t, "ok", call[t].val)

Remove(t) == /\ Under(t, TakeOps)
             /\ queue # <<>>
             /\ queue' = Tail(queue)
             /\ Settle(t, "ok", Head(queue))

Peek(t) == /\ Under(t, PeekOps)
           /\ queue # <<>>
           /\ Settle(t, "ok", Head(queue))
           /\ UNCHANGED queue

\* Only the non-blocking operations give up: an add because the queue is
\* full, a removal or a peek because it is empty.
Refuse(t) == /\ Under(t, TryOps)
             /\ IF call[t].op \in AddOps THEN Len(queue) = Capacity ELSE queue = <<>>
             /\ Settle(t, "refused", call[t].val)
             /\ UNCHANGED queue

Return(t) == /\ call[t].status \in {"ok", "refused"}
             /\ call' = [call EXCEPT ![t] = Idle]
             /\ UNCHANGED queue

Next == \E t \in Threads :
          \/ \E op \in QueueOps : \E v \in Arguments(op) : Invoke(t, op, v)
          \/ Add(t) \/ Remove(t) \/ Peek(t) \/ Refuse(t) \/ Return(t)

Spec == Init /\ [][Next]_<<queue, call>>

===============================================================================
