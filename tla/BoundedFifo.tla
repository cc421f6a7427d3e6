---------------------------- MODULE BoundedFifo ----------------------------
(***************************************************************************)
(* What the lock-free ring of core/src/buffer/ring_buffer.rs promises its  *)
(* callers: a first-in first-out queue of at most Capacity items.  A push  *)
(* and a pop each happen in one step.  A popped item is in the hands of    *)
(* the thread that popped it until its callback has returned.              *)
(***************************************************************************)
EXTENDS Naturals, Sequences

CONSTANTS
  Capacity,   \* most items the queue holds
  Threads,    \* threads that push and pop
  Items,      \* what is pushed
  None        \* no item in hand

VARIABLES
  queue,      \* the items pushed and not yet popped, oldest first
  holding     \* holding[t]: the item thread t has popped and is processing

vars == <<queue, holding>>

Init ==
  /\ queue = <<>>
  /\ holding = [t \in Threads |-> None]

Push(x) ==
  /\ Len(queue) < Capacity
  /\ queue' = Append(queue, x)
  /\ UNCHANGED holding

Pop(t) ==
  /\ queue # <<>>
  /\ holding[t] = None
  /\ holding' = [holding EXCEPT ![t] = Head(queue)]
  /\ queue' = Tail(queue)

Finish(t) ==
  /\ holding[t] # None
  /\ holding' = [holding EXCEPT ![t] = None]
  /\ UNCHANGED queue

Next ==
  \/ \E x \in Items : Push(x)
  \/ \E t \in Threads : Pop(t) \/ Finish(t)

Spec == Init /\ [][Next]_vars

=============================================================================
