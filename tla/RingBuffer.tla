----------------------------- MODULE RingBuffer -----------------------------
(***************************************************************************)
(* The lock-free ring of core/src/buffer/ring_buffer.rs, one action per    *)
(* atomic access to memory that threads share.  Any number of producers    *)
(* call try_push; a producer that found the ring full may call             *)
(* drain_helping (cooperative helping); consumer threads call drain, and   *)
(* anybody may ask for len (fill_level is len divided by the capacity).    *)
(*                                                                         *)
(* A sequence number s names the s-th successful push.  It lives in slot   *)
(* Idx(s), whose own sequence says whose turn it is:                       *)
(*   s              the producer that claimed s may write,                 *)
(*   s + 1          the item is published, a drain may claim s,            *)
(*   s + Capacity   it was taken, the producer of s + Capacity may write.  *)
(*                                                                         *)
(* Sequence numbers are u64 in the code and cannot wrap in the lifetime of *)
(* a process, so they are natural numbers here.  The batch limits of drain *)
(* and drain_helping are abstracted: a call may end after any item.        *)
(***************************************************************************)
EXTENDS Integers, Functions

CONSTANTS
  Capacity,    \* number of slots; a power of two in the code
  Producers,   \* threads that call try_push
  Helpers,     \* those of them that also call len and drain_helping
  Consumers,   \* threads that call drain: one in the engine
  MaxPushes,   \* bound: MaxPushes[p] calls of try_push by producer p
  None         \* Option::None

ASSUME CapacityAssumption == Capacity \in Nat \ {0}
ASSUME ThreadsAssumption  == /\ Producers \cap Consumers = {}
                             /\ Helpers \subseteq Producers
ASSUME BoundAssumption    == MaxPushes \in [Producers -> Nat]

Threads == Producers \cup Consumers
Slots   == 0 .. Capacity - 1
Items   == UNION {{p} \X (1 .. MaxPushes[p]) : p \in Producers}
           \* <<p, n>> is the item of the n-th try_push of p

ASSUME NoneAssumption == None \notin Items

VARIABLES
  producer_sequence,   \* next sequence number to be claimed by a push
  consumer_sequence,   \* next sequence number to be claimed by a drain
  slot_sequence,       \* RingSlot::sequence of every slot
  slot_data,           \* RingSlot::data of every slot
  pc,                  \* where each thread is in its call
  op,                  \* the call each thread is making
  lcons,               \* the local consumer_seq of that call
  lprod,               \* the local producer_seq of that call
  item,                \* the item the thread pushes, or has just taken
  pushes               \* calls of try_push each producer has begun

shared == <<producer_sequence, consumer_sequence, slot_sequence, slot_data>>
vars   == <<producer_sequence, consumer_sequence, slot_sequence, slot_data,
            pc, op, lcons, lprod, item, pushes>>

Ops    == {"none", "push", "drain", "help", "len"}
Labels == {"idle", "load_first", "load_second", "decide", "await", "write",
           "publish", "recheck", "claim", "take", "release"}

Idx(s) == s % Capacity

Init ==
  /\ producer_sequence = 0
  /\ consumer_sequence = 0
  /\ slot_sequence = [i \in Slots |-> i]
  /\ slot_data = [i \in Slots |-> None]
  /\ pc = [t \in Threads |-> "idle"]
  /\ op = [t \in Threads |-> "none"]
  /\ lcons = [t \in Threads |-> 0]
  /\ lprod = [t \in Threads |-> 0]
  /\ item = [t \in Threads |-> None]
  /\ pushes = [p \in Producers |-> 0]

Goto(t, from, to) ==
  /\ pc[t] = from
  /\ pc' = [pc EXCEPT ![t] = to]

\* The loop of the call starts over: the cursors are loaded again.
Retry(t, from) ==
  /\ Goto(t, from, "load_first")
  /\ lcons' = [lcons EXCEPT ![t] = 0]
  /\ lprod' = [lprod EXCEPT ![t] = 0]
  /\ UNCHANGED <<op, pushes>>

\* The call ends: its locals go out of scope.
Return(t, from) ==
  /\ Goto(t, from, "idle")
  /\ op' = [op EXCEPT ![t] = "none"]
  /\ lcons' = [lcons EXCEPT ![t] = 0]
  /\ lprod' = [lprod EXCEPT ![t] = 0]
  /\ item' = [item EXCEPT ![t] = None]
  /\ UNCHANGED pushes

-----------------------------------------------------------------------------
(* Calls                                                                   *)

Call(t, o) ==
  /\ Goto(t, "idle", "load_first")
  /\ op' = [op EXCEPT ![t] = o]
  /\ UNCHANGED <<shared, lcons, lprod>>

CallTryPush(p) ==
  /\ Call(p, "push")
  /\ pushes[p] < MaxPushes[p]
  /\ pushes' = [pushes EXCEPT ![p] = @ + 1]
  /\ item' = [item EXCEPT ![p] = <<p, pushes[p] + 1>>]

CallDrain(c)        == Call(c, "drain") /\ UNCHANGED <<item, pushes>>
CallDrainHelping(p) == Call(p, "help")  /\ UNCHANGED <<item, pushes>>
CallLen(p)          == Call(p, "len")   /\ UNCHANGED <<item, pushes>>

-----------------------------------------------------------------------------
(* Every call loads both cursors, consumer_sequence first.                 *)

LoadConsumer(t, from, to) ==
  /\ Goto(t, from, to)
  /\ lcons' = [lcons EXCEPT ![t] = consumer_sequence]
  /\ UNCHANGED <<shared, op, lprod, item, pushes>>

LoadProducer(t, from, to) ==
  /\ Goto(t, from, to)
  /\ lprod' = [lprod EXCEPT ![t] = producer_sequence]
  /\ UNCHANGED <<shared, op, lcons, item, pushes>>

LoadCursors_Mutant_Swapped(t) ==
  \/ LoadProducer(t, "load_first", "load_second")
  \/ LoadConsumer(t, "load_second", "decide")

LoadCursors(t) ==
  \/ LoadConsumer(t, "load_first", "load_second")
  \/ LoadProducer(t, "load_second", "decide")

ReturnLen(t) ==
  /\ op[t] = "len"
  /\ Return(t, "decide")
  /\ UNCHANGED shared

-----------------------------------------------------------------------------
(* try_push                                                                *)

PushFull(t) ==
  /\ op[t] = "push"
  /\ lprod[t] - lcons[t] >= Capacity
  /\ Return(t, "decide")
  /\ UNCHANGED shared

\* compare_exchange_weak on producer_sequence succeeds
ClaimSlot(t) ==
  /\ op[t] = "push"
  /\ lprod[t] - lcons[t] < Capacity
  /\ producer_sequence = lprod[t]
  /\ Goto(t, "decide", "await")
  /\ producer_sequence' = lprod[t] + 1
  /\ UNCHANGED <<consumer_sequence, slot_sequence, slot_data,
                 op, lcons, lprod, item, pushes>>

\* ... or fails, because another producer was faster or spuriously
ClaimSlotFails(t) ==
  /\ op[t] = "push"
  /\ lprod[t] - lcons[t] < Capacity
  /\ Retry(t, "decide")
  /\ UNCHANGED <<shared, item>>

AwaitSlot_Mutant_NoWait(t) ==
  /\ Goto(t, "await", "write")
  /\ UNCHANGED <<shared, op, lcons, lprod, item, pushes>>

AwaitSlot(t) ==
  /\ Goto(t, "await", "write")
  /\ slot_sequence[Idx(lprod[t])] = lprod[t]
  /\ UNCHANGED <<shared, op, lcons, lprod, item, pushes>>

WriteSlot(t) ==
  /\ Goto(t, "write", "publish")
  /\ slot_data' = [slot_data EXCEPT ![Idx(lprod[t])] = item[t]]
  /\ UNCHANGED <<producer_sequence, consumer_sequence, slot_sequence,
                 op, lcons, lprod, item, pushes>>

PublishSlot(t) ==
  /\ Return(t, "publish")
  /\ slot_sequence' = [slot_sequence EXCEPT ![Idx(lprod[t])] = lprod[t] + 1]
  /\ UNCHANGED <<producer_sequence, consumer_sequence, slot_data>>

-----------------------------------------------------------------------------
(* drain and drain_helping                                                 *)

Draining(t) == op[t] \in {"drain", "help"}

Published(t) == slot_sequence[Idx(lcons[t])] = lcons[t] + 1

DrainEmpty(t) ==
  /\ Draining(t)
  /\ lcons[t] >= lprod[t]
  /\ Return(t, "decide")
  /\ UNCHANGED shared

SeePublished_Mutant_Unchecked(t) ==
  /\ Draining(t)
  /\ lcons[t] < lprod[t]
  /\ Goto(t, "decide", "claim")
  /\ UNCHANGED <<shared, op, lcons, lprod, item, pushes>>

SeePublished(t) ==
  /\ Draining(t)
  /\ lcons[t] < lprod[t]
  /\ Published(t)
  /\ Goto(t, "decide", "claim")
  /\ UNCHANGED <<shared, op, lcons, lprod, item, pushes>>

\* drain_helping does not wait for a producer that has claimed the slot
HelpUnpublished(t) ==
  /\ op[t] = "help"
  /\ lcons[t] < lprod[t]
  /\ ~Published(t)
  /\ Return(t, "decide")
  /\ UNCHANGED shared

\* drain does: it spins, looking at consumer_sequence in every round
DrainUnpublished(t) ==
  /\ op[t] = "drain"
  /\ lcons[t] < lprod[t]
  /\ ~Published(t)
  /\ Goto(t, "decide", "recheck")
  /\ UNCHANGED <<shared, op, lcons, lprod, item, pushes>>

Recheck_Mutant_KeepSpinning(t) ==
  /\ Goto(t, "recheck", "decide")
  /\ UNCHANGED <<shared, op, lcons, lprod, item, pushes>>

Recheck(t) ==
  /\ \/ /\ consumer_sequence # lcons[t]   \* snatched by a helper
        /\ Retry(t, "recheck")
     \/ /\ consumer_sequence = lcons[t]
        /\ Goto(t, "recheck", "decide")
        /\ UNCHANGED <<op, lcons, lprod, pushes>>
  /\ UNCHANGED <<shared, item>>

\* compare_exchange_weak on consumer_sequence succeeds
ClaimItem(t) ==
  /\ consumer_sequence = lcons[t]
  /\ Goto(t, "claim", "take")
  /\ consumer_sequence' = lcons[t] + 1
  /\ UNCHANGED <<producer_sequence, slot_sequence, slot_data,
                 op, lcons, lprod, item, pushes>>

\* ... or fails: drain starts over, drain_helping gives up
ClaimItemFails(t) ==
  /\ \/ /\ op[t] = "drain"
        /\ Retry(t, "claim")
        /\ UNCHANGED item
     \/ /\ op[t] = "help"
        /\ Return(t, "claim")
  /\ UNCHANGED shared

\* The item leaves the slot and the callback runs on it.
TakeItem(t) ==
  /\ Goto(t, "take", "release")
  /\ item' = [item EXCEPT ![t] = slot_data[Idx(lcons[t])]]
  /\ slot_data' = [slot_data EXCEPT ![Idx(lcons[t])] = None]
  /\ UNCHANGED <<producer_sequence, consumer_sequence, slot_sequence,
                 op, lcons, lprod, pushes>>

\* The call goes on with the next slot or has reached its batch limit.
NextSlotOrReturn(t) ==
  \/ /\ Retry(t, "release")
     /\ item' = [item EXCEPT ![t] = None]
  \/ Return(t, "release")

ReleaseSlot_Mutant_NotReleased(t) ==
  /\ NextSlotOrReturn(t)
  /\ UNCHANGED shared

ReleaseSlot_Mutant_LapBack(t) ==
  /\ NextSlotOrReturn(t)
  /\ slot_sequence' =
       [slot_sequence EXCEPT ![Idx(lcons[t])] = lcons[t] - Capacity]
  /\ UNCHANGED <<producer_sequence, consumer_sequence, slot_data>>

ReleaseSlot(t) ==
  /\ NextSlotOrReturn(t)
  /\ slot_sequence' =
       [slot_sequence EXCEPT ![Idx(lcons[t])] = lcons[t] + Capacity]
  /\ UNCHANGED <<producer_sequence, consumer_sequence, slot_data>>

-----------------------------------------------------------------------------
\* The steps of a thread that is inside a call.
Step(t) ==
  \/ LoadCursors(t) \/ ReturnLen(t)
  \/ PushFull(t) \/ ClaimSlot(t) \/ ClaimSlotFails(t)
  \/ AwaitSlot(t) \/ WriteSlot(t) \/ PublishSlot(t)
  \/ DrainEmpty(t) \/ SeePublished(t) \/ HelpUnpublished(t)
  \/ DrainUnpublished(t) \/ Recheck(t)
  \/ ClaimItem(t) \/ ClaimItemFails(t) \/ TakeItem(t) \/ ReleaseSlot(t)

Next ==
  \/ \E p \in Producers : CallTryPush(p)
  \/ \E p \in Helpers : CallDrainHelping(p) \/ CallLen(p)
  \/ \E c \in Consumers : CallDrain(c)
  \/ \E t \in Threads : Step(t)

\* Threads are scheduled; the consumer loop calls drain again and again
\* (scheduler.rs consumer_loop, audit.rs audit_consumer_loop); a weak
\* compare-exchange that could succeed time and again eventually does.
Fairness ==
  /\ \A t \in Threads : WF_vars(Step(t))
  /\ \A c \in Consumers : WF_vars(CallDrain(c)) /\ SF_vars(ClaimItem(c))
  /\ \A p \in Producers : SF_vars(ClaimSlot(p))

Spec     == Init /\ [][Next]_vars
FairSpec == Spec /\ Fairness

-----------------------------------------------------------------------------
(* Properties                                                              *)

TypeOK ==
  /\ producer_sequence \in Nat
  /\ consumer_sequence \in Nat
  /\ slot_sequence \in [Slots -> Nat]
  /\ slot_data \in [Slots -> Items \cup {None}]
  /\ pc \in [Threads -> Labels]
  /\ op \in [Threads -> Ops]
  /\ lcons \in [Threads -> Nat]
  /\ lprod \in [Threads -> Nat]
  /\ item \in [Threads -> Items \cup {None}]
  /\ pushes \in [Producers -> Nat]
  /\ \A p \in Producers : pushes[p] <= MaxPushes[p]

\* The differences producer_seq - consumer_seq that try_push and len compute
\* on two loads never underflow, whatever the other threads did between them
\* (the comments of try_push and len tell of the hang an underflow caused).
NoUnderflow == \A t \in Threads : pc[t] = "decide" => lcons[t] <= lprod[t]

\* The slot a thread may read or write without synchronisation, if any.
Owns(t, s) ==
  \/ pc[t] \in {"write", "publish"} /\ s = Idx(lprod[t])
  \/ pc[t] \in {"take", "release"}  /\ s = Idx(lcons[t])

\* A slot's UnsafeCell is never accessed by two threads at once: between the
\* moment a thread may touch it and the moment it hands the slot on, no other
\* thread may.
ExclusiveSlot ==
  \A s \in Slots : \A t, u \in Threads : Owns(t, s) /\ Owns(u, s) => t = u

\* The item with sequence number s: in its slot, or still with its producer.
ItemAt(s) ==
  IF slot_sequence[Idx(s)] = s + 1
    THEN slot_data[Idx(s)]
    ELSE LET p == CHOOSE p \in Producers :
                    pc[p] \in {"await", "write", "publish"} /\ lprod[p] = s
         IN  item[p]

\* The ring is a bounded FIFO queue: a push takes effect when it claims its
\* sequence number and a pop when it claims its slot.  No item is lost,
\* duplicated, reordered or handed to two threads, and no more than Capacity
\* wait at once, however pushes, drains and helpers overlap.
Fifo == INSTANCE BoundedFifo WITH
  queue   <- [i \in 1 .. producer_sequence - consumer_sequence |->
                ItemAt(consumer_sequence + i - 1)],
  holding <- [t \in Threads |->
                CASE pc[t] = "take"    -> slot_data[Idx(lcons[t])]
                  [] pc[t] = "release" -> item[t]
                  [] OTHER             -> None]

ImplementsBoundedFifo == Fifo!Spec

LastSequence == SumFunction(MaxPushes)   \* bounds the run, not the code

\* Every item that was pushed is eventually claimed by a drain or a helper:
\* neither an unpublished slot nor a slot snatched by a helper stops the
\* consumer for ever.
EveryItemIsClaimed ==
  \A s \in 0 .. LastSequence :
    producer_sequence > s ~> consumer_sequence > s

\* A producer that has claimed a slot still occupied by the item of one lap
\* earlier is not left spinning: whoever took that item releases the slot.
NoProducerSpinsForEver ==
  \A p \in Producers : pc[p] = "await" ~> pc[p] = "idle"

=============================================================================
