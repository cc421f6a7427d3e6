-------------------------- MODULE RingBufferProofs --------------------------
(***************************************************************************)
(* Proofs about RingBuffer, for every set of threads, every bound on the   *)
(* pushes and every capacity of at least two.  (A ring of one slot cannot  *)
(* tell "published" from "free for the next lap": both read s + 1.)  The   *)
(* last part shows that the ring implements BoundedFifo.                   *)
(***************************************************************************)
EXTENDS RingBuffer, SequenceTheorems, TLAPS

-----------------------------------------------------------------------------
(* Arithmetic of the slot index                                            *)

\* Euclidean division by Capacity.
LEMMA DivMod ==
  ASSUME NEW a \in Nat
  PROVE  /\ a \div Capacity \in Nat
         /\ a % Capacity \in 0 .. Capacity - 1
         /\ a = Capacity * (a \div Capacity) + (a % Capacity)
  <1>1. a \div Capacity \in Nat /\ a % Capacity \in 0 .. Capacity - 1
    BY CapacityAssumption
  <1>2. a = Capacity * (a \div Capacity) + (a % Capacity)
    BY CapacityAssumption
  <1> QED BY <1>1, <1>2

\* Multiples of Capacity are at least Capacity apart.
LEMMA MultiplesApart ==
  ASSUME NEW x \in Int, NEW y \in Int, x < y
  PROVE  Capacity * x + Capacity <= Capacity * y
  <1>1. PICK d \in Nat : y = x + 1 + d
    <2>1. y - x - 1 \in Nat /\ y = x + 1 + (y - x - 1)
      OBVIOUS
    <2> QED BY <2>1
  <1>2. Capacity * y = Capacity * x + Capacity + Capacity * d
    BY <1>1, CapacityAssumption
  <1>3. Capacity * d >= 0
    BY CapacityAssumption
  <1> QED BY <1>2, <1>3, CapacityAssumption

\* No two multiples of Capacity lie strictly within one lap.
LEMMA NoMultipleWithinLap ==
  ASSUME NEW x \in Int, NEW y \in Int,
         Capacity * x < Capacity * y, Capacity * y < Capacity * x + Capacity
  PROVE  FALSE
  <1>1. Capacity * x \in Int /\ Capacity * y \in Int
    BY CapacityAssumption
  <1>2. CASE x < y
    BY <1>1, <1>2, MultiplesApart, CapacityAssumption
  <1>3. CASE y < x
    <2>1. Capacity * y + Capacity <= Capacity * x
      BY <1>3, MultiplesApart
    <2> QED BY <1>1, <2>1, CapacityAssumption
  <1>4. CASE x = y
    BY <1>1, <1>4
  <1> QED BY <1>2, <1>3, <1>4

\* Quotient and remainder are unique.
LEMMA DivModUnique ==
  ASSUME NEW x \in Int, NEW r \in 0 .. Capacity - 1,
         NEW y \in Int, NEW s \in 0 .. Capacity - 1,
         Capacity * x + r = Capacity * y + s
  PROVE  r = s
  <1>1. CASE x < y
    BY <1>1, MultiplesApart, CapacityAssumption
  <1>2. CASE y < x
    BY <1>2, MultiplesApart, CapacityAssumption
  <1>3. CASE x = y
    BY <1>3, CapacityAssumption
  <1> QED BY <1>1, <1>2, <1>3

\* A sequence number indexes a slot of the ring.
LEMMA IdxInSlots == \A s \in Nat : Idx(s) \in Slots
  BY DivMod DEF Idx, Slots

\* A lap later the same slot comes round again.
LEMMA IdxNextLap == \A s \in Nat : Idx(s + Capacity) = Idx(s)
  <1> SUFFICES ASSUME NEW s \in Nat PROVE (s + Capacity) % Capacity = s % Capacity
    BY DEF Idx
  <1> DEFINE q == s \div Capacity
             r == s % Capacity
             qq == (s + Capacity) \div Capacity
             rr == (s + Capacity) % Capacity
  <1>1. s + Capacity \in Nat
    BY CapacityAssumption
  <1>2. q \in Nat /\ r \in 0 .. Capacity - 1 /\ s = Capacity * q + r
    BY DivMod
  <1>3. qq \in Nat /\ rr \in 0 .. Capacity - 1 /\ s + Capacity = Capacity * qq + rr
    BY <1>1, DivMod
  <1> HIDE DEF q, r, qq, rr
  <1>4. Capacity * (q + 1) = Capacity * q + Capacity
    BY <1>2, CapacityAssumption
  <1>5. Capacity * (q + 1) + r = Capacity * qq + rr
    BY <1>2, <1>3, <1>4, CapacityAssumption
  <1>6. r = rr
    BY <1>2, <1>3, <1>5, DivModUnique
  <1> QED BY <1>6 DEF r, rr

\* Within one lap, different sequence numbers have different slots.
LEMMA IdxInjective ==
  ASSUME NEW lo \in Nat, NEW a \in Nat, NEW b \in Nat,
         lo <= a, a < lo + Capacity, lo <= b, b < lo + Capacity,
         Idx(a) = Idx(b)
  PROVE  a = b
  <1> DEFINE q == a \div Capacity
             p == b \div Capacity
             r == a % Capacity
             s == b % Capacity
  <1>1. q \in Nat /\ r \in 0 .. Capacity - 1 /\ a = Capacity * q + r
    BY DivMod
  <1>2. p \in Nat /\ s \in 0 .. Capacity - 1 /\ b = Capacity * p + s
    BY DivMod
  <1>3. r = s
    BY DEF Idx
  <1> HIDE DEF q, p, r, s
  <1>4. Capacity * q \in Int /\ Capacity * p \in Int
    BY <1>1, <1>2, CapacityAssumption
  <1>5. CASE a < b
    <2>1. Capacity * q < Capacity * p /\ Capacity * p < Capacity * q + Capacity
      BY <1>1, <1>2, <1>3, <1>4, <1>5, CapacityAssumption
    <2> QED BY <1>1, <1>2, <2>1, NoMultipleWithinLap
  <1>6. CASE b < a
    <2>1. Capacity * p < Capacity * q /\ Capacity * q < Capacity * p + Capacity
      BY <1>1, <1>2, <1>3, <1>4, <1>6, CapacityAssumption
    <2> QED BY <1>1, <1>2, <2>1, NoMultipleWithinLap
  <1> QED BY <1>5, <1>6

-----------------------------------------------------------------------------
(* The inductive invariant                                                 *)

Writer(t) == pc[t] \in {"await", "write", "publish"}
Taker(t)  == pc[t] \in {"take", "release"}

\* The consumer never passes the producers, who are at most a lap ahead.
CursorOrder ==
  /\ consumer_sequence <= producer_sequence
  /\ producer_sequence <= consumer_sequence + Capacity

\* What a thread remembers of the cursors is never ahead of them, and what it
\* has seen published stays published until somebody claims it.
Remembers(t) ==
  /\ pc[t] = "load_second" => lcons[t] <= consumer_sequence
  /\ pc[t] \in {"decide", "recheck", "claim"} =>
       /\ lcons[t] <= consumer_sequence
       /\ lcons[t] <= lprod[t]
       /\ lprod[t] <= producer_sequence
  /\ pc[t] \in {"recheck", "claim"} => lcons[t] < lprod[t]
  /\ pc[t] = "claim" /\ lcons[t] = consumer_sequence
       => slot_sequence[Idx(lcons[t])] = lcons[t] + 1

LocalCursors == \A t \in Threads : Remembers(t)

\* A producer that has claimed a sequence number is the only one that has, the
\* number is still waiting to be consumed, and its slot is not yet published.
WriterInv ==
  \A t \in Threads : Writer(t) =>
    /\ consumer_sequence <= lprod[t]
    /\ lprod[t] < producer_sequence
    /\ slot_sequence[Idx(lprod[t])] # lprod[t] + 1
    /\ pc[t] # "await" => slot_sequence[Idx(lprod[t])] = lprod[t]
    /\ \A u \in Threads : Writer(u) /\ lprod[u] = lprod[t] => u = t

\* A thread that has claimed an item is the only one that has, is less than
\* a lap behind, and its slot stays marked as published until it releases it.
TakerInv ==
  \A t \in Threads : Taker(t) =>
    /\ lcons[t] < consumer_sequence
    /\ consumer_sequence <= lcons[t] + Capacity
    /\ slot_sequence[Idx(lcons[t])] = lcons[t] + 1
    /\ \A u \in Threads : Taker(u) /\ lcons[u] = lcons[t] => u = t

\* No sequence number is published before it is claimed.
FreeUnpublished ==
  \A s \in Nat :
    producer_sequence <= s /\ s < consumer_sequence + Capacity
      => slot_sequence[Idx(s)] # s + 1

IInv == /\ TypeOK
        /\ CursorOrder
        /\ LocalCursors
        /\ WriterInv
        /\ TakerInv
        /\ FreeUnpublished

-----------------------------------------------------------------------------
(* Type correctness                                                        *)

\* A call of try_push keeps the items within their type.
LEMMA CallTryPushTyped ==
  ASSUME TypeOK, NEW p \in Producers, CallTryPush(p)
  PROVE  TypeOK'
  <1>1. pushes[p] \in Nat /\ MaxPushes[p] \in Nat /\ p \in Threads
    BY BoundAssumption DEF TypeOK, Threads
  <1>2. pushes[p] + 1 \in 1 .. MaxPushes[p]
    BY <1>1 DEF CallTryPush
  <1>3. <<p, pushes[p] + 1>> \in Items
    BY <1>2 DEF Items
  <1>4. item' \in [Threads -> Items \cup {None}]
    BY <1>1, <1>3 DEF CallTryPush, TypeOK
  <1>5. pushes' \in [Producers -> Nat] /\ \A q \in Producers : pushes'[q] <= MaxPushes[q]
    BY <1>1 DEF CallTryPush, TypeOK
  <1>6. pc' \in [Threads -> Labels] /\ op' \in [Threads -> Ops]
    BY DEF CallTryPush, Call, Goto, TypeOK, Labels, Ops
  <1> QED
    BY <1>4, <1>5, <1>6 DEF CallTryPush, Call, shared, TypeOK

\* Every step of a thread inside a call preserves the types.
LEMMA StepTyped ==
  ASSUME TypeOK, NEW t \in Threads, Step(t)
  PROVE  TypeOK'
  <1> USE DEF TypeOK, Labels, Ops, Goto, Return, Retry, shared
  <1>1. lcons[t] \in Nat /\ lprod[t] \in Nat
    OBVIOUS
  <1>2. Idx(lcons[t]) \in Slots /\ Idx(lprod[t]) \in Slots
    BY <1>1, IdxInSlots
  <1>3. Capacity \in Nat
    BY CapacityAssumption
  <1>4. CASE LoadCursors(t)
    BY <1>4 DEF LoadCursors, LoadConsumer, LoadProducer
  <1>5. CASE ReturnLen(t) \/ PushFull(t) \/ DrainEmpty(t) \/ HelpUnpublished(t)
    BY <1>5 DEF ReturnLen, PushFull, DrainEmpty, HelpUnpublished
  <1>6. CASE ClaimSlot(t)
    BY <1>1, <1>6 DEF ClaimSlot
  <1>7. CASE ClaimSlotFails(t)
    BY <1>7 DEF ClaimSlotFails
  <1>8. CASE AwaitSlot(t)
    BY <1>8 DEF AwaitSlot
  <1>9. CASE WriteSlot(t)
    BY <1>2, <1>9 DEF WriteSlot
  <1>10. CASE PublishSlot(t)
    BY <1>1, <1>2, <1>10 DEF PublishSlot
  <1>11. CASE SeePublished(t) \/ DrainUnpublished(t)
    BY <1>11 DEF SeePublished, DrainUnpublished
  <1>12. CASE Recheck(t)
    BY <1>12 DEF Recheck
  <1>13. CASE ClaimItem(t)
    BY <1>1, <1>13 DEF ClaimItem
  <1>14. CASE ClaimItemFails(t)
    BY <1>14 DEF ClaimItemFails
  <1>15. CASE TakeItem(t)
    BY <1>2, <1>15 DEF TakeItem
  <1>16. CASE ReleaseSlot(t)
    BY <1>1, <1>2, <1>3, <1>16 DEF ReleaseSlot, NextSlotOrReturn
  <1> QED
    BY <1>4, <1>5, <1>6, <1>7, <1>8, <1>9, <1>10, <1>11, <1>12, <1>13, <1>14,
       <1>15, <1>16 DEF Step

\* The variables always have the types that TypeOK gives them.
THEOREM TypeCorrect == Spec => []TypeOK
  <1>1. Init => TypeOK
    BY CapacityAssumption, BoundAssumption
    DEF Init, TypeOK, Slots, Labels, Ops, Threads
  <1>2. TypeOK /\ [Next]_vars => TypeOK'
    <2> SUFFICES ASSUME TypeOK, [Next]_vars PROVE TypeOK'
      OBVIOUS
    <2>1. CASE \E p \in Producers : CallTryPush(p)
      BY <2>1, CallTryPushTyped
    <2>2. CASE \E p \in Helpers : CallDrainHelping(p) \/ CallLen(p)
      BY <2>2 DEF CallDrainHelping, CallLen, Call, Goto, shared, TypeOK, Labels, Ops
    <2>3. CASE \E c \in Consumers : CallDrain(c)
      BY <2>3 DEF CallDrain, Call, Goto, shared, TypeOK, Labels, Ops
    <2>4. CASE \E t \in Threads : Step(t)
      BY <2>4, StepTyped
    <2>5. CASE UNCHANGED vars
      BY <2>5 DEF vars, TypeOK
    <2> QED
      BY <2>1, <2>2, <2>3, <2>4, <2>5 DEF Next
  <1> QED
    BY <1>1, <1>2, PTL DEF Spec

-----------------------------------------------------------------------------
(* Steps that touch nothing shared and neither claim nor hand on a slot    *)

Quiet(t) ==
  /\ UNCHANGED shared
  /\ ~Writer(t) /\ ~Taker(t)
  /\ ~Writer(t)' /\ ~Taker(t)'
  /\ \A u \in Threads \ {t} :
       pc'[u] = pc[u] /\ lcons'[u] = lcons[u] /\ lprod'[u] = lprod[u]

\* A step that leaves the ring alone, of a thread that neither before nor after
\* it may write a slot or holds a claimed item, preserves IInv.
LEMMA QuietStep ==
  ASSUME IInv, TypeOK', NEW t \in Threads, Quiet(t), Remembers(t)'
  PROVE  IInv'
  <1> USE DEF IInv, Quiet, shared
  <1>1. CursorOrder'
    BY DEF CursorOrder
  <1>2. LocalCursors'
    BY DEF LocalCursors, Remembers
  <1>3. WriterInv'
    BY DEF WriterInv, Writer
  <1>4. TakerInv'
    BY DEF TakerInv, Taker
  <1>5. FreeUnpublished'
    BY DEF FreeUnpublished
  <1> QED BY <1>1, <1>2, <1>3, <1>4, <1>5

\* Beginning a call preserves IInv.
LEMMA CallStep ==
  ASSUME IInv, TypeOK', NEW t \in Threads, NEW o, Call(t, o)
  PROVE  IInv'
  <1>1. Quiet(t)
    BY DEF Call, Goto, Quiet, Writer, Taker, IInv, TypeOK, shared
  <1>2. Remembers(t)'
    BY DEF Call, Goto, Remembers, IInv, TypeOK
  <1> QED BY <1>1, <1>2, QuietStep

\* So do loading a cursor, giving up, retrying, looking at a slot and
\* returning without an item.
LEMMA QuietActions ==
  ASSUME IInv, TypeOK', NEW t \in Threads,
         \/ LoadCursors(t) \/ ReturnLen(t) \/ PushFull(t) \/ ClaimSlotFails(t)
         \/ DrainEmpty(t) \/ SeePublished(t) \/ HelpUnpublished(t)
         \/ DrainUnpublished(t) \/ Recheck(t) \/ ClaimItemFails(t)
  PROVE  IInv'
  <1> USE DEF Goto, Return, Retry, IInv, TypeOK
  <1>0. Remembers(t) /\ CursorOrder
    BY DEF LocalCursors
  <1>1. CASE LoadCursors(t)
    <2>1. Quiet(t)
      BY <1>1 DEF LoadCursors, LoadConsumer, LoadProducer, Quiet, Writer, Taker, shared
    <2>2. Remembers(t)'
      BY <1>0, <1>1
      DEF LoadCursors, LoadConsumer, LoadProducer, Remembers, CursorOrder, shared
    <2> QED BY <2>1, <2>2, QuietStep
  <1>2. CASE ReturnLen(t) \/ PushFull(t) \/ DrainEmpty(t) \/ HelpUnpublished(t)
    <2>1. Quiet(t)
      BY <1>2 DEF ReturnLen, PushFull, DrainEmpty, HelpUnpublished,
                  Quiet, Writer, Taker, shared
    <2>2. Remembers(t)'
      BY <1>2 DEF ReturnLen, PushFull, DrainEmpty, HelpUnpublished, Remembers
    <2> QED BY <2>1, <2>2, QuietStep
  <1>3. CASE ClaimSlotFails(t)
    <2>1. Quiet(t)
      BY <1>3 DEF ClaimSlotFails, Quiet, Writer, Taker, shared
    <2>2. Remembers(t)'
      BY <1>3 DEF ClaimSlotFails, Remembers
    <2> QED BY <2>1, <2>2, QuietStep
  <1>4. CASE SeePublished(t) \/ DrainUnpublished(t)
    <2>1. Quiet(t)
      BY <1>4 DEF SeePublished, DrainUnpublished, Quiet, Writer, Taker, shared
    <2>2. Remembers(t)'
      BY <1>0, <1>4
      DEF SeePublished, DrainUnpublished, Published, Remembers, CursorOrder, shared
    <2> QED BY <2>1, <2>2, QuietStep
  <1>5. CASE Recheck(t)
    <2>1. Quiet(t)
      BY <1>5 DEF Recheck, Quiet, Writer, Taker, shared
    <2>2. Remembers(t)'
      BY <1>0, <1>5 DEF Recheck, Remembers, shared
    <2> QED BY <2>1, <2>2, QuietStep
  <1>6. CASE ClaimItemFails(t)
    <2>1. Quiet(t)
      BY <1>6 DEF ClaimItemFails, Quiet, Writer, Taker, shared
    <2>2. Remembers(t)'
      BY <1>6 DEF ClaimItemFails, Remembers
    <2> QED BY <2>1, <2>2, QuietStep
  <1> QED BY <1>1, <1>2, <1>3, <1>4, <1>5, <1>6

-----------------------------------------------------------------------------
(* Steps that claim, fill, empty or hand on a slot                         *)

\* The slots of the sequence numbers between the consumer and the end of the
\* lap are all different.
LEMMA SameSlotSameSequence ==
  ASSUME IInv, NEW a \in Nat, NEW b \in Nat, Idx(a) = Idx(b),
         consumer_sequence <= a, a < consumer_sequence + Capacity,
         consumer_sequence <= b, b < consumer_sequence + Capacity
  PROVE  a = b
  <1>1. consumer_sequence \in Nat
    BY DEF IInv, TypeOK
  <1> QED BY <1>1, IdxInjective

\* With two slots or more, a producer that may write a slot and a thread that
\* has claimed an item are never at the same slot.
LEMMA WriterIsNotAtTakersSlot ==
  ASSUME Capacity > 1, IInv, NEW t \in Threads, Writer(t), pc[t] # "await",
         NEW u \in Threads, Taker(u)
  PROVE  Idx(lprod[t]) # Idx(lcons[u])
  <1> SUFFICES ASSUME Idx(lprod[t]) = Idx(lcons[u]) PROVE FALSE
    OBVIOUS
  <1>1. lprod[t] \in Nat /\ lcons[u] \in Nat /\ Capacity \in Nat
    BY CapacityAssumption DEF IInv, TypeOK
  <1>2. lprod[t] = lcons[u] + 1
    BY DEF IInv, WriterInv, TakerInv
  <1> QED BY <1>1, <1>2, IdxInjective

\* A producer that wins the compare-exchange on producer_sequence preserves
\* IInv: the slot it now waits for belongs to no other sequence number.
LEMMA ClaimSlotStep ==
  ASSUME IInv, TypeOK', NEW t \in Threads, ClaimSlot(t)
  PROVE  IInv'
  <1> USE DEF ClaimSlot, Goto
  <1>1. Remembers(t) /\ pc[t] = "decide"
    BY DEF IInv, LocalCursors
  <1>2. /\ lcons[t] \in Nat /\ lprod[t] \in Nat /\ Capacity \in Nat
        /\ consumer_sequence \in Nat /\ producer_sequence \in Nat
    BY CapacityAssumption DEF IInv, TypeOK
  <1>3. lprod[t] = producer_sequence /\ producer_sequence < consumer_sequence + Capacity
    BY <1>1, <1>2 DEF Remembers
  <1>4. CursorOrder'
    BY <1>2, <1>3 DEF CursorOrder, IInv
  <1>5. LocalCursors'
    BY <1>1, <1>2 DEF LocalCursors, Remembers, IInv, TypeOK
  <1>6. WriterInv'
    <2> SUFFICES ASSUME NEW u \in Threads, Writer(u)'
                 PROVE  /\ consumer_sequence' <= lprod'[u]
                        /\ lprod'[u] < producer_sequence'
                        /\ slot_sequence'[Idx(lprod'[u])] # lprod'[u] + 1
                        /\ pc'[u] # "await" => slot_sequence'[Idx(lprod'[u])] = lprod'[u]
                        /\ \A v \in Threads : Writer(v)' /\ lprod'[v] = lprod'[u] => v = u
      BY DEF WriterInv
    <2>1. CASE u = t
      <3>1. slot_sequence[Idx(producer_sequence)] # producer_sequence + 1
        BY <1>2, <1>3 DEF IInv, FreeUnpublished
      <3>2. \A v \in Threads \ {t} : Writer(v)' => lprod[v] < producer_sequence
        BY DEF Writer, WriterInv, IInv, TypeOK
      <3> QED BY <1>2, <1>3, <2>1, <3>1, <3>2 DEF IInv, CursorOrder, TypeOK
    <2>2. CASE u # t
      <3>1. Writer(u) /\ pc'[u] = pc[u]
        BY <2>2 DEF Writer, IInv, TypeOK
      <3>2. lprod[u] < producer_sequence
        BY <3>1 DEF IInv, WriterInv
      <3>3. \A v \in Threads : Writer(v)' /\ lprod[v] = lprod[u] => v = u
        <4> SUFFICES ASSUME NEW v \in Threads, Writer(v)', lprod[v] = lprod[u]
                     PROVE  v = u
          OBVIOUS
        <4>1. v # t
          BY <1>2, <1>3, <3>2
        <4>2. Writer(v)
          BY <4>1 DEF Writer, IInv, TypeOK
        <4> QED BY <3>1, <4>2 DEF IInv, WriterInv
      <3>4. lprod[u] \in Nat
        BY DEF IInv, TypeOK
      <3> QED BY <1>2, <1>3, <3>1, <3>2, <3>3, <3>4 DEF IInv, WriterInv
    <2> QED BY <2>1, <2>2
  <1>7. TakerInv'
    BY DEF TakerInv, Taker, IInv, TypeOK
  <1>8. FreeUnpublished'
    BY <1>2, <1>3 DEF FreeUnpublished, IInv
  <1> QED BY <1>4, <1>5, <1>6, <1>7, <1>8 DEF IInv

\* Waiting for the slot and writing it preserve IInv.
LEMMA AwaitOrWriteStep ==
  ASSUME IInv, TypeOK', NEW t \in Threads, AwaitSlot(t) \/ WriteSlot(t)
  PROVE  IInv'
  <1> USE DEF AwaitSlot, WriteSlot, Goto, shared, IInv, TypeOK
  <1>1. CursorOrder' /\ FreeUnpublished'
    BY DEF CursorOrder, FreeUnpublished
  <1>2. LocalCursors'
    BY DEF LocalCursors, Remembers
  <1>3. WriterInv'
    BY DEF WriterInv, Writer
  <1>4. TakerInv'
    BY DEF TakerInv, Taker
  <1> QED BY <1>1, <1>2, <1>3, <1>4

\* Taking the item out of a claimed slot preserves IInv.
LEMMA TakeItemStep ==
  ASSUME IInv, TypeOK', NEW t \in Threads, TakeItem(t)
  PROVE  IInv'
  <1> USE DEF TakeItem, Goto, IInv, TypeOK
  <1>1. CursorOrder' /\ FreeUnpublished'
    BY DEF CursorOrder, FreeUnpublished
  <1>2. LocalCursors'
    BY DEF LocalCursors, Remembers
  <1>3. WriterInv'
    BY DEF WriterInv, Writer
  <1>4. TakerInv'
    BY DEF TakerInv, Taker
  <1> QED BY <1>1, <1>2, <1>3, <1>4

\* Publishing a slot preserves IInv: nobody else was writing it.
LEMMA PublishSlotStep ==
  ASSUME Capacity > 1, IInv, TypeOK', NEW t \in Threads, PublishSlot(t)
  PROVE  IInv'
  <1> USE DEF PublishSlot, Return, Goto
  <1> DEFINE s == lprod[t]
             i == Idx(s)
  <1>1. /\ s \in Nat /\ i \in Slots /\ Capacity \in Nat
        /\ consumer_sequence \in Nat /\ producer_sequence \in Nat
    BY IdxInSlots, CapacityAssumption DEF IInv, TypeOK
  <1>2. /\ Writer(t) /\ pc[t] = "publish"
        /\ consumer_sequence <= s /\ s < producer_sequence
        /\ s < consumer_sequence + Capacity
        /\ slot_sequence[i] = s
    BY <1>1 DEF Writer, IInv, WriterInv, CursorOrder
  <1>3. /\ slot_sequence'[i] = s + 1
        /\ \A j \in Slots \ {i} : slot_sequence'[j] = slot_sequence[j]
    BY <1>1 DEF IInv, TypeOK
  <1>4. /\ ~Writer(t)' /\ ~Taker(t)' /\ pc'[t] = "idle"
        /\ \A u \in Threads \ {t} :
             pc'[u] = pc[u] /\ lcons'[u] = lcons[u] /\ lprod'[u] = lprod[u]
    BY DEF Writer, Taker, IInv, TypeOK
  <1>5. \A a \in Nat : /\ consumer_sequence <= a /\ a < consumer_sequence + Capacity
                       /\ a # s
                       => Idx(a) # i /\ Idx(a) \in Slots
    BY <1>1, <1>2, SameSlotSameSequence, IdxInSlots
  <1> HIDE DEF s, i
  <1>6. CursorOrder'
    BY DEF CursorOrder, IInv
  <1>7. LocalCursors'
    <2> SUFFICES ASSUME NEW u \in Threads PROVE Remembers(u)'
      BY DEF LocalCursors
    <2>1. CASE u = t
      BY <1>4, <2>1 DEF Remembers
    <2>2. CASE u # t
      <3>1. Remembers(u) /\ lcons[u] \in Nat
        BY DEF IInv, LocalCursors, TypeOK
      <3>2. ASSUME pc[u] = "claim", lcons[u] = consumer_sequence
            PROVE  slot_sequence'[Idx(lcons[u])] = lcons[u] + 1
        <4>1. slot_sequence[Idx(lcons[u])] = lcons[u] + 1
          BY <3>1, <3>2 DEF Remembers
        <4>2. lcons[u] # s
          BY <1>1, <1>2, <4>1 DEF i
        <4> QED BY <1>1, <1>3, <1>5, <3>1, <3>2, <4>1, <4>2
      <3> QED BY <1>4, <2>2, <3>1, <3>2 DEF Remembers
    <2> QED BY <2>1, <2>2
  <1>8. WriterInv'
    <2> SUFFICES ASSUME NEW u \in Threads, Writer(u)'
                 PROVE  /\ consumer_sequence' <= lprod'[u]
                        /\ lprod'[u] < producer_sequence'
                        /\ slot_sequence'[Idx(lprod'[u])] # lprod'[u] + 1
                        /\ pc'[u] # "await" => slot_sequence'[Idx(lprod'[u])] = lprod'[u]
                        /\ \A v \in Threads : Writer(v)' /\ lprod'[v] = lprod'[u] => v = u
      BY DEF WriterInv
    <2>1. u # t /\ Writer(u) /\ pc'[u] = pc[u] /\ lprod'[u] = lprod[u] /\ lprod[u] \in Nat
      BY <1>4 DEF Writer, IInv, TypeOK
    <2>2. /\ consumer_sequence <= lprod[u] /\ lprod[u] < producer_sequence
          /\ lprod[u] # s /\ lprod[u] < consumer_sequence + Capacity
      BY <1>1, <1>2, <2>1 DEF IInv, WriterInv, CursorOrder, s
    <2>3. slot_sequence'[Idx(lprod[u])] = slot_sequence[Idx(lprod[u])]
      BY <1>3, <1>5, <2>1, <2>2
    <2>4. \A v \in Threads : Writer(v)' /\ lprod'[v] = lprod[u] => v = u
      BY <1>4, <2>1 DEF Writer, IInv, WriterInv
    <2> QED BY <2>1, <2>2, <2>3, <2>4 DEF IInv, WriterInv
  <1>9. TakerInv'
    <2> SUFFICES ASSUME NEW u \in Threads, Taker(u)'
                 PROVE  /\ lcons'[u] < consumer_sequence'
                        /\ consumer_sequence' <= lcons'[u] + Capacity
                        /\ slot_sequence'[Idx(lcons'[u])] = lcons'[u] + 1
                        /\ \A v \in Threads : Taker(v)' /\ lcons'[v] = lcons'[u] => v = u
      BY DEF TakerInv
    <2>1. u # t /\ Taker(u) /\ lcons'[u] = lcons[u] /\ lcons[u] \in Nat
      BY <1>4 DEF Taker, IInv, TypeOK
    <2>2. Idx(lcons[u]) # i /\ Idx(lcons[u]) \in Slots
      BY <1>2, <2>1, WriterIsNotAtTakersSlot, IdxInSlots DEF s, i
    <2>3. \A v \in Threads : Taker(v)' /\ lcons'[v] = lcons[u] => v = u
      BY <1>4, <2>1 DEF Taker, IInv, TakerInv
    <2> QED BY <1>3, <2>1, <2>2, <2>3 DEF IInv, TakerInv
  <1>10. FreeUnpublished'
    <2> SUFFICES ASSUME NEW a \in Nat, producer_sequence <= a,
                        a < consumer_sequence + Capacity
                 PROVE  slot_sequence'[Idx(a)] # a + 1
      BY DEF FreeUnpublished
    <2>1. a # s /\ consumer_sequence <= a
      BY <1>1, <1>2 DEF IInv, CursorOrder
    <2> QED BY <1>3, <1>5, <2>1 DEF IInv, FreeUnpublished
  <1> QED BY <1>6, <1>7, <1>8, <1>9, <1>10 DEF IInv

\* A drain that wins the compare-exchange on consumer_sequence preserves
\* IInv: the item it claims is published and nobody else has claimed it.
LEMMA ClaimItemStep ==
  ASSUME IInv, TypeOK', NEW t \in Threads, ClaimItem(t)
  PROVE  IInv'
  <1> USE DEF ClaimItem, Goto
  <1>1. /\ lcons[t] = consumer_sequence /\ Capacity \in Nat \ {0}
        /\ consumer_sequence \in Nat /\ producer_sequence \in Nat
        /\ consumer_sequence < producer_sequence
        /\ slot_sequence[Idx(consumer_sequence)] = consumer_sequence + 1
        /\ lprod[t] \in Nat
    BY CapacityAssumption DEF IInv, TypeOK, LocalCursors, Remembers
  <1>2. /\ pc'[t] = "take" /\ Taker(t)' /\ ~Writer(t)' /\ ~Taker(t)
        /\ consumer_sequence' = consumer_sequence + 1
        /\ \A u \in Threads \ {t} : pc'[u] = pc[u]
    BY <1>1 DEF Taker, Writer, IInv, TypeOK
  <1>3. CursorOrder'
    BY <1>1, <1>2 DEF CursorOrder, IInv
  <1>4. LocalCursors'
    BY <1>1, <1>2 DEF LocalCursors, Remembers, IInv, TypeOK
  <1>5. WriterInv'
    <2> SUFFICES ASSUME NEW u \in Threads, Writer(u)'
                 PROVE  /\ consumer_sequence' <= lprod[u]
                        /\ lprod[u] < producer_sequence
                        /\ slot_sequence[Idx(lprod[u])] # lprod[u] + 1
                        /\ pc'[u] # "await" => slot_sequence[Idx(lprod[u])] = lprod[u]
                        /\ \A v \in Threads : Writer(v)' /\ lprod[v] = lprod[u] => v = u
      BY DEF WriterInv
    <2>1. u # t /\ Writer(u) /\ pc'[u] = pc[u] /\ lprod[u] \in Nat
      BY <1>2 DEF Writer, IInv, TypeOK
    <2>2. lprod[u] # consumer_sequence
      BY <1>1, <2>1 DEF IInv, WriterInv
    <2>3. \A v \in Threads : Writer(v)' => Writer(v)
      BY <1>2 DEF Writer
    <2> QED BY <1>1, <1>2, <2>1, <2>2, <2>3 DEF IInv, WriterInv
  <1>6. TakerInv'
    <2> SUFFICES ASSUME NEW u \in Threads, Taker(u)'
                 PROVE  /\ lcons[u] < consumer_sequence'
                        /\ consumer_sequence' <= lcons[u] + Capacity
                        /\ slot_sequence[Idx(lcons[u])] = lcons[u] + 1
                        /\ \A v \in Threads : Taker(v)' /\ lcons[v] = lcons[u] => v = u
      BY DEF TakerInv
    <2>1. CASE u = t
      <3>1. \A v \in Threads \ {t} : Taker(v)' => lcons[v] < consumer_sequence
        BY <1>2 DEF Taker, IInv, TakerInv
      <3> QED BY <1>1, <1>2, <2>1, <3>1
    <2>2. CASE u # t
      <3>1. Taker(u) /\ lcons[u] \in Nat
        BY <1>2, <2>2 DEF Taker, IInv, TypeOK
      <3>2. /\ lcons[u] < consumer_sequence
            /\ consumer_sequence <= lcons[u] + Capacity
            /\ slot_sequence[Idx(lcons[u])] = lcons[u] + 1
        BY <3>1 DEF IInv, TakerInv
      <3>3. consumer_sequence # lcons[u] + Capacity
        BY <1>1, <3>1, <3>2, IdxNextLap
      <3>4. \A v \in Threads : Taker(v)' /\ lcons[v] = lcons[u] => v = u
        <4> SUFFICES ASSUME NEW v \in Threads, Taker(v)', lcons[v] = lcons[u]
                     PROVE  v = u
          OBVIOUS
        <4>1. v # t
          BY <1>1, <3>1, <3>2
        <4>2. Taker(v)
          BY <1>2, <4>1 DEF Taker
        <4> QED BY <3>1, <4>2 DEF IInv, TakerInv
      <3> QED BY <1>1, <1>2, <3>1, <3>2, <3>3, <3>4
    <2> QED BY <2>1, <2>2
  <1>7. FreeUnpublished'
    <2> SUFFICES ASSUME NEW a \in Nat, producer_sequence <= a,
                        a < consumer_sequence + 1 + Capacity
                 PROVE  slot_sequence[Idx(a)] # a + 1
      BY <1>2 DEF FreeUnpublished
    <2>1. CASE a = consumer_sequence + Capacity
      BY <1>1, <2>1, IdxNextLap
    <2>2. CASE a # consumer_sequence + Capacity
      BY <1>1, <2>2 DEF IInv, FreeUnpublished
    <2> QED BY <2>1, <2>2
  <1> QED BY <1>3, <1>4, <1>5, <1>6, <1>7 DEF IInv

\* Releasing a slot preserves IInv: it goes to the producer one lap ahead.
LEMMA ReleaseSlotStep ==
  ASSUME Capacity > 1, IInv, TypeOK', NEW t \in Threads, ReleaseSlot(t)
  PROVE  IInv'
  <1> USE DEF ReleaseSlot, NextSlotOrReturn, Retry, Return, Goto
  <1> DEFINE s == lcons[t]
             i == Idx(s)
  <1>1. /\ s \in Nat /\ i \in Slots /\ Capacity \in Nat \ {0}
        /\ consumer_sequence \in Nat /\ producer_sequence \in Nat
        /\ Idx(s + Capacity) = i
    BY IdxInSlots, IdxNextLap, CapacityAssumption DEF IInv, TypeOK
  <1>2. /\ Taker(t)
        /\ s < consumer_sequence /\ consumer_sequence <= s + Capacity
        /\ slot_sequence[i] = s + 1
    BY <1>1 DEF Taker, IInv, TakerInv
  <1>3. /\ slot_sequence'[i] = s + Capacity
        /\ \A j \in Slots \ {i} : slot_sequence'[j] = slot_sequence[j]
    BY <1>1 DEF IInv, TypeOK
  <1>4. /\ ~Writer(t)' /\ ~Taker(t)' /\ pc'[t] \in {"idle", "load_first"}
        /\ \A u \in Threads \ {t} :
             pc'[u] = pc[u] /\ lcons'[u] = lcons[u] /\ lprod'[u] = lprod[u]
    BY DEF Writer, Taker, IInv, TypeOK
  <1>5. \A a \in Nat : /\ consumer_sequence <= a /\ a < consumer_sequence + Capacity
                       /\ a # s + Capacity
                       => Idx(a) # i /\ Idx(a) \in Slots
    BY <1>1, <1>2, SameSlotSameSequence, IdxInSlots
  <1> HIDE DEF s, i
  <1>6. CursorOrder'
    BY DEF CursorOrder, IInv
  <1>7. LocalCursors'
    <2> SUFFICES ASSUME NEW u \in Threads PROVE Remembers(u)'
      BY DEF LocalCursors
    <2>1. CASE u = t
      BY <1>4, <2>1 DEF Remembers
    <2>2. CASE u # t
      <3>1. Remembers(u) /\ lcons[u] \in Nat
        BY DEF IInv, LocalCursors, TypeOK
      <3>2. ASSUME pc[u] = "claim", lcons[u] = consumer_sequence
            PROVE  slot_sequence'[Idx(lcons[u])] = lcons[u] + 1
        <4>1. slot_sequence[Idx(lcons[u])] = lcons[u] + 1
          BY <3>1, <3>2 DEF Remembers
        <4>2. lcons[u] # s + Capacity
          BY <1>1, <1>2, <4>1 DEF i
        <4> QED BY <1>1, <1>3, <1>5, <3>1, <3>2, <4>1, <4>2
      <3> QED BY <1>4, <2>2, <3>1, <3>2 DEF Remembers
    <2> QED BY <2>1, <2>2
  <1>8. WriterInv'
    <2> SUFFICES ASSUME NEW u \in Threads, Writer(u)'
                 PROVE  /\ consumer_sequence' <= lprod'[u]
                        /\ lprod'[u] < producer_sequence'
                        /\ slot_sequence'[Idx(lprod'[u])] # lprod'[u] + 1
                        /\ pc'[u] # "await" => slot_sequence'[Idx(lprod'[u])] = lprod'[u]
                        /\ \A v \in Threads : Writer(v)' /\ lprod'[v] = lprod'[u] => v = u
      BY DEF WriterInv
    <2>1. u # t /\ Writer(u) /\ pc'[u] = pc[u] /\ lprod'[u] = lprod[u] /\ lprod[u] \in Nat
      BY <1>4 DEF Writer, IInv, TypeOK
    <2>2. /\ consumer_sequence <= lprod[u] /\ lprod[u] < producer_sequence
          /\ lprod[u] < consumer_sequence + Capacity
      BY <1>1, <2>1 DEF IInv, WriterInv, CursorOrder
    <2>3. \A v \in Threads : Writer(v)' /\ lprod'[v] = lprod[u] => v = u
      BY <1>4, <2>1 DEF Writer, IInv, WriterInv
    <2>4. CASE lprod[u] = s + Capacity
      <3>1. slot_sequence'[Idx(lprod[u])] = lprod[u]
        BY <1>1, <1>3, <2>4
      <3> QED BY <2>1, <2>2, <2>3, <3>1
    <2>5. CASE lprod[u] # s + Capacity
      <3>1. slot_sequence'[Idx(lprod[u])] = slot_sequence[Idx(lprod[u])]
        BY <1>3, <1>5, <2>1, <2>2, <2>5
      <3> QED BY <2>1, <2>2, <2>3, <3>1 DEF IInv, WriterInv
    <2> QED BY <2>4, <2>5
  <1>9. TakerInv'
    <2> SUFFICES ASSUME NEW u \in Threads, Taker(u)'
                 PROVE  /\ lcons'[u] < consumer_sequence'
                        /\ consumer_sequence' <= lcons'[u] + Capacity
                        /\ slot_sequence'[Idx(lcons'[u])] = lcons'[u] + 1
                        /\ \A v \in Threads : Taker(v)' /\ lcons'[v] = lcons'[u] => v = u
      BY DEF TakerInv
    <2>1. u # t /\ Taker(u) /\ lcons'[u] = lcons[u] /\ lcons[u] \in Nat
      BY <1>4 DEF Taker, IInv, TypeOK
    <2>2. slot_sequence[Idx(lcons[u])] = lcons[u] + 1 /\ lcons[u] # s
      BY <1>2, <2>1 DEF IInv, TakerInv, s
    <2>3. Idx(lcons[u]) # i /\ Idx(lcons[u]) \in Slots
      BY <1>1, <1>2, <2>1, <2>2, IdxInSlots
    <2>4. \A v \in Threads : Taker(v)' /\ lcons'[v] = lcons[u] => v = u
      BY <1>4, <2>1 DEF Taker, IInv, TakerInv
    <2> QED BY <1>3, <2>1, <2>3, <2>4 DEF IInv, TakerInv
  <1>10. FreeUnpublished'
    <2> SUFFICES ASSUME NEW a \in Nat, producer_sequence <= a,
                        a < consumer_sequence + Capacity
                 PROVE  slot_sequence'[Idx(a)] # a + 1
      BY DEF FreeUnpublished
    <2>1. consumer_sequence <= a
      BY <1>1 DEF IInv, CursorOrder
    <2>2. CASE a = s + Capacity
      BY <1>1, <1>3, <2>2
    <2>3. CASE a # s + Capacity
      BY <1>3, <1>5, <2>1, <2>3 DEF IInv, FreeUnpublished
    <2> QED BY <2>2, <2>3
  <1> QED BY <1>6, <1>7, <1>8, <1>9, <1>10 DEF IInv

-----------------------------------------------------------------------------
(* The theorems                                                            *)

\* IInv holds initially.
LEMMA InitIInv == Init => IInv
  <1> SUFFICES ASSUME Init PROVE IInv
    OBVIOUS
  <1>1. TypeOK
    BY CapacityAssumption, BoundAssumption
    DEF Init, TypeOK, Slots, Labels, Ops, Threads
  <1>2. CursorOrder
    BY CapacityAssumption DEF Init, CursorOrder
  <1>3. LocalCursors /\ WriterInv /\ TakerInv
    BY DEF Init, LocalCursors, Remembers, WriterInv, TakerInv, Writer, Taker
  <1>4. FreeUnpublished
    <2> SUFFICES ASSUME NEW s \in Nat, s < Capacity
                 PROVE  slot_sequence[Idx(s)] # s + 1
      BY CapacityAssumption DEF FreeUnpublished, Init
    <2>1. 0 \in Nat /\ Idx(s) \in Slots /\ Capacity \in Nat
      BY IdxInSlots, CapacityAssumption
    <2>2. slot_sequence[Idx(s)] = Idx(s) /\ Idx(s) \in 0 .. Capacity - 1
      BY <2>1 DEF Init, Slots
    <2>3. s % Capacity = s
      BY CapacityAssumption, DivMod, <2>1
    <2> QED BY <2>2, <2>3 DEF Idx
  <1> QED BY <1>1, <1>2, <1>3, <1>4 DEF IInv

\* Every step preserves IInv.
LEMMA NextIInv == Capacity > 1 /\ IInv /\ TypeOK' /\ [Next]_vars => IInv'
  <1> SUFFICES ASSUME Capacity > 1, IInv, TypeOK', [Next]_vars PROVE IInv'
    OBVIOUS
  <1>1. CASE \E p \in Producers : CallTryPush(p)
    BY <1>1, CallStep DEF CallTryPush, Threads
  <1>2. CASE \E p \in Helpers : CallDrainHelping(p) \/ CallLen(p)
    BY <1>2, CallStep, ThreadsAssumption DEF CallDrainHelping, CallLen, Threads
  <1>3. CASE \E c \in Consumers : CallDrain(c)
    BY <1>3, CallStep DEF CallDrain, Threads
  <1>4. ASSUME NEW t \in Threads, Step(t) PROVE IInv'
    <2>1. CASE ClaimSlot(t)
      BY <2>1, ClaimSlotStep
    <2>2. CASE AwaitSlot(t) \/ WriteSlot(t)
      BY <2>2, AwaitOrWriteStep
    <2>3. CASE PublishSlot(t)
      BY <2>3, PublishSlotStep
    <2>4. CASE ClaimItem(t)
      BY <2>4, ClaimItemStep
    <2>5. CASE TakeItem(t)
      BY <2>5, TakeItemStep
    <2>6. CASE ReleaseSlot(t)
      BY <2>6, ReleaseSlotStep
    <2>7. CASE \/ LoadCursors(t) \/ ReturnLen(t) \/ PushFull(t) \/ ClaimSlotFails(t)
               \/ DrainEmpty(t) \/ SeePublished(t) \/ HelpUnpublished(t)
               \/ DrainUnpublished(t) \/ Recheck(t) \/ ClaimItemFails(t)
      BY <2>7, QuietActions
    <2> QED
      BY <1>4, <2>1, <2>2, <2>3, <2>4, <2>5, <2>6, <2>7 DEF Step
  <1>5. CASE UNCHANGED vars
    <2>1. CursorOrder' /\ FreeUnpublished'
      BY <1>5 DEF vars, IInv, CursorOrder, FreeUnpublished
    <2>2. LocalCursors'
      BY <1>5 DEF vars, IInv, LocalCursors, Remembers
    <2>3. WriterInv'
      BY <1>5 DEF vars, IInv, WriterInv, Writer
    <2>4. TakerInv'
      BY <1>5 DEF vars, IInv, TakerInv, Taker
    <2> QED BY <2>1, <2>2, <2>3, <2>4 DEF IInv
  <1> QED
    BY <1>1, <1>2, <1>3, <1>4, <1>5 DEF Next

\* IInv holds throughout.
THEOREM Invariance == Capacity > 1 => (Spec => []IInv)
  <1> SUFFICES ASSUME Capacity > 1 PROVE Spec => []IInv
    OBVIOUS
  <1>1. IInv /\ TypeOK' /\ [Next]_vars => IInv'
    BY NextIInv
  <1> QED
    BY InitIInv, TypeCorrect, <1>1, PTL DEF Spec

\* try_push and len never compute a negative number of queued items.
THEOREM LenNeverUnderflows == Capacity > 1 => (Spec => []NoUnderflow)
  <1> SUFFICES ASSUME Capacity > 1 PROVE Spec => []NoUnderflow
    OBVIOUS
  <1>1. IInv => NoUnderflow
    BY DEF IInv, LocalCursors, Remembers, NoUnderflow
  <1> QED
    BY Invariance, <1>1, PTL

\* With two slots or more, no slot is ever in the hands of two threads.
THEOREM SlotsAreExclusive == Capacity > 1 => (Spec => []ExclusiveSlot)
  <1> SUFFICES ASSUME Capacity > 1 PROVE Spec => []ExclusiveSlot
    OBVIOUS
  <1>1. IInv => ExclusiveSlot
    <2> SUFFICES ASSUME IInv, NEW s \in Slots, NEW t \in Threads, NEW u \in Threads,
                        Owns(t, s), Owns(u, s)
                 PROVE  t = u
      BY DEF ExclusiveSlot
    <2>1. /\ lprod[t] \in Nat /\ lprod[u] \in Nat /\ lcons[t] \in Nat /\ lcons[u] \in Nat
          /\ consumer_sequence \in Nat /\ producer_sequence \in Nat /\ Capacity \in Nat
      BY CapacityAssumption DEF IInv, TypeOK
    <2>2. CASE /\ pc[t] \in {"write", "publish"} /\ s = Idx(lprod[t])
               /\ pc[u] \in {"write", "publish"} /\ s = Idx(lprod[u])
      <3>1. Writer(t) /\ Writer(u)
        BY <2>2 DEF Writer
      <3>2. /\ consumer_sequence <= lprod[t] /\ lprod[t] < consumer_sequence + Capacity
            /\ consumer_sequence <= lprod[u] /\ lprod[u] < consumer_sequence + Capacity
        BY <2>1, <3>1 DEF IInv, WriterInv, CursorOrder
      <3>3. lprod[t] = lprod[u]
        BY <2>1, <2>2, <3>2, SameSlotSameSequence
      <3> QED BY <3>1, <3>3 DEF IInv, WriterInv
    <2>3. CASE /\ pc[t] \in {"write", "publish"} /\ s = Idx(lprod[t])
               /\ pc[u] \in {"take", "release"} /\ s = Idx(lcons[u])
      BY <2>3, WriterIsNotAtTakersSlot DEF Writer, Taker
    <2>4. CASE /\ pc[t] \in {"take", "release"} /\ s = Idx(lcons[t])
               /\ pc[u] \in {"write", "publish"} /\ s = Idx(lprod[u])
      BY <2>4, WriterIsNotAtTakersSlot DEF Writer, Taker
    <2>5. CASE /\ pc[t] \in {"take", "release"} /\ s = Idx(lcons[t])
               /\ pc[u] \in {"take", "release"} /\ s = Idx(lcons[u])
      <3>1. Taker(t) /\ Taker(u)
        BY <2>5 DEF Taker
      <3>2. slot_sequence[s] = lcons[t] + 1 /\ slot_sequence[s] = lcons[u] + 1
        BY <2>5, <3>1 DEF IInv, TakerInv
      <3>3. lcons[t] = lcons[u]
        BY <2>1, <3>2
      <3> QED BY <3>1, <3>3 DEF IInv, TakerInv
    <2> QED BY <2>2, <2>3, <2>4, <2>5 DEF Owns
  <1> QED
    BY Invariance, <1>1, PTL

-----------------------------------------------------------------------------
(* The ring is a bounded FIFO.  Beyond IInv the mapping needs to know where *)
(* each item is: with the producer that pushes it, in its slot until it is *)
(* taken, or with the thread that took it.                                 *)

Waiting(s)   == consumer_sequence <= s /\ s < producer_sequence
IsPublished(s) == slot_sequence[Idx(s)] = s + 1

HandInv ==
  \A t \in Threads :
    /\ op[t] = "push" => t \in Producers /\ item[t] \in Items
    /\ Writer(t) => op[t] = "push"
    /\ pc[t] \in {"recheck", "claim", "take", "release"} => op[t] \in {"drain", "help"}
    /\ pc[t] = "publish" => slot_data[Idx(lprod[t])] = item[t]
    /\ pc[t] = "take" => slot_data[Idx(lcons[t])] \in Items
    /\ pc[t] = "release" => item[t] \in Items

\* An item that waits is in its published slot, or a producer is about to
\* put it there.
QueueInv ==
  \A s \in Nat : Waiting(s) =>
    \/ IsPublished(s) /\ slot_data[Idx(s)] \in Items
    \/ \E t \in Threads : Writer(t) /\ lprod[t] = s

FifoInv == IInv /\ HandInv /\ QueueInv

\* A step that leaves slots and cursors alone, of a thread that neither before
\* nor after it writes a slot or holds a claimed item.
LEMMA QuietFifo ==
  ASSUME FifoInv, NEW t \in Threads, Quiet(t),
         \A u \in Threads \ {t} : op'[u] = op[u] /\ item'[u] = item[u],
         op'[t] = "push" => t \in Producers /\ item'[t] \in Items,
         pc'[t] \in {"recheck", "claim"} => op'[t] \in {"drain", "help"}
  PROVE  HandInv' /\ QueueInv'
  <1>1. HandInv'
    BY DEF FifoInv, HandInv, Quiet, Writer, Taker, shared
  <1>2. QueueInv'
    BY DEF FifoInv, QueueInv, Waiting, IsPublished, Quiet, Writer, shared
  <1> QED BY <1>1, <1>2

LEMMA CallFifo ==
  ASSUME FifoInv,
         \/ \E p \in Producers : CallTryPush(p)
         \/ \E p \in Helpers : CallDrainHelping(p) \/ CallLen(p)
         \/ \E c \in Consumers : CallDrain(c)
  PROVE  HandInv' /\ QueueInv'
  <1> USE DEF FifoInv, IInv, TypeOK
  <1>1. PICK t \in Threads, o \in {"push", "drain", "help", "len"} :
          /\ Call(t, o)
          /\ \A u \in Threads \ {t} : item'[u] = item[u]
          /\ o = "push" => t \in Producers /\ item'[t] = <<t, pushes[t] + 1>>
                             /\ pushes[t] < MaxPushes[t]
    BY ThreadsAssumption
       DEF CallTryPush, CallDrainHelping, CallLen, CallDrain, Threads
  <1>2. Quiet(t)
    BY <1>1 DEF Call, Goto, Quiet, Writer, Taker, shared
  <1>3. o = "push" => <<t, pushes[t] + 1>> \in Items
    BY <1>1, BoundAssumption DEF Items
  <1>4. /\ op'[t] = o /\ pc'[t] = "load_first"
        /\ \A u \in Threads \ {t} : op'[u] = op[u]
    BY <1>1 DEF Call, Goto
  <1> QED BY <1>1, <1>2, <1>3, <1>4, QuietFifo

LEMMA QuietActionsFifo ==
  ASSUME FifoInv, NEW t \in Threads,
         \/ LoadCursors(t) \/ ReturnLen(t) \/ PushFull(t) \/ ClaimSlotFails(t)
         \/ DrainEmpty(t) \/ SeePublished(t) \/ HelpUnpublished(t)
         \/ DrainUnpublished(t) \/ Recheck(t) \/ ClaimItemFails(t)
  PROVE  /\ Quiet(t)
         /\ \A u \in Threads \ {t} : op'[u] = op[u] /\ item'[u] = item[u]
         /\ HandInv' /\ QueueInv'
  <1> USE DEF Goto, Return, Retry, FifoInv, IInv, TypeOK
  <1>1. Quiet(t)
    BY DEF LoadCursors, LoadConsumer, LoadProducer, ReturnLen, PushFull,
           ClaimSlotFails, DrainEmpty, SeePublished, HelpUnpublished,
           DrainUnpublished, Recheck, ClaimItemFails, Quiet, Writer, Taker, shared
  <1>2. /\ \A u \in Threads \ {t} : op'[u] = op[u] /\ item'[u] = item[u]
        /\ (op'[t] = op[t] /\ item'[t] = item[t]) \/ op'[t] = "none"
        /\ pc'[t] \in {"recheck", "claim"} => op'[t] = op[t] /\ Draining(t)
    BY DEF LoadCursors, LoadConsumer, LoadProducer, ReturnLen, PushFull,
           ClaimSlotFails, DrainEmpty, SeePublished, HelpUnpublished,
           DrainUnpublished, Recheck, ClaimItemFails, Draining
  <1>3. /\ op'[t] = "push" => t \in Producers /\ item'[t] \in Items
        /\ pc'[t] \in {"recheck", "claim"} => op'[t] \in {"drain", "help"}
    BY <1>2 DEF HandInv, Draining
  <1> QED BY <1>1, <1>2, <1>3, QuietFifo

LEMMA ClaimSlotFifo ==
  ASSUME FifoInv, IInv', NEW t \in Threads, ClaimSlot(t)
  PROVE  HandInv' /\ QueueInv'
  <1> USE DEF FifoInv, ClaimSlot, Goto, IInv, TypeOK
  <1>1. HandInv'
    BY DEF HandInv, Writer
  <1>2. QueueInv'
    <2> SUFFICES ASSUME NEW s \in Nat, Waiting(s)'
                 PROVE  \/ IsPublished(s)' /\ slot_data'[Idx(s)] \in Items
                        \/ \E u \in Threads : Writer(u)' /\ lprod'[u] = s
      BY DEF QueueInv
    <2>1. CASE s = lprod[t]
      BY <2>1 DEF Writer
    <2>2. CASE s # lprod[t]
      <3>1. Waiting(s)
        BY <2>2 DEF Waiting
      <3>2. \A u \in Threads : Writer(u) => Writer(u)' /\ lprod'[u] = lprod[u]
        BY DEF Writer
      <3> QED BY <3>1, <3>2 DEF QueueInv, IsPublished
    <2> QED BY <2>1, <2>2
  <1> QED BY <1>1, <1>2

LEMMA AwaitSlotFifo ==
  ASSUME FifoInv, NEW t \in Threads, AwaitSlot(t)
  PROVE  HandInv' /\ QueueInv'
  <1> USE DEF FifoInv, AwaitSlot, Goto, IInv, TypeOK, shared
  <1>1. HandInv'
    BY DEF HandInv, Writer
  <1>2. \A u \in Threads : Writer(u)' <=> Writer(u)
    BY DEF Writer
  <1>3. QueueInv'
    BY <1>2 DEF QueueInv, Waiting, IsPublished
  <1> QED BY <1>1, <1>3

LEMMA WriteSlotFifo ==
  ASSUME Capacity > 1, FifoInv, NEW t \in Threads, WriteSlot(t)
  PROVE  HandInv' /\ QueueInv'
  <1> USE DEF WriteSlot, Goto
  <1> DEFINE k == Idx(lprod[t])
  <1>1. /\ pc[t] = "write" /\ Writer(t) /\ lprod[t] \in Nat /\ k \in Slots
        /\ consumer_sequence \in Nat /\ producer_sequence \in Nat /\ Capacity \in Nat
    BY IdxInSlots, CapacityAssumption DEF FifoInv, IInv, TypeOK, Writer
  <1>2. slot_sequence[k] # lprod[t] + 1 /\ slot_sequence[k] = lprod[t] /\ Waiting(lprod[t])
    BY <1>1 DEF FifoInv, IInv, WriterInv, Waiting
  <1>3. /\ slot_data'[k] = item[t] /\ item' = item
        /\ \A j \in Slots \ {k} : slot_data'[j] = slot_data[j]
    BY <1>1 DEF FifoInv, IInv, TypeOK
  <1> HIDE DEF k
  <1>4. HandInv'
    <2> SUFFICES ASSUME NEW u \in Threads
                 PROVE  /\ op'[u] = "push" => u \in Producers /\ item'[u] \in Items
                        /\ Writer(u)' => op'[u] = "push"
                        /\ pc'[u] \in {"recheck", "claim", "take", "release"}
                             => op'[u] \in {"drain", "help"}
                        /\ pc'[u] = "publish" => slot_data'[Idx(lprod'[u])] = item'[u]
                        /\ pc'[u] = "take" => slot_data'[Idx(lcons'[u])] \in Items
                        /\ pc'[u] = "release" => item'[u] \in Items
      BY DEF HandInv
    <2>1. lprod[u] \in Nat /\ lcons[u] \in Nat /\ Idx(lprod[u]) \in Slots /\ Idx(lcons[u]) \in Slots
      BY IdxInSlots DEF FifoInv, IInv, TypeOK
    <2>2. CASE u = t
      BY <1>1, <1>3, <2>2 DEF FifoInv, IInv, TypeOK, HandInv, Writer, k
    <2>3. CASE u # t
      <3>1. pc'[u] = pc[u]
        BY <1>1, <2>3 DEF FifoInv, IInv, TypeOK
      <3>2. Taker(u) => Idx(lcons[u]) # k
        BY <1>1, WriterIsNotAtTakersSlot DEF FifoInv, k
      <3>3. pc[u] = "publish" => Idx(lprod[u]) # k
        <4> SUFFICES ASSUME pc[u] = "publish", Idx(lprod[u]) = k PROVE FALSE
          OBVIOUS
        <4>1. Writer(u) /\ slot_sequence[k] = lprod[u]
          BY DEF FifoInv, IInv, WriterInv, Writer
        <4> QED BY <1>1, <1>2, <2>3, <4>1 DEF FifoInv, IInv, WriterInv
      <3> QED BY <1>3, <2>1, <3>1, <3>2, <3>3 DEF FifoInv, HandInv, Writer, Taker
    <2> QED BY <2>2, <2>3
  <1>5. QueueInv'
    <2> SUFFICES ASSUME NEW s \in Nat, Waiting(s)
                 PROVE  \/ IsPublished(s) /\ slot_data'[Idx(s)] \in Items
                        \/ \E u \in Threads : Writer(u)' /\ lprod'[u] = s
      BY DEF QueueInv, Waiting, IsPublished
    <2>1. \A u \in Threads : Writer(u) => Writer(u)' /\ lprod'[u] = lprod[u]
      BY <1>1 DEF Writer, FifoInv, IInv, TypeOK
    <2>2. CASE IsPublished(s)
      <3>1. Idx(s) # k
        <4> SUFFICES ASSUME Idx(s) = k PROVE FALSE
          OBVIOUS
        <4>1. s = lprod[t]
          BY <1>1, <1>2, SameSlotSameSequence
             DEF FifoInv, IInv, CursorOrder, Waiting, k
        <4> QED BY <1>2, <2>2, <4>1 DEF IsPublished, k
      <3> QED BY <1>3, <2>1, <2>2, <3>1, IdxInSlots DEF FifoInv, QueueInv
    <2> QED BY <2>1, <2>2 DEF FifoInv, QueueInv
  <1> QED BY <1>4, <1>5

LEMMA PublishSlotFifo ==
  ASSUME Capacity > 1, FifoInv, NEW t \in Threads, PublishSlot(t)
  PROVE  HandInv' /\ QueueInv'
  <1> USE DEF PublishSlot, Return, Goto
  <1> DEFINE k == Idx(lprod[t])
  <1>1. /\ pc[t] = "publish" /\ Writer(t) /\ lprod[t] \in Nat /\ k \in Slots
        /\ consumer_sequence \in Nat /\ producer_sequence \in Nat /\ Capacity \in Nat
    BY IdxInSlots, CapacityAssumption DEF FifoInv, IInv, TypeOK, Writer
  <1>2. Waiting(lprod[t]) /\ slot_data[k] = item[t] /\ item[t] \in Items
    BY <1>1 DEF FifoInv, IInv, WriterInv, Waiting, HandInv
  <1>3. /\ slot_sequence'[k] = lprod[t] + 1 /\ slot_data' = slot_data
        /\ \A j \in Slots \ {k} : slot_sequence'[j] = slot_sequence[j]
    BY <1>1 DEF FifoInv, IInv, TypeOK
  <1>4. /\ pc'[t] = "idle" /\ op'[t] = "none"
        /\ \A u \in Threads \ {t} :
             /\ pc'[u] = pc[u] /\ op'[u] = op[u] /\ item'[u] = item[u]
             /\ lprod'[u] = lprod[u] /\ lcons'[u] = lcons[u]
    BY DEF FifoInv, IInv, TypeOK
  <1>5. HandInv'
    BY <1>3, <1>4 DEF FifoInv, HandInv, Writer
  <1> HIDE DEF k
  <1>6. QueueInv'
    <2> SUFFICES ASSUME NEW s \in Nat, Waiting(s)
                 PROVE  \/ IsPublished(s)' /\ slot_data[Idx(s)] \in Items
                        \/ \E u \in Threads : Writer(u)' /\ lprod'[u] = s
      BY <1>3 DEF QueueInv, Waiting
    <2>1. CASE s = lprod[t]
      BY <1>2, <1>3, <2>1 DEF IsPublished, k
    <2>2. CASE s # lprod[t]
      <3>1. Idx(s) # k
        BY <1>1, <1>2, <2>2, SameSlotSameSequence
           DEF FifoInv, IInv, CursorOrder, Waiting, k
      <3>2. IsPublished(s) => IsPublished(s)'
        BY <1>3, <3>1, IdxInSlots DEF IsPublished
      <3>3. \A u \in Threads : Writer(u) /\ lprod[u] = s => Writer(u)' /\ lprod'[u] = s
        BY <1>4, <2>2 DEF Writer
      <3> QED BY <3>2, <3>3 DEF FifoInv, QueueInv
    <2> QED BY <2>1, <2>2
  <1> QED BY <1>5, <1>6

LEMMA ClaimItemFifo ==
  ASSUME FifoInv, NEW t \in Threads, ClaimItem(t)
  PROVE  HandInv' /\ QueueInv'
  <1> USE DEF ClaimItem, Goto
  <1>1. /\ pc[t] = "claim" /\ lcons[t] = consumer_sequence
        /\ consumer_sequence \in Nat /\ producer_sequence \in Nat /\ lprod[t] \in Nat
        /\ pc'[t] = "take" /\ \A u \in Threads \ {t} : pc'[u] = pc[u]
    BY DEF FifoInv, IInv, TypeOK
  <1>2. IsPublished(lcons[t]) /\ Waiting(lcons[t])
    BY <1>1 DEF FifoInv, IInv, LocalCursors, Remembers, IsPublished, Waiting
  <1>3. slot_data[Idx(lcons[t])] \in Items
    BY <1>1, <1>2 DEF FifoInv, QueueInv, IInv, WriterInv, IsPublished
  <1>4. HandInv'
    BY <1>1, <1>3 DEF FifoInv, HandInv, Writer
  <1>5. \A u \in Threads : Writer(u)' <=> Writer(u)
    BY <1>1 DEF Writer
  <1>6. QueueInv'
    BY <1>1, <1>5 DEF FifoInv, QueueInv, Waiting, IsPublished
  <1> QED BY <1>4, <1>6

LEMMA TakeItemFifo ==
  ASSUME Capacity > 1, FifoInv, NEW t \in Threads, TakeItem(t)
  PROVE  HandInv' /\ QueueInv'
  <1> USE DEF TakeItem, Goto
  <1> DEFINE k == Idx(lcons[t])
  <1>1. /\ pc[t] = "take" /\ Taker(t) /\ lcons[t] \in Nat /\ k \in Slots
        /\ consumer_sequence \in Nat
        /\ pc'[t] = "release" /\ item'[t] = slot_data[k]
        /\ \A u \in Threads \ {t} : pc'[u] = pc[u] /\ item'[u] = item[u]
        /\ \A j \in Slots \ {k} : slot_data'[j] = slot_data[j]
    BY IdxInSlots DEF FifoInv, IInv, TypeOK, Taker
  <1>2. slot_sequence[k] = lcons[t] + 1 /\ lcons[t] < consumer_sequence
    BY <1>1 DEF FifoInv, IInv, TakerInv
  <1> HIDE DEF k
  <1>3. HandInv'
    <2> SUFFICES ASSUME NEW u \in Threads
                 PROVE  /\ op'[u] = "push" => u \in Producers /\ item'[u] \in Items
                        /\ Writer(u)' => op'[u] = "push"
                        /\ pc'[u] \in {"recheck", "claim", "take", "release"}
                             => op'[u] \in {"drain", "help"}
                        /\ pc'[u] = "publish" => slot_data'[Idx(lprod'[u])] = item'[u]
                        /\ pc'[u] = "take" => slot_data'[Idx(lcons'[u])] \in Items
                        /\ pc'[u] = "release" => item'[u] \in Items
      BY DEF HandInv
    <2>1. lprod[u] \in Nat /\ lcons[u] \in Nat /\ Idx(lprod[u]) \in Slots /\ Idx(lcons[u]) \in Slots
      BY IdxInSlots DEF FifoInv, IInv, TypeOK
    <2>2. CASE u = t
      BY <1>1, <2>2 DEF FifoInv, HandInv, Writer, k
    <2>3. CASE u # t
      <3>1. pc[u] = "publish" => Idx(lprod[u]) # k
        BY <1>1, WriterIsNotAtTakersSlot DEF FifoInv, Writer, k
      <3>2. pc[u] = "take" => Idx(lcons[u]) # k
        BY <1>1, <1>2, <2>1, <2>3 DEF FifoInv, IInv, TakerInv, Taker
      <3> QED BY <1>1, <2>1, <2>3, <3>1, <3>2 DEF FifoInv, HandInv, Writer
    <2> QED BY <2>2, <2>3
  <1>4. QueueInv'
    <2> SUFFICES ASSUME NEW s \in Nat, Waiting(s)
                 PROVE  \/ IsPublished(s) /\ slot_data'[Idx(s)] \in Items
                        \/ \E u \in Threads : Writer(u)' /\ lprod'[u] = s
      BY DEF QueueInv, Waiting, IsPublished
    <2>1. IsPublished(s) => Idx(s) # k
      BY <1>1, <1>2 DEF IsPublished, Waiting
    <2>2. \A u \in Threads : Writer(u) => Writer(u)'
      BY <1>1 DEF Writer
    <2> QED BY <1>1, <2>1, <2>2, IdxInSlots DEF FifoInv, QueueInv
  <1> QED BY <1>3, <1>4

LEMMA ReleaseSlotFifo ==
  ASSUME FifoInv, NEW t \in Threads, ReleaseSlot(t)
  PROVE  HandInv' /\ QueueInv'
  <1> DEFINE k == Idx(lcons[t])
  <1>1. /\ pc[t] = "release" /\ Taker(t) /\ lcons[t] \in Nat /\ k \in Slots
        /\ consumer_sequence \in Nat
        /\ op[t] \in {"drain", "help"} /\ op'[t] # "push" /\ slot_data' = slot_data
        /\ pc'[t] \in {"load_first", "idle"}
        /\ \A u \in Threads \ {t} :
             /\ pc'[u] = pc[u] /\ op'[u] = op[u] /\ item'[u] = item[u]
             /\ lprod'[u] = lprod[u] /\ lcons'[u] = lcons[u]
        /\ \A j \in Slots \ {k} : slot_sequence'[j] = slot_sequence[j]
    BY IdxInSlots
       DEF ReleaseSlot, NextSlotOrReturn, Retry, Return, Goto, FifoInv, IInv, TypeOK,
           Taker, HandInv
  <1>2. slot_sequence[k] = lcons[t] + 1 /\ lcons[t] < consumer_sequence
    BY <1>1 DEF FifoInv, IInv, TakerInv
  <1> HIDE DEF k
  <1>3. HandInv'
    BY <1>1 DEF FifoInv, HandInv, Writer
  <1>4. QueueInv'
    <2> SUFFICES ASSUME NEW s \in Nat, Waiting(s)
                 PROVE  \/ IsPublished(s)' /\ slot_data[Idx(s)] \in Items
                        \/ \E u \in Threads : Writer(u)' /\ lprod'[u] = s
      BY <1>1 DEF QueueInv, Waiting, ReleaseSlot
    <2>1. IsPublished(s) => IsPublished(s)'
      BY <1>1, <1>2, IdxInSlots DEF IsPublished, Waiting
    <2>2. \A u \in Threads : Writer(u) => Writer(u)' /\ lprod'[u] = lprod[u]
      BY <1>1 DEF Writer
    <2> QED BY <2>1, <2>2 DEF FifoInv, QueueInv
  <1> QED BY <1>3, <1>4

LEMMA InitFifo == Init => FifoInv
  <1> SUFFICES ASSUME Init PROVE HandInv /\ QueueInv
    BY InitIInv DEF FifoInv
  <1>1. HandInv
    BY DEF Init, HandInv, Writer
  <1>2. QueueInv
    BY DEF Init, QueueInv, Waiting
  <1> QED BY <1>1, <1>2

LEMMA NextFifo == Capacity > 1 /\ FifoInv /\ TypeOK' /\ [Next]_vars => FifoInv'
  <1> SUFFICES ASSUME Capacity > 1, FifoInv, TypeOK', [Next]_vars PROVE FifoInv'
    OBVIOUS
  <1>1. IInv'
    BY NextIInv DEF FifoInv
  <1>2. CASE \/ \E p \in Producers : CallTryPush(p)
             \/ \E p \in Helpers : CallDrainHelping(p) \/ CallLen(p)
             \/ \E c \in Consumers : CallDrain(c)
    BY <1>1, <1>2, CallFifo DEF FifoInv
  <1>3. CASE \E t \in Threads : Step(t)
    <2>1. PICK t \in Threads : Step(t)
      BY <1>3
    <2>2. HandInv' /\ QueueInv'
      BY <1>1, <2>1, QuietActionsFifo, ClaimSlotFifo, AwaitSlotFifo, WriteSlotFifo,
         PublishSlotFifo, ClaimItemFifo, TakeItemFifo, ReleaseSlotFifo DEF Step
    <2> QED BY <1>1, <2>2 DEF FifoInv
  <1>4. CASE UNCHANGED vars
    <2>1. HandInv'
      BY <1>4 DEF vars, FifoInv, HandInv, Writer
    <2>2. QueueInv'
      BY <1>4 DEF vars, FifoInv, QueueInv, Waiting, IsPublished, Writer
    <2> QED BY <1>1, <2>1, <2>2 DEF FifoInv
  <1> QED BY <1>2, <1>3, <1>4 DEF Next

(* What the mapping shows: an item that is published is the one in its slot, *)
(* one that is not is still with its producer.                               *)
Shown ==
  /\ \A s \in Nat : IsPublished(s) => ItemAt(s) = slot_data[Idx(s)]
  /\ \A t \in Threads : Writer(t) => ItemAt(lprod[t]) = item[t]

LEMMA ItemsAreShown == FifoInv => Shown
  <1> SUFFICES ASSUME FifoInv PROVE Shown
    OBVIOUS
  <1>1. \A s \in Nat : IsPublished(s) => ItemAt(s) = slot_data[Idx(s)]
    BY DEF ItemAt, IsPublished
  <1>2. ASSUME NEW t \in Threads, Writer(t)
        PROVE  ItemAt(lprod[t]) = item[t]
    <2>1. t \in Producers
      BY <1>2 DEF FifoInv, HandInv
    <2>2. \A p \in Producers : pc[p] \in {"await", "write", "publish"} /\ lprod[p] = lprod[t]
                                 => p = t
      BY <1>2 DEF FifoInv, IInv, WriterInv, Writer, Threads
    <2>3. slot_sequence[Idx(lprod[t])] # lprod[t] + 1
      BY <1>2 DEF FifoInv, IInv, WriterInv
    <2> QED BY <1>2, <2>1, <2>2, <2>3 DEF ItemAt, Writer
  <1> QED BY <1>1, <1>2 DEF Shown

Queue   == [i \in 1 .. producer_sequence - consumer_sequence |->
              ItemAt(consumer_sequence + i - 1)]
Holding == [t \in Threads |->
              CASE pc[t] = "take"    -> slot_data[Idx(lcons[t])]
                [] pc[t] = "release" -> item[t]
                [] OTHER             -> None]

\* The item that waits under s is the same before and after a step.
Stays(s) ==
  \/ IsPublished(s) /\ IsPublished(s)' /\ slot_data'[Idx(s)] = slot_data[Idx(s)]
  \/ \E t \in Threads : /\ Writer(t) /\ lprod[t] = s
                        /\ \/ Writer(t)' /\ lprod'[t] = s /\ item'[t] = item[t]
                           \/ IsPublished(s)' /\ slot_data'[Idx(s)] = item[t]

LEMMA ItemStays ==
  ASSUME FifoInv, FifoInv', NEW s \in Nat, Stays(s)
  PROVE  ItemAt(s)' = ItemAt(s)
  <1>1. Shown
    BY ItemsAreShown
  <1>2. Shown'
    <2>1. FifoInv' => Shown'
      BY ItemsAreShown, PTL
    <2> QED BY <2>1
  <1> QED BY <1>1, <1>2 DEF Shown, Stays

\* No step of another thread moves the items that a thread holds.
HoldsStay(t) ==
  \A u \in Threads \ {t} :
    /\ pc'[u] = pc[u]
    /\ pc[u] = "take" => slot_data'[Idx(lcons'[u])] = slot_data[Idx(lcons[u])]
    /\ pc[u] = "release" => item'[u] = item[u]

LEMMA QueueIsTyped ==
  ASSUME FifoInv
  PROVE  /\ producer_sequence - consumer_sequence \in Nat
         /\ Queue \in Seq(Items) /\ Len(Queue) = producer_sequence - consumer_sequence
         /\ \A s \in Nat : Waiting(s) => ItemAt(s) \in Items
  <1>1. /\ producer_sequence \in Nat /\ consumer_sequence \in Nat
        /\ consumer_sequence <= producer_sequence
    BY DEF FifoInv, IInv, TypeOK, CursorOrder
  <1>2. ASSUME NEW s \in Nat, Waiting(s) PROVE ItemAt(s) \in Items
    <2>1. Shown
      BY ItemsAreShown
    <2> QED BY <1>2, <2>1 DEF FifoInv, QueueInv, HandInv, Shown
  <1>3. \A i \in 1 .. producer_sequence - consumer_sequence :
          ItemAt(consumer_sequence + i - 1) \in Items
    <2> TAKE i \in 1 .. producer_sequence - consumer_sequence
    <2>1. consumer_sequence + i - 1 \in Nat /\ Waiting(consumer_sequence + i - 1)
      BY <1>1 DEF Waiting
    <2> QED BY <1>2, <2>1
  <1> QED BY <1>1, <1>2, <1>3 DEF Queue

QueueMatches ==
  \A s \in Nat : \A i \in 1 .. producer_sequence - consumer_sequence :
    s = consumer_sequence + i - 1 => Queue[i] = ItemAt(s)

LEMMA QueueAt == FifoInv => QueueMatches
  BY DEF Queue, QueueMatches

LEMMA QueueStays ==
  ASSUME FifoInv, FifoInv', NEW t \in Threads,
         UNCHANGED <<producer_sequence, consumer_sequence>>,
         \A s \in Nat : Waiting(s) => Stays(s)
  PROVE  Queue' = Queue
  <1>1. producer_sequence \in Nat /\ consumer_sequence \in Nat
    BY DEF FifoInv, IInv, TypeOK
  <1>2. \A i \in 1 .. producer_sequence - consumer_sequence :
          ItemAt(consumer_sequence + i - 1)' = ItemAt(consumer_sequence + i - 1)
    <2> TAKE i \in 1 .. producer_sequence - consumer_sequence
    <2>1. consumer_sequence + i - 1 \in Nat /\ Waiting(consumer_sequence + i - 1)
      BY <1>1 DEF Waiting
    <2> QED BY <2>1, ItemStays
  <1> QED BY <1>2 DEF Queue

LEMMA HoldingStays ==
  ASSUME NEW t \in Threads, HoldsStay(t),
         \/ pc[t] \notin {"take", "release"} /\ pc'[t] \notin {"take", "release"}
         \/ pc[t] = "take" /\ pc'[t] = "release" /\ item'[t] = slot_data[Idx(lcons[t])]
  PROVE  Holding' = Holding
  <1> SUFFICES ASSUME NEW u \in Threads
               PROVE  (CASE pc[u] = "take"    -> slot_data[Idx(lcons[u])]
                         [] pc[u] = "release" -> item[u]
                         [] OTHER             -> None)'
                      = CASE pc[u] = "take"    -> slot_data[Idx(lcons[u])]
                          [] pc[u] = "release" -> item[u]
                          [] OTHER             -> None
    BY DEF Holding
  <1> QED BY DEF HoldsStay

LEMMA Stutter == UNCHANGED <<Queue, Holding>> => UNCHANGED Fifo!vars
  BY DEF Fifo!vars, Queue, Holding

LEMMA QuietRefines ==
  ASSUME FifoInv, FifoInv', NEW t \in Threads, Quiet(t),
         \A u \in Threads \ {t} : op'[u] = op[u] /\ item'[u] = item[u]
  PROVE  UNCHANGED Fifo!vars
  <1>1. \A s \in Nat : Waiting(s) => Stays(s)
    BY DEF FifoInv, QueueInv, Stays, IsPublished, Quiet, Writer, shared
  <1>2. Queue' = Queue
    BY <1>1, QueueStays DEF Quiet, shared
  <1>3. HoldsStay(t)
    BY DEF HoldsStay, Quiet, shared
  <1>4. Holding' = Holding
    BY <1>3, HoldingStays DEF Quiet, Taker
  <1> QED BY <1>2, <1>4, Stutter

\* Waiting for a slot, writing it and publishing it move the item from the
\* producer to the slot.
LEMMA FillingRefines ==
  ASSUME Capacity > 1, FifoInv, FifoInv', NEW t \in Threads,
         AwaitSlot(t) \/ WriteSlot(t) \/ PublishSlot(t)
  PROVE  UNCHANGED Fifo!vars
  <1> DEFINE k == Idx(lprod[t])
  <1>1. /\ Writer(t) /\ lprod[t] \in Nat /\ k \in Slots /\ lprod'[t] \in Nat
        /\ consumer_sequence \in Nat /\ producer_sequence \in Nat
        /\ \A j \in Slots \ {k} : /\ slot_data'[j] = slot_data[j]
                                  /\ slot_sequence'[j] = slot_sequence[j]
        /\ UNCHANGED <<producer_sequence, consumer_sequence>>
        /\ \A u \in Threads \ {t} :
             /\ pc'[u] = pc[u] /\ item'[u] = item[u]
             /\ lprod'[u] = lprod[u] /\ lcons'[u] = lcons[u]
        /\ ~Taker(t) /\ ~Taker(t)'
    BY IdxInSlots
       DEF AwaitSlot, WriteSlot, PublishSlot, Goto, Return, shared,
           FifoInv, IInv, TypeOK, Writer, Taker
  <1>2. ASSUME NEW s \in Nat, s = lprod[t] PROVE Stays(s)
    <2>1. CASE AwaitSlot(t) \/ WriteSlot(t)
      <3>1. Writer(t)' /\ lprod' = lprod /\ item' = item
        BY <2>1 DEF AwaitSlot, WriteSlot, Goto, Writer, FifoInv, IInv, TypeOK
      <3> QED BY <1>1, <1>2, <3>1 DEF Stays
    <2>2. CASE PublishSlot(t)
      <3>1. /\ slot_sequence'[k] = lprod[t] + 1 /\ slot_data'[k] = item[t]
        BY <1>1, <2>2
           DEF PublishSlot, Return, Goto, FifoInv, IInv, TypeOK, HandInv
      <3> QED BY <1>1, <1>2, <3>1 DEF Stays, IsPublished
    <2> QED BY <2>1, <2>2
  <1>3. Waiting(lprod[t]) /\ ~IsPublished(lprod[t])
    BY <1>1 DEF FifoInv, IInv, WriterInv, Waiting, IsPublished
  <1>4. ASSUME NEW s \in Nat, Waiting(s), s # lprod[t] PROVE Stays(s)
    <2>1. Idx(s) # k
      BY <1>1, <1>3, <1>4, SameSlotSameSequence, CapacityAssumption
         DEF FifoInv, IInv, CursorOrder, Waiting
    <2>2. CASE IsPublished(s)
      BY <1>1, <2>1, <2>2, IdxInSlots DEF Stays, IsPublished
    <2>3. CASE ~IsPublished(s)
      <3>1. PICK u \in Threads : Writer(u) /\ lprod[u] = s
        BY <1>4, <2>3 DEF FifoInv, QueueInv
      <3>2. u # t
        BY <1>4, <3>1
      <3> QED BY <1>1, <3>1, <3>2 DEF Stays, Writer
    <2> QED BY <2>2, <2>3
  <1>5. Queue' = Queue
    BY <1>1, <1>2, <1>4, QueueStays
  <1>6. HoldsStay(t)
    <2> SUFFICES ASSUME NEW u \in Threads \ {t}, pc[u] = "take"
                 PROVE  slot_data'[Idx(lcons[u])] = slot_data[Idx(lcons[u])]
      BY <1>1 DEF HoldsStay
    <2>1. CASE AwaitSlot(t) \/ PublishSlot(t)
      BY <2>1 DEF AwaitSlot, PublishSlot, shared
    <2>2. CASE WriteSlot(t)
      <3>1. Idx(lcons[u]) # k /\ lcons[u] \in Nat
        BY <2>2, WriterIsNotAtTakersSlot
           DEF WriteSlot, Goto, Writer, Taker, FifoInv, IInv, TypeOK
      <3> QED BY <1>1, <3>1, IdxInSlots
    <2> QED BY <2>1, <2>2
  <1>7. Holding' = Holding
    BY <1>1, <1>6, HoldingStays DEF Taker
  <1> QED BY <1>5, <1>7, Stutter

\* Taking the claimed item out of its slot moves it to the thread.
LEMMA TakeItemRefines ==
  ASSUME FifoInv, FifoInv', NEW t \in Threads, TakeItem(t)
  PROVE  UNCHANGED Fifo!vars
  <1> DEFINE k == Idx(lcons[t])
  <1>1. /\ pc[t] = "take" /\ Taker(t) /\ lcons[t] \in Nat /\ k \in Slots
        /\ consumer_sequence \in Nat
        /\ pc'[t] = "release" /\ item'[t] = slot_data[k]
        /\ UNCHANGED <<producer_sequence, consumer_sequence, slot_sequence, lprod, lcons>>
        /\ \A u \in Threads \ {t} : pc'[u] = pc[u] /\ item'[u] = item[u]
        /\ \A j \in Slots \ {k} : slot_data'[j] = slot_data[j]
    BY IdxInSlots DEF TakeItem, Goto, FifoInv, IInv, TypeOK, Taker
  <1>2. slot_sequence[k] = lcons[t] + 1 /\ lcons[t] < consumer_sequence
    BY <1>1 DEF FifoInv, IInv, TakerInv
  <1>3. ASSUME NEW s \in Nat, Waiting(s) PROVE Stays(s)
    <2>1. CASE IsPublished(s)
      <3>1. Idx(s) # k
        BY <1>1, <1>2, <1>3, <2>1 DEF IsPublished, Waiting
      <3> QED BY <1>1, <2>1, <3>1, IdxInSlots DEF Stays, IsPublished
    <2>2. CASE ~IsPublished(s)
      <3>1. PICK u \in Threads : Writer(u) /\ lprod[u] = s
        BY <1>3, <2>2 DEF FifoInv, QueueInv
      <3>2. u # t
        BY <1>1, <3>1 DEF Writer
      <3> QED BY <1>1, <3>1, <3>2 DEF Stays, Writer
    <2> QED BY <2>1, <2>2
  <1>4. Queue' = Queue
    BY <1>1, <1>3, QueueStays
  <1>5. HoldsStay(t)
    <2> SUFFICES ASSUME NEW u \in Threads \ {t}, pc[u] = "take"
                 PROVE  slot_data'[Idx(lcons[u])] = slot_data[Idx(lcons[u])]
      BY <1>1 DEF HoldsStay
    <2>1. slot_sequence[Idx(lcons[u])] = lcons[u] + 1 /\ lcons[u] \in Nat
      BY DEF FifoInv, IInv, TakerInv, Taker, TypeOK
    <2>2. Idx(lcons[u]) # k
      BY <1>1, <1>2, <2>1 DEF FifoInv, IInv, TakerInv, Taker
    <2> QED BY <1>1, <2>1, <2>2, IdxInSlots
  <1>6. Holding' = Holding
    BY <1>1, <1>5, HoldingStays
  <1> QED BY <1>4, <1>6, Stutter

\* A push takes effect when the producer claims its sequence number.
LEMMA ClaimSlotRefines ==
  ASSUME FifoInv, FifoInv', NEW t \in Threads, ClaimSlot(t)
  PROVE  \E x \in Items : Fifo!Push(x)
  <1> USE DEF ClaimSlot, Goto
  <1> DEFINE x == item[t]
             n == producer_sequence - consumer_sequence
  <1>1. /\ producer_sequence \in Nat /\ consumer_sequence \in Nat /\ Capacity \in Nat
        /\ lcons[t] \in Nat /\ lprod[t] = producer_sequence
        /\ producer_sequence' = producer_sequence + 1
        /\ consumer_sequence' = consumer_sequence
        /\ pc[t] = "decide" /\ pc'[t] = "await"
        /\ \A u \in Threads \ {t} : pc'[u] = pc[u]
        /\ UNCHANGED <<slot_sequence, slot_data, op, lcons, lprod, item>>
    BY CapacityAssumption DEF FifoInv, IInv, TypeOK
  <1>2. lcons[t] <= consumer_sequence /\ n < Capacity
    BY <1>1 DEF FifoInv, IInv, LocalCursors, Remembers
  <1>3. x \in Items
    BY DEF FifoInv, HandInv
  <1>4. ASSUME NEW s \in Nat, Waiting(s) PROVE ItemAt(s)' = ItemAt(s)
    <2>1. \A u \in Threads : Writer(u) => Writer(u)'
      BY <1>1 DEF Writer
    <2>2. Stays(s)
      BY <1>1, <1>4, <2>1 DEF FifoInv, QueueInv, Stays, IsPublished
    <2> QED BY <2>2, ItemStays
  <1>5. ASSUME NEW s \in Nat, s = producer_sequence PROVE ItemAt(s)' = x
    <2>1. FifoInv' => Shown'
      BY ItemsAreShown, PTL
    <2>2. Writer(t)' /\ lprod'[t] = s
      BY <1>1, <1>5 DEF Writer
    <2> QED BY <1>1, <2>1, <2>2 DEF Shown
  <1>6. n \in Nat /\ Queue \in Seq(Items) /\ Len(Queue) = n
    BY QueueIsTyped
  <1>7. Queue' \in Seq(Items) /\ Len(Queue') = n + 1
    <2>1. FifoInv' => /\ (Queue \in Seq(Items))'
                      /\ (Len(Queue) = producer_sequence - consumer_sequence)'
      BY QueueIsTyped, PTL
    <2> QED BY <1>1, <2>1
  <1>8. \A j \in 1 .. n + 1 : Queue'[j] = Append(Queue, x)[j]
    <2> TAKE j \in 1 .. n + 1
    <2> DEFINE s == consumer_sequence + j - 1
    <2>1. s \in Nat /\ Queue'[j] = ItemAt(s)'
      BY <1>1, <1>6 DEF Queue
    <2>2. CASE j \in 1 .. n
      <3>1. Waiting(s) /\ Queue[j] = ItemAt(s)
        BY <1>1, <2>1, <2>2 DEF Waiting, Queue
      <3> QED BY <1>3, <1>4, <1>6, <2>1, <2>2, <3>1
    <2>3. CASE j = n + 1
      <3>1. s = producer_sequence
        BY <1>1, <2>3
      <3> QED BY <1>3, <1>5, <1>6, <2>1, <2>3, <3>1
    <2> QED BY <1>6, <2>2, <2>3
  <1>9. Queue' = Append(Queue, x)
    <2> HIDE DEF x, n
    <2>1. Append(Queue, x) \in Seq(Items) /\ Len(Append(Queue, x)) = n + 1
      BY <1>3, <1>6
    <2> QED BY <1>7, <1>8, <2>1, SeqEqual
  <1>10. Holding' = Holding
    BY <1>1, HoldingStays DEF HoldsStay
  <1>11. Len(Queue) < Capacity
    BY <1>2, <1>6
  <1> HIDE DEF x
  <1>12. Fifo!Push(x)
    BY <1>9, <1>10, <1>11 DEF Fifo!Push, Queue, Holding
  <1> QED BY <1>3, <1>12

\* A pop takes effect when the thread claims the item.
LEMMA ClaimItemRefines ==
  ASSUME FifoInv, FifoInv', NEW t \in Threads, ClaimItem(t)
  PROVE  Fifo!Pop(t)
  <1> USE DEF ClaimItem, Goto
  <1> DEFINE n == producer_sequence - consumer_sequence
  <1>1. /\ producer_sequence \in Nat /\ consumer_sequence \in Nat /\ lprod[t] \in Nat
        /\ lcons[t] = consumer_sequence
        /\ consumer_sequence' = consumer_sequence + 1
        /\ pc[t] = "claim" /\ pc'[t] = "take"
        /\ \A u \in Threads \ {t} : pc'[u] = pc[u]
        /\ UNCHANGED <<producer_sequence, slot_sequence, slot_data, lcons, lprod, item>>
    BY DEF FifoInv, IInv, TypeOK
  <1>2. Waiting(lcons[t]) /\ IsPublished(lcons[t])
    BY <1>1 DEF FifoInv, IInv, LocalCursors, Remembers, Waiting, IsPublished
  <1>3. ASSUME NEW s \in Nat, Waiting(s) PROVE ItemAt(s)' = ItemAt(s)
    <2>1. \A u \in Threads : Writer(u) => Writer(u)'
      BY <1>1 DEF Writer
    <2>2. Stays(s)
      BY <1>1, <1>3, <2>1 DEF FifoInv, QueueInv, Stays, IsPublished
    <2> QED BY <2>2, ItemStays
  <1>4. n \in Nat /\ n > 0 /\ Queue \in Seq(Items) /\ Len(Queue) = n
    BY <1>1, <1>2, QueueIsTyped DEF Waiting
  <1>5. Queue' \in Seq(Items) /\ Len(Queue') = n - 1
    <2>1. FifoInv' => /\ (Queue \in Seq(Items))'
                      /\ (Len(Queue) = producer_sequence - consumer_sequence)'
      BY QueueIsTyped, PTL
    <2> QED BY <1>1, <2>1
  <1>6. \A j \in 1 .. n - 1 : Queue'[j] = Tail(Queue)[j]
    <2> TAKE j \in 1 .. n - 1
    <2>0. j \in Nat /\ j >= 1 /\ j + 1 <= n
      <3> HIDE DEF n
      <3> QED BY <1>4
    <2>1. PICK s \in Nat : s = consumer_sequence + j
      BY <1>1, <2>0
    <2>2. /\ Waiting(s) /\ consumer_sequence' \in Nat
          /\ s = consumer_sequence' + j - 1
          /\ j \in 1 .. producer_sequence' - consumer_sequence'
      <3>1. consumer_sequence <= s /\ s < producer_sequence
        BY <1>1, <2>0, <2>1
      <3> QED BY <1>1, <2>0, <2>1, <3>1 DEF Waiting
    <2>3. Queue'[j] = ItemAt(s)'
      <3>1. FifoInv' => QueueMatches'
        BY QueueAt, PTL
      <3> QED BY <2>2, <3>1 DEF QueueMatches
    <2>4. Queue[j + 1] = ItemAt(s)
      <3>1. /\ j + 1 \in 1 .. producer_sequence - consumer_sequence
            /\ s = consumer_sequence + (j + 1) - 1
        BY <1>1, <2>0, <2>1
      <3> QED BY <3>1, QueueAt DEF QueueMatches
    <2>5. Tail(Queue)[j] = Queue[j + 1]
      <3> HIDE DEF n
      <3> QED BY <1>4, <2>0
    <2> QED BY <1>3, <2>2, <2>3, <2>4, <2>5
  <1>7. Queue' = Tail(Queue)
    <2> HIDE DEF n
    <2>1. Tail(Queue) \in Seq(Items) /\ Len(Tail(Queue)) = n - 1
      BY <1>4
    <2> QED BY <1>5, <1>6, <2>1, SeqEqual
  <1>8. Queue # <<>> /\ Head(Queue) = slot_data[Idx(lcons[t])]
    <2>1. Queue[1] = ItemAt(consumer_sequence)
      BY <1>1, <1>4 DEF Queue
    <2>2. Shown
      BY ItemsAreShown
    <2> QED BY <1>1, <1>2, <1>4, <2>1, <2>2 DEF Shown
  <1>9. Holding[t] = None /\ Holding' = [Holding EXCEPT ![t] = Head(Queue)]
    <2>1. Holding[t] = None
      BY <1>1 DEF Holding
    <2>2. Holding' = [u \in Threads |-> IF u = t THEN slot_data[Idx(lcons[t])] ELSE Holding[u]]
      BY <1>1 DEF Holding
    <2> QED BY <1>8, <2>1, <2>2 DEF Holding
  <1> QED BY <1>7, <1>8, <1>9 DEF Fifo!Pop, Queue, Holding

\* The item leaves the thread's hands when the slot is released.
LEMMA ReleaseSlotRefines ==
  ASSUME Capacity > 1, FifoInv, FifoInv', NEW t \in Threads, ReleaseSlot(t)
  PROVE  Fifo!Finish(t)
  <1> DEFINE k == Idx(lcons[t])
  <1>1. /\ pc[t] = "release" /\ Taker(t) /\ lcons[t] \in Nat /\ k \in Slots
        /\ consumer_sequence \in Nat /\ producer_sequence \in Nat
        /\ pc'[t] \in {"load_first", "idle"}
        /\ UNCHANGED <<producer_sequence, consumer_sequence, slot_data>>
        /\ \A u \in Threads \ {t} :
             /\ pc'[u] = pc[u] /\ item'[u] = item[u]
             /\ lprod'[u] = lprod[u] /\ lcons'[u] = lcons[u]
        /\ \A j \in Slots \ {k} : slot_sequence'[j] = slot_sequence[j]
    BY IdxInSlots
       DEF ReleaseSlot, NextSlotOrReturn, Retry, Return, Goto, FifoInv, IInv, TypeOK,
           Taker
  <1>2. slot_sequence[k] = lcons[t] + 1 /\ lcons[t] < consumer_sequence
    BY <1>1 DEF FifoInv, IInv, TakerInv
  <1>3. ASSUME NEW s \in Nat, Waiting(s) PROVE Stays(s)
    <2>1. CASE IsPublished(s)
      <3>1. Idx(s) # k
        BY <1>1, <1>2, <1>3, <2>1 DEF IsPublished, Waiting
      <3> QED BY <1>1, <2>1, <3>1, IdxInSlots DEF Stays, IsPublished
    <2>2. CASE ~IsPublished(s)
      <3>1. PICK u \in Threads : Writer(u) /\ lprod[u] = s
        BY <1>3, <2>2 DEF FifoInv, QueueInv
      <3>2. u # t
        BY <1>1, <3>1 DEF Writer
      <3> QED BY <1>1, <3>1, <3>2 DEF Stays, Writer
    <2> QED BY <2>1, <2>2
  <1>4. Queue' = Queue
    BY <1>1, <1>3, QueueStays
  <1>5. Holding[t] # None
    BY <1>1, NoneAssumption DEF Holding, FifoInv, HandInv
  <1>6. Holding' = [Holding EXCEPT ![t] = None]
    <2>1. Holding' = [u \in Threads |-> IF u = t THEN None ELSE Holding[u]]
      BY <1>1 DEF Holding
    <2> QED BY <2>1 DEF Holding
  <1> QED BY <1>4, <1>5, <1>6 DEF Fifo!Finish, Queue, Holding

LEMMA StepsRefine ==
  ASSUME Capacity > 1, FifoInv, FifoInv', [Next]_vars
  PROVE  [Fifo!Next]_(Fifo!vars)
  <1>1. CASE \/ \E p \in Producers : CallTryPush(p)
             \/ \E p \in Helpers : CallDrainHelping(p) \/ CallLen(p)
             \/ \E c \in Consumers : CallDrain(c)
    <2>1. PICK t \in Threads, o \in Ops :
            /\ Call(t, o)
            /\ \A u \in Threads \ {t} : item'[u] = item[u]
      BY <1>1, ThreadsAssumption
         DEF CallTryPush, CallDrainHelping, CallLen, CallDrain, Threads, Ops,
             FifoInv, IInv, TypeOK
    <2>2. Quiet(t) /\ \A u \in Threads \ {t} : op'[u] = op[u] /\ item'[u] = item[u]
      BY <2>1 DEF Call, Goto, Quiet, Writer, Taker, shared, FifoInv, IInv, TypeOK
    <2> QED BY <2>2, QuietRefines
  <1>2. ASSUME NEW t \in Threads, Step(t) PROVE [Fifo!Next]_(Fifo!vars)
    <2>1. CASE ClaimSlot(t)
      BY <2>1, ClaimSlotRefines DEF Fifo!Next
    <2>2. CASE AwaitSlot(t) \/ WriteSlot(t) \/ PublishSlot(t)
      BY <2>2, FillingRefines
    <2>3. CASE ClaimItem(t)
      BY <2>3, ClaimItemRefines DEF Fifo!Next
    <2>4. CASE TakeItem(t)
      BY <2>4, TakeItemRefines
    <2>5. CASE ReleaseSlot(t)
      BY <2>5, ReleaseSlotRefines DEF Fifo!Next
    <2>6. CASE \/ LoadCursors(t) \/ ReturnLen(t) \/ PushFull(t) \/ ClaimSlotFails(t)
               \/ DrainEmpty(t) \/ SeePublished(t) \/ HelpUnpublished(t)
               \/ DrainUnpublished(t) \/ Recheck(t) \/ ClaimItemFails(t)
      BY <2>6, QuietActionsFifo, QuietRefines
    <2> QED BY <1>2, <2>1, <2>2, <2>3, <2>4, <2>5, <2>6 DEF Step
  <1>3. CASE UNCHANGED vars
    BY <1>3 DEF vars, Fifo!vars, ItemAt
  <1> QED BY <1>1, <1>2, <1>3 DEF Next

(* For any threads and pushes and two slots or more: however pushes, drains *)
(* and helpers overlap, items come out of the ring in the order in which   *)
(* their sequence numbers were claimed, each once and to one thread, and   *)
(* no more than Capacity wait (try_push, drain, drain_helping).            *)
THEOREM RingIsAFifo == Capacity > 1 => (Spec => ImplementsBoundedFifo)
  <1> SUFFICES ASSUME Capacity > 1 PROVE Spec => ImplementsBoundedFifo
    OBVIOUS
  <1>1. Init => Fifo!Init
    <2> SUFFICES ASSUME Init PROVE Fifo!Init
      OBVIOUS
    <2>1. Queue = <<>>
      BY DEF Init, Queue
    <2>2. Holding = [t \in Threads |-> None]
      BY DEF Init, Holding
    <2> QED BY <2>1, <2>2 DEF Fifo!Init, Queue, Holding
  <1>2. FifoInv /\ TypeOK' /\ [Next]_vars => FifoInv'
    BY NextFifo
  <1>3. FifoInv /\ FifoInv' /\ [Next]_vars => [Fifo!Next]_(Fifo!vars)
    BY StepsRefine
  <1> QED
    BY <1>1, <1>2, <1>3, InitFifo, TypeCorrect, PTL
    DEF Spec, ImplementsBoundedFifo, Fifo!Spec

=============================================================================
