------------------------------ MODULE ShmRing ------------------------------
(***************************************************************************)
(* The shared-memory ring of core/src/sink/shm.rs between the writers of   *)
(* one process and the readers of others, one action per atomic access.    *)
(* A frame is a number; frame 0 is the zeroed memory of a new region.  A   *)
(* reader follows the loop core/include/dologger_shm.h gives to consumers. *)
(* A copy out of a slot that is being written may be the old frame, the    *)
(* new one, or Torn.                                                       *)
(***************************************************************************)
EXTENDS Integers, Sequences, FiniteSets

CONSTANTS
  ShmWriters, ShmReaders,
  Slots,            \* slot_count
  MaxShmFrames,     \* bound on the calls of write
  Torn

ASSUME ShmRingAssumption == IsFiniteSet(ShmWriters) /\ Slots \in Nat \ {0}

VARIABLES
  policy,           \* full_policy
  callers,          \* the threads that call write
  producer_seq, consumer_seq, shm_dropped, overwritten_count, overflow,
  slot,             \* the frame in each slot
  claimed,          \* the frame each sequence number was claimed for
  total_written, total_dropped,
  offered,          \* calls of write so far
  refused,          \* calls refused because the frame exceeds a slot
  w,                \* each writer's program counter and locals
  r                 \* each reader's

ring  == <<producer_seq, consumer_seq, slot, claimed>>
tally == <<shm_dropped, overwritten_count, overflow, total_written,
           total_dropped, offered, refused>>
settings == <<policy, callers>>
shmvars == <<settings, ring, tally, w, r>>

Idle  == [pc |-> "idle", producer |-> 0, consumer |-> 0, frame |-> 0]
Rest  == [pc |-> "rest", consumer |-> 0, producer |-> 0, got |-> 0]

ShmRingInit ==
  /\ policy \in {"DropNewest", "DropOldest"}
  /\ callers \in (SUBSET ShmWriters) \ {{}}
  /\ producer_seq = 0 /\ consumer_seq = 0
  /\ shm_dropped = 0 /\ overwritten_count = 0 /\ overflow = FALSE
  /\ slot = [i \in 0..Slots-1 |-> 0]
  /\ claimed = <<>>
  /\ total_written = 0 /\ total_dropped = 0 /\ offered = 0 /\ refused = 0
  /\ w = [x \in ShmWriters |-> Idle]
  /\ r = [x \in ShmReaders |-> Rest]

Step(x, from, to) ==
  /\ w[x].pc = from
  /\ w' = [w EXCEPT ![x] = IF to = "idle" THEN Idle ELSE [@ EXCEPT !.pc = to]]
  /\ UNCHANGED <<settings, r>>

(***************************************************************************)
(* ShmSink::write.                                                         *)
(***************************************************************************)
Offer(x, fits) ==
  /\ offered < MaxShmFrames
  /\ w[x].pc = "idle"
  /\ offered' = offered + 1
  /\ refused' = IF fits THEN refused ELSE refused + 1
  /\ w' = IF fits THEN [w EXCEPT ![x] = [@ EXCEPT !.pc = "load", !.frame = offered + 1]]
                  ELSE w
  /\ UNCHANGED <<settings, ring, shm_dropped, overwritten_count, overflow,
                 total_written, total_dropped, r>>

LoadProducer(x) ==
  /\ w[x].pc = "load"
  /\ w' = [w EXCEPT ![x] = [@ EXCEPT !.pc = "look", !.producer = producer_seq]]
  /\ UNCHANGED <<settings, ring, tally, r>>

(* Mutant. *)
IsFullMutant(producer, consumer) == producer - consumer > Slots

(* producer - consumer is unsigned: a consumer that has passed the loaded   *)
(* producer makes the difference enormous, which reads as full.            *)
IsFull(producer, consumer) ==
  producer < consumer \/ producer - consumer >= Slots

LoadConsumer(x) ==
  LET full == IsFull(w[x].producer, consumer_seq) IN
  /\ w[x].pc = "look"
  /\ w' = [w EXCEPT ![x] =
              [@ EXCEPT !.pc = IF ~full THEN "claim" ELSE
                               IF policy = "DropNewest" THEN "drop" ELSE "overwrite",
                        !.consumer = consumer_seq]]
  /\ UNCHANGED <<settings, ring, tally, r>>

DropNewest(x) ==
  /\ Step(x, "drop", "idle")
  /\ total_dropped' = total_dropped + 1
  /\ shm_dropped' = shm_dropped + 1
  /\ UNCHANGED <<ring, overwritten_count, overflow, total_written, offered,
                 refused>>

(* The compare-and-swap on producer_seq; another writer's claim means retry. *)
Claim(x) ==
  IF producer_seq = w[x].producer
  THEN /\ Step(x, "claim", "copy")
       /\ producer_seq' = producer_seq + 1
       /\ claimed' = Append(claimed, w[x].frame)
       /\ UNCHANGED <<consumer_seq, slot, tally>>
  ELSE /\ Step(x, "claim", "load")
       /\ UNCHANGED <<ring, tally>>

Count == total_written' = total_written + 1

CopyClaimed(x) ==
  /\ Step(x, "copy", "idle")
  /\ slot' = [slot EXCEPT ![w[x].producer % Slots] = w[x].frame]
  /\ Count
  /\ UNCHANGED <<producer_seq, consumer_seq, claimed, shm_dropped,
                 overwritten_count, overflow, total_dropped, offered, refused>>

(* DropOldest: the slot first, then the producer, then the watermark. *)
Overwrite(x) ==
  /\ Step(x, "overwrite", "advance")
  /\ slot' = [slot EXCEPT ![w[x].consumer % Slots] = w[x].frame]
  /\ UNCHANGED <<producer_seq, consumer_seq, claimed, tally>>

AdvanceProducer(x) ==
  /\ Step(x, "advance", "recycle")
  /\ producer_seq' = producer_seq + 1
  /\ claimed' = Append(claimed, w[x].frame)
  /\ UNCHANGED <<consumer_seq, slot, tally>>

Recycle(x) ==
  /\ Step(x, "recycle", "idle")
  /\ consumer_seq' = IF consumer_seq = w[x].consumer THEN consumer_seq + 1
                                                     ELSE consumer_seq
  /\ overwritten_count' = overwritten_count + 1
  /\ overflow' = TRUE
  /\ Count
  /\ UNCHANGED <<producer_seq, slot, claimed, shm_dropped, total_dropped,
                 offered, refused>>

(***************************************************************************)
(* A consumer process: load both cursors, then copy and advance until the  *)
(* loaded producer is reached.  A failed compare-and-swap is not looked at. *)
(***************************************************************************)
ReadConsumer(x) ==
  /\ r[x].pc = "rest"
  /\ r' = [r EXCEPT ![x] = [@ EXCEPT !.pc = "bound", !.consumer = consumer_seq]]
  /\ UNCHANGED <<settings, ring, tally, w>>

ReadProducer(x) ==
  /\ r[x].pc = "bound"
  /\ r' = [r EXCEPT ![x] = IF producer_seq = r[x].consumer THEN Rest
                           ELSE [@ EXCEPT !.pc = "copy", !.producer = producer_seq]]
  /\ UNCHANGED <<settings, ring, tally, w>>

Target(x) == (IF w[x].pc = "copy" THEN w[x].producer ELSE w[x].consumer) % Slots
Visible(i) ==
  {slot[i]} \cup UNION {{w[x].frame, Torn} : x \in
     {y \in ShmWriters : w[y].pc \in {"copy", "overwrite"} /\ Target(y) = i}}

CopyOut(x) ==
  /\ r[x].pc = "copy"
  /\ \E f \in Visible(r[x].consumer % Slots) :
       r' = [r EXCEPT ![x] = [@ EXCEPT !.pc = "advance", !.got = f]]
  /\ UNCHANGED <<settings, ring, tally, w>>

Consume(x) ==
  /\ r[x].pc = "advance"
  /\ consumer_seq' = IF consumer_seq = r[x].consumer THEN consumer_seq + 1
                                                     ELSE consumer_seq
  /\ r' = [r EXCEPT ![x] = IF r[x].consumer + 1 = r[x].producer THEN Rest
                           ELSE [pc |-> "copy", consumer |-> r[x].consumer + 1,
                                 producer |-> r[x].producer, got |-> 0]]
  /\ UNCHANGED <<settings, producer_seq, slot, claimed, tally, w>>

ShmRingNext ==
  \/ \E x \in callers :
       \/ \E fits \in BOOLEAN : Offer(x, fits)
       \/ LoadProducer(x) \/ LoadConsumer(x) \/ DropNewest(x) \/ Claim(x)
       \/ CopyClaimed(x) \/ Overwrite(x) \/ AdvanceProducer(x) \/ Recycle(x)
  \/ \E x \in ShmReaders :
       ReadConsumer(x) \/ ReadProducer(x) \/ CopyOut(x) \/ Consume(x)

ShmRingSpec == ShmRingInit /\ [][ShmRingNext]_shmvars

(***************************************************************************)
(* Properties.                                                             *)
(***************************************************************************)
Overwriting == {x \in ShmWriters : w[x].pc \in {"advance", "recycle"}}

(* The watermark never passes the producer, and the records in flight never *)
(* exceed the ring, but for the one an overwriting writer has added and not *)
(* yet paid for; the accounts of calls balance.  Overwriting is stated for  *)
(* one writer, which is what the engine has (scheduler.rs:508).            *)
WatermarkHolds ==
  /\ consumer_seq <= producer_seq
  /\ policy = "DropNewest" \/ Cardinality(callers) = 1
       => producer_seq - consumer_seq <= Slots + Cardinality(Overwriting)
  /\ (\A x \in ShmWriters : w[x].pc = "idle") =>
       /\ total_written = producer_seq
       /\ offered = total_written + total_dropped + refused
       /\ overflow <=> overwritten_count > 0

(* What the consumer header promises: the frame a consumer copies at        *)
(* consumer_seq is the one written for that sequence number.               *)
ReadsAreCurrent ==
  \A x \in ShmReaders :
    r[x].pc = "advance" /\ consumer_seq = r[x].consumer =>
      r[x].got = claimed[r[x].consumer + 1]

=============================================================================
