--------------------------- MODULE ReadBackProofs ---------------------------
(***************************************************************************)
(* What one process writes and another reads: proofs about the shared ring *)
(* (ShmRing), the records, frames and streams of the codec (SifCodec) and  *)
(* the files of frames (RecordFile).                                       *)
(***************************************************************************)
EXTENDS ShmRing, SifCodec, RecordFile, FiniteSetTheorems, SequenceTheorems, TLAPS

(* Parts of sequences and of pairs.                                        *)
LEMMA CutForm ==
  ASSUME NEW S, NEW s \in Seq(S), NEW n \in 0..Len(s)
  PROVE  /\ SubSeq(s, n + 1, Len(s)) \in Seq(S) /\ Len(SubSeq(s, n + 1, Len(s))) = Len(s) - n
         /\ \A k \in 1..Len(s) - n : SubSeq(s, n + 1, Len(s))[k] = s[n + k]
  OBVIOUS

LEMMA PairParts ==
  ASSUME NEW a, NEW b, NEW pair, pair = <<a, b>>
  PROVE  pair[1] = a /\ pair[2] = b
  OBVIOUS

LEMMA PartBehind ==
  ASSUME NEW S, NEW s \in Seq(S), NEW t \in Seq(S)
  PROVE  /\ s \o t \in Seq(S) /\ Len(s \o t) = Len(s) + Len(t)
         /\ Len(s) \in Nat /\ Len(t) \in Nat
         /\ \A k \in 1..Len(s) : (s \o t)[k] = s[k]
         /\ \A k \in 1..Len(t) : (s \o t)[Len(s) + k] = t[k]
  OBVIOUS

(***************************************************************************)
(* The shared ring (ShmRing), for every number of writers, readers and     *)
(* slots.                                                                  *)
(*                                                                         *)
(* The locals of each call are behind the cursors they were loaded from;   *)
(* what is in flight fits into the ring; and every frame offered is in one *)
(* of the counts.                                                          *)
(***************************************************************************)

(* Where a call of write, and one of read, is.                              *)
WriterPcs ==
  {"idle", "load", "look", "drop", "claim", "copy", "overwrite", "advance", "recycle"}
ReaderPcs == {"rest", "bound", "copy", "advance"}

(* What a call has loaded.                                                  *)
WriterStates == [pc : WriterPcs, producer : Nat, consumer : Nat, frame : Nat]
ReaderStates ==
  [pc : ReaderPcs, consumer : Nat, producer : Nat, got : Nat \cup {Torn}]

(* The header of the ring and the statistics.                               *)
CountTypes ==
  /\ policy \in {"DropNewest", "DropOldest"} /\ callers \subseteq ShmWriters
  /\ producer_seq \in Nat /\ consumer_seq \in Nat
  /\ total_written \in Nat /\ total_dropped \in Nat
  /\ offered \in Nat /\ refused \in Nat
  /\ overwritten_count \in Nat /\ overflow \in BOOLEAN

(* The slots, and the calls under way.                                      *)
ThreadTypes ==
  /\ slot \in [0..Slots-1 -> Nat]
  /\ w \in [ShmWriters -> WriterStates]
  /\ r \in [ShmReaders -> ReaderStates]

ShmTypes == CountTypes /\ ThreadTypes

(* What a reader or a writer has loaded is not ahead of the cursors. *)
CursorsInv ==
  /\ consumer_seq <= producer_seq
  /\ \A x \in ShmReaders :
       /\ r[x].pc = "bound" => r[x].consumer <= consumer_seq
       /\ r[x].pc \in {"copy", "advance"} =>
            r[x].consumer < r[x].producer /\ r[x].producer <= producer_seq
  /\ \A x \in ShmWriters :
       /\ w[x].pc \in {"claim", "overwrite", "advance", "recycle"} =>
            w[x].consumer <= consumer_seq
       /\ w[x].pc = "claim" => w[x].producer - w[x].consumer < Slots
       /\ w[x].pc = "recycle" => w[x].consumer < producer_seq

(* Nothing is overwritten, or one writer overwrites.                        *)
Bounded == policy = "DropNewest" \/ Cardinality(callers) = 1

(* Where overwriting is excluded, or left to one writer, what is in flight  *)
(* fits into the ring, but for the frame that writer has added.            *)
FlightInv ==
  /\ \A x \in ShmWriters : x \notin callers => w[x].pc = "idle"
  /\ policy = "DropNewest" =>
       \A x \in ShmWriters : w[x].pc \notin {"overwrite", "advance", "recycle"}
  /\ Bounded =>
       /\ (\A x \in ShmWriters : w[x].pc # "recycle") => producer_seq - consumer_seq <= Slots
       /\ \A x \in ShmWriters :
            /\ w[x].pc \in {"overwrite", "advance"} => producer_seq - w[x].consumer <= Slots
            /\ w[x].pc = "recycle" => producer_seq - w[x].consumer <= Slots + 1

(* The writers in a call, and those that have claimed a number and not      *)
(* counted it.                                                              *)
Busy    == {x \in ShmWriters : w[x].pc # "idle"}
Writing == {x \in ShmWriters : w[x].pc \in {"copy", "recycle"}}

(* Every number claimed is written or being written, and every frame        *)
(* offered is written, dropped, refused or under way.                       *)
AccountsInv ==
  /\ producer_seq = total_written + Cardinality(Writing)
  /\ offered = total_written + total_dropped + refused + Cardinality(Busy)
  /\ overflow <=> overwritten_count > 0

ShmInv == ShmTypes /\ CursorsInv /\ FlightInv /\ AccountsInv

(* There are finitely many of them.                                         *)
LEMMA BusyIsFinite ==
  /\ IsFiniteSet(Busy) /\ Cardinality(Busy) \in Nat
  /\ IsFiniteSet(Writing) /\ Cardinality(Writing) \in Nat
  /\ IsFiniteSet(Overwriting) /\ Cardinality(Overwriting) \in Nat
  BY ShmRingAssumption, FS_Subset, FS_CardinalityType
     DEF Busy, Writing, Overwriting

(* The invariant holds of a fresh ring.                                     *)
LEMMA ShmInitHolds == ShmRingInit => ShmInv
  <1> SUFFICES ASSUME ShmRingInit PROVE ShmInv
    OBVIOUS
  <1>1. ShmTypes
    BY ShmRingAssumption
       DEF ShmRingInit, ShmTypes, CountTypes, ThreadTypes, WriterStates,
           ReaderStates, WriterPcs, ReaderPcs, Idle, Rest
  <1>2. Busy = {} /\ Writing = {}
    BY DEF ShmRingInit, Busy, Writing, Idle
  <1>3. CursorsInv /\ FlightInv
    BY ShmRingAssumption DEF ShmRingInit, CursorsInv, FlightInv, Idle, Rest
  <1>4. AccountsInv
    BY <1>2, FS_EmptySet DEF ShmRingInit, AccountsInv
  <1> QED BY <1>1, <1>3, <1>4 DEF ShmInv

(* It implies the property: the accounts settle when nobody writes.         *)
LEMMA ShmInvBounds == ShmInv => WatermarkHolds
  <1> SUFFICES ASSUME ShmInv PROVE WatermarkHolds
    OBVIOUS
  <1> USE DEF ShmInv
  <1>1. ASSUME Bounded
        PROVE  producer_seq - consumer_seq <= Slots + Cardinality(Overwriting)
    <2>1. /\ producer_seq \in Nat /\ consumer_seq \in Nat /\ Slots \in Nat
          /\ Cardinality(Overwriting) \in Nat
      BY BusyIsFinite, ShmRingAssumption
         DEF ShmTypes, CountTypes, ThreadTypes, WriterStates
    <2>2. CASE \A x \in ShmWriters : w[x].pc # "recycle"
      BY <1>1, <2>1, <2>2 DEF FlightInv
    <2>3. ASSUME NEW x \in ShmWriters, w[x].pc = "recycle"
          PROVE  producer_seq - consumer_seq <= Slots + Cardinality(Overwriting)
      <3>1. w[x].consumer \in Nat
        BY DEF ShmTypes, CountTypes, ThreadTypes, WriterStates
      <3>2. /\ producer_seq - w[x].consumer <= Slots + 1
            /\ w[x].consumer <= consumer_seq
        BY <1>1, <2>3 DEF FlightInv, CursorsInv
      <3>3. Cardinality(Overwriting) # 0
        BY <2>3, BusyIsFinite, FS_EmptySet DEF Overwriting
      <3> QED BY <2>1, <3>1, <3>2, <3>3
    <2> QED BY <2>2, <2>3
  <1>2. ASSUME \A x \in ShmWriters : w[x].pc = "idle"
        PROVE  /\ total_written = producer_seq
               /\ offered = total_written + total_dropped + refused
    <2>1. Busy = {} /\ Writing = {}
      BY <1>2 DEF Busy, Writing
    <2>2. Cardinality(Busy) = 0 /\ Cardinality(Writing) = 0
      <3>1. Cardinality({}) = 0
        BY FS_EmptySet
      <3> QED BY ONLY <2>1, <3>1, Zenon
    <2> QED BY <2>2 DEF AccountsInv, ShmTypes, CountTypes
  <1> QED BY <1>1, <1>2 DEF WatermarkHolds, Bounded, CursorsInv, AccountsInv

(* The counts stay counts.                                                  *)
LEMMA CountTypesKeep == ASSUME CountTypes, ShmRingNext PROVE CountTypes'
  <1> USE DEF CountTypes, settings, ring, tally
  <1>1. ASSUME NEW x \in callers, NEW fits \in BOOLEAN, Offer(x, fits)
        PROVE  CountTypes'
    BY <1>1 DEF Offer
  <1>2. ASSUME NEW x \in callers, DropNewest(x) PROVE CountTypes'
    BY <1>2 DEF DropNewest, Step
  <1>3. ASSUME NEW x \in callers, Claim(x) PROVE CountTypes'
    BY <1>3 DEF Claim, Step
  <1>4. ASSUME NEW x \in callers, CopyClaimed(x) PROVE CountTypes'
    BY <1>4 DEF CopyClaimed, Step, Count
  <1>5. ASSUME NEW x \in callers, AdvanceProducer(x) PROVE CountTypes'
    BY <1>5 DEF AdvanceProducer, Step
  <1>6. ASSUME NEW x \in callers, Recycle(x) PROVE CountTypes'
    BY <1>6 DEF Recycle, Step, Count
  <1>7. ASSUME NEW x \in ShmReaders, Consume(x) PROVE CountTypes'
    BY <1>7 DEF Consume
  <1>8. CASE UNCHANGED <<settings, producer_seq, consumer_seq, tally>>
    BY <1>8
  <1> QED BY <1>1, <1>2, <1>3, <1>4, <1>5, <1>6, <1>7, <1>8, Zenon
             DEF ShmRingNext, LoadProducer, LoadConsumer, Overwrite, Step,
                 ReadConsumer, ReadProducer, CopyOut

(* What a step of a writer leaves in its locals, and nobody else's.         *)
Moves(x, to, produced, consumed) ==
  /\ w' \in [ShmWriters -> WriterStates]
  /\ w'[x].pc = to /\ w'[x].producer = produced /\ w'[x].consumer = consumed
  /\ \A y \in ShmWriters : y # x => w'[y] = w[y]

(* A step that replaces the state of one writer leaves the others alone.    *)
LEMMA OneWriterMoves ==
  ASSUME ThreadTypes, NEW x \in ShmWriters, NEW state \in WriterStates,
         w' = [w EXCEPT ![x] = state]
  PROVE  Moves(x, state.pc, state.producer, state.consumer)
  BY DEF ThreadTypes, Moves

(* The steps of a writer that load nothing,                                 *)
LEMMA StepMoves ==
  ASSUME ThreadTypes, NEW x \in ShmWriters, NEW from, NEW to \in WriterPcs, Step(x, from, to)
  PROVE  IF to = "idle" THEN Moves(x, to, 0, 0)
                        ELSE Moves(x, to, w[x].producer, w[x].consumer)
  <1>1. w[x] \in WriterStates
    BY DEF ThreadTypes
  <1>2. CASE to = "idle"
    <2>1. /\ Idle \in WriterStates /\ Idle.pc = "idle" /\ Idle.producer = 0
          /\ Idle.consumer = 0
      BY DEF Idle, WriterStates, WriterPcs
    <2>2. w' = [w EXCEPT ![x] = Idle]
      BY <1>2 DEF Step
    <2> QED BY <1>2, <2>1, <2>2, OneWriterMoves
  <1>3. CASE to # "idle"
    <2> DEFINE state == [w[x] EXCEPT !.pc = to]
    <2>1. /\ state \in WriterStates /\ state.pc = to
          /\ state.producer = w[x].producer /\ state.consumer = w[x].consumer
      BY <1>1 DEF WriterStates
    <2>2. w' = [w EXCEPT ![x] = state]
      BY <1>3 DEF Step
    <2> HIDE DEF state
    <2>3. Moves(x, state.pc, state.producer, state.consumer)
      BY <2>1, <2>2, OneWriterMoves
    <2> QED BY <1>3, <2>1, <2>3
  <1> QED BY <1>2, <1>3

(* the begin of its call,                                                   *)
LEMMA OfferMoves ==
  ASSUME CountTypes, ThreadTypes, NEW x \in ShmWriters, NEW fits \in BOOLEAN, Offer(x, fits)
  PROVE  IF fits THEN Moves(x, "load", w[x].producer, w[x].consumer)
                 ELSE w' = w
  <1>1. w[x] \in WriterStates /\ offered + 1 \in Nat
    BY DEF CountTypes, ThreadTypes
  <1> DEFINE state == [w[x] EXCEPT !.pc = "load", !.frame = offered + 1]
  <1>2. /\ state \in WriterStates /\ state.pc = "load"
        /\ state.producer = w[x].producer /\ state.consumer = w[x].consumer
    BY <1>1 DEF WriterStates, WriterPcs
  <1>3. w' = IF fits THEN [w EXCEPT ![x] = state] ELSE w
    BY DEF Offer
  <1> HIDE DEF state
  <1>4. w' = [w EXCEPT ![x] = state] => Moves(x, state.pc, state.producer, state.consumer)
    BY <1>2, OneWriterMoves
  <1> QED BY <1>2, <1>3, <1>4

(* its load of the producer's cursor,                                       *)
LEMMA LoadProducerMoves ==
  ASSUME CountTypes, ThreadTypes, NEW x \in ShmWriters, LoadProducer(x)
  PROVE  Moves(x, "look", producer_seq, w[x].consumer)
  <1> DEFINE state == [w[x] EXCEPT !.pc = "look", !.producer = producer_seq]
  <1>1. /\ state \in WriterStates /\ state.pc = "look"
        /\ state.producer = producer_seq /\ state.consumer = w[x].consumer
    BY DEF WriterStates, WriterPcs, CountTypes, ThreadTypes
  <1>2. w' = [w EXCEPT ![x] = state]
    BY DEF LoadProducer
  <1> HIDE DEF state
  <1> QED BY <1>1, <1>2, OneWriterMoves

(* What it does once it has loaded both cursors.                            *)
Looks(x) ==
  IF ~IsFull(w[x].producer, consumer_seq) THEN "claim"
  ELSE IF policy = "DropNewest" THEN "drop" ELSE "overwrite"

(* and its load of the consumer's.                                          *)
LEMMA LoadConsumerMoves ==
  ASSUME CountTypes, ThreadTypes, NEW x \in ShmWriters, LoadConsumer(x)
  PROVE  Moves(x, Looks(x), w[x].producer, consumer_seq)
  <1> DEFINE state == [w[x] EXCEPT !.pc = Looks(x), !.consumer = consumer_seq]
  <1>1. Looks(x) \in WriterPcs
    BY DEF Looks, WriterPcs
  <1>2. /\ state \in WriterStates /\ state.pc = Looks(x)
        /\ state.producer = w[x].producer /\ state.consumer = consumer_seq
    BY <1>1 DEF WriterStates, CountTypes, ThreadTypes
  <1>3. w' = [w EXCEPT ![x] = state]
    BY DEF LoadConsumer, Looks
  <1> HIDE DEF state
  <1> QED BY <1>2, <1>3, OneWriterMoves

(* The locals of the calls stay cursors.                                    *)
LEMMA ThreadTypesKeep == ASSUME ShmTypes, ShmRingNext PROVE ThreadTypes'
  <1> USE DEF ShmTypes
  <1>1. callers \subseteq ShmWriters /\ \A x \in ShmWriters : w[x].frame \in Nat
    BY DEF CountTypes, ThreadTypes, WriterStates
  <1>2. ASSUME NEW x \in callers, NEW fits \in BOOLEAN, Offer(x, fits)
        PROVE  ThreadTypes'
    <2>1. w' \in [ShmWriters -> WriterStates]
      BY <1>1, <1>2, OfferMoves DEF Moves, ThreadTypes
    <2> QED BY <1>2, <2>1 DEF Offer, ring, ThreadTypes
  <1>3. ASSUME NEW x \in callers, LoadProducer(x) PROVE ThreadTypes'
    <2>1. w' \in [ShmWriters -> WriterStates]
      BY <1>1, <1>3, LoadProducerMoves DEF Moves
    <2> QED BY <1>3, <2>1 DEF LoadProducer, ring, ThreadTypes
  <1>4. ASSUME NEW x \in callers, LoadConsumer(x) PROVE ThreadTypes'
    <2>1. w' \in [ShmWriters -> WriterStates]
      BY <1>1, <1>4, LoadConsumerMoves DEF Moves
    <2> QED BY <1>4, <2>1 DEF LoadConsumer, ring, ThreadTypes
  <1>5. ASSUME NEW x \in ShmWriters, NEW from, NEW to \in WriterPcs, Step(x, from, to),
               NEW i \in Int, slot' \in {slot, [slot EXCEPT ![i % Slots] = w[x].frame]}
        PROVE  ThreadTypes'
    <2>1. w' \in [ShmWriters -> WriterStates]
      BY <1>5, StepMoves DEF Moves
    <2>2. slot' \in [0..Slots-1 -> Nat]
      BY <1>1, <1>5, ShmRingAssumption DEF ThreadTypes
    <2> QED BY <1>5, <2>1, <2>2 DEF Step, ThreadTypes
  <1>6. ASSUME NEW x \in callers,
               \/ DropNewest(x) \/ Claim(x) \/ CopyClaimed(x) \/ Overwrite(x)
               \/ AdvanceProducer(x) \/ Recycle(x)
        PROVE  ThreadTypes'
    <2>1. w[x].producer \in Int /\ w[x].consumer \in Int
      BY <1>1 DEF ThreadTypes, WriterStates
    <2>2. \E from, to \in WriterPcs : Step(x, from, to)
      BY <1>6
         DEF DropNewest, Claim, CopyClaimed, Overwrite, AdvanceProducer,
             Recycle, WriterPcs
    <2>3. slot' \in {slot, [slot EXCEPT ![w[x].producer % Slots] = w[x].frame],
                     [slot EXCEPT ![w[x].consumer % Slots] = w[x].frame]}
      BY <1>6
         DEF DropNewest, Claim, CopyClaimed, Overwrite, AdvanceProducer,
             Recycle, ring
    <2> QED BY <1>1, <1>5, <2>1, <2>2, <2>3
  <1>7. ASSUME NEW x \in ShmReaders, ReadConsumer(x) PROVE ThreadTypes'
    BY <1>7
       DEF ReadConsumer, ring, CountTypes, ThreadTypes, ReaderStates, ReaderPcs
  <1>8. ASSUME NEW x \in ShmReaders, ReadProducer(x) PROVE ThreadTypes'
    BY <1>8
       DEF ReadProducer, ring, CountTypes, ThreadTypes, ReaderStates,
           ReaderPcs, Rest
  <1>9. ASSUME NEW x \in ShmReaders, CopyOut(x) PROVE ThreadTypes'
    <2>1. r[x].consumer % Slots \in 0..Slots-1
      BY ShmRingAssumption DEF ThreadTypes, ReaderStates
    <2>2. Visible(r[x].consumer % Slots) \subseteq Nat \cup {Torn}
      BY <1>1, <2>1 DEF Visible, ThreadTypes
    <2>3. PICK f \in Nat \cup {Torn} :
            r' = [r EXCEPT ![x] = [r[x] EXCEPT !.pc = "advance", !.got = f]]
      BY <1>9, <2>2 DEF CopyOut
    <2>4. [r[x] EXCEPT !.pc = "advance", !.got = f] \in ReaderStates
      BY DEF ThreadTypes, ReaderStates, ReaderPcs
    <2> QED BY <1>9, <2>3, <2>4 DEF CopyOut, ring, ThreadTypes
  <1>10. ASSUME NEW x \in ShmReaders, Consume(x) PROVE ThreadTypes'
    <2> DEFINE moved == [pc |-> "copy", consumer |-> r[x].consumer + 1,
                        producer |-> r[x].producer, got |-> 0]
    <2>1. Rest \in ReaderStates
      BY DEF Rest, ReaderStates, ReaderPcs
    <2>2. moved \in ReaderStates
      BY DEF ThreadTypes, ReaderStates, ReaderPcs
    <2>3. r' \in {[r EXCEPT ![x] = Rest], [r EXCEPT ![x] = moved]}
      BY <1>10 DEF Consume
    <2> HIDE DEF moved
    <2> QED BY <1>10, <2>1, <2>2, <2>3 DEF Consume, ThreadTypes
  <1> QED BY <1>2, <1>3, <1>4, <1>6, <1>7, <1>8, <1>9, <1>10 DEF ShmRingNext

(* Where a writer still uses the consumer's cursor it loaded.               *)
Loaded == {"claim", "overwrite", "advance", "recycle"}

(* Cursors only advance, the consumed's behind the produced's; the locals   *)
(* that are not loaded anew stay behind them.                              *)
LEMMA WritersKeepCursors ==
  ASSUME ShmTypes, CursorsInv, ShmTypes', NEW x \in ShmWriters, NEW to \in WriterPcs,
         NEW produced, NEW consumed, Moves(x, to, produced, consumed), r' = r,
         producer_seq <= producer_seq', consumer_seq <= consumer_seq',
         consumer_seq' <= producer_seq',
         to \in Loaded => consumed <= consumer_seq',
         to = "claim" => produced - consumed < Slots,
         to = "recycle" => consumed < producer_seq'
  PROVE  CursorsInv'
  <1> USE DEF ShmTypes, CountTypes, ThreadTypes, WriterStates, ReaderStates
  <1>1. ASSUME NEW y \in ShmReaders
        PROVE  /\ r'[y].pc = "bound" => r'[y].consumer <= consumer_seq'
               /\ r'[y].pc \in {"copy", "advance"} =>
                    /\ r'[y].consumer < r'[y].producer
                    /\ r'[y].producer <= producer_seq'
    <2>1. /\ r[y].pc = "bound" => r[y].consumer <= consumer_seq
          /\ r[y].pc \in {"copy", "advance"} =>
               r[y].consumer < r[y].producer /\ r[y].producer <= producer_seq
      BY DEF CursorsInv
    <2>2. r[y] \in ReaderStates /\ r'[y] = r[y]
      OBVIOUS
    <2>3. /\ r[y].consumer \in Nat /\ r[y].producer \in Nat
          /\ consumer_seq \in Nat /\ consumer_seq' \in Nat
          /\ producer_seq \in Nat /\ producer_seq' \in Nat
      BY <2>2
    <2> HIDE DEF ShmTypes, CountTypes, ThreadTypes, WriterStates, ReaderStates
    <2> QED BY <2>1, <2>2, <2>3
  <1>2. ASSUME NEW y \in ShmWriters
        PROVE  /\ w'[y].pc \in Loaded => w'[y].consumer <= consumer_seq'
               /\ w'[y].pc = "claim" => w'[y].producer - w'[y].consumer < Slots
               /\ w'[y].pc = "recycle" => w'[y].consumer < producer_seq'
    <2>1. CASE y = x
      BY <2>1 DEF Moves
    <2>2. CASE y # x
      <3>1. w'[y] = w[y] /\ w[y] \in WriterStates
        BY <2>2 DEF Moves
      <3>2. /\ w[y].pc \in Loaded => w[y].consumer <= consumer_seq
            /\ w[y].pc = "claim" => w[y].producer - w[y].consumer < Slots
            /\ w[y].pc = "recycle" => w[y].consumer < producer_seq
        BY DEF CursorsInv, Loaded
      <3>3. /\ w[y].consumer \in Nat /\ consumer_seq \in Nat /\ consumer_seq' \in Nat
            /\ producer_seq \in Nat /\ producer_seq' \in Nat
        BY <3>1
      <3> HIDE DEF ShmTypes, CountTypes, ThreadTypes, WriterStates, ReaderStates
      <3> QED BY <3>1, <3>2, <3>3
    <2> QED BY <2>1, <2>2
  <1> QED BY <1>1, <1>2 DEF CursorsInv, Loaded

(* Every step keeps the order of the cursors.                               *)
LEMMA CursorsKeep == ASSUME ShmInv, ShmTypes', ShmRingNext PROVE CursorsInv'
  <1> USE DEF ShmInv, settings, ring, tally
  <1>0. /\ producer_seq \in Nat /\ consumer_seq \in Nat
        /\ consumer_seq <= producer_seq
        /\ producer_seq' \in Nat /\ consumer_seq' \in Nat
        /\ callers \subseteq ShmWriters
        /\ CountTypes /\ ThreadTypes /\ CursorsInv
    BY DEF ShmTypes, CountTypes, CursorsInv
  <1>1. ASSUME NEW x \in callers, NEW fits \in BOOLEAN, Offer(x, fits)
        PROVE  CursorsInv'
    <2>1. UNCHANGED <<producer_seq, consumer_seq, r>>
      BY <1>1 DEF Offer
    <2>2. CASE fits
      <3>1. Moves(x, "load", w[x].producer, w[x].consumer)
        BY <1>0, <1>1, <2>2, OfferMoves
      <3> QED BY <1>0, <2>1, <3>1, WritersKeepCursors DEF Loaded, WriterPcs
    <2>3. CASE ~fits
      BY <1>0, <1>1, <2>1, <2>3, OfferMoves DEF CursorsInv
    <2> QED BY <2>2, <2>3
  <1>2. ASSUME NEW x \in callers, LoadProducer(x) PROVE CursorsInv'
    <2>1. UNCHANGED <<producer_seq, consumer_seq, r>>
      BY <1>2 DEF LoadProducer
    <2>2. Moves(x, "look", producer_seq, w[x].consumer)
      BY <1>0, <1>2, LoadProducerMoves
    <2> QED BY <1>0, <2>1, <2>2, WritersKeepCursors DEF Loaded, WriterPcs
  <1>3. ASSUME NEW x \in callers, LoadConsumer(x) PROVE CursorsInv'
    <2>1. UNCHANGED <<producer_seq, consumer_seq, r>>
      BY <1>3 DEF LoadConsumer
    <2>2. Moves(x, Looks(x), w[x].producer, consumer_seq)
      BY <1>0, <1>3, LoadConsumerMoves
    <2>3. Looks(x) \in WriterPcs /\ Looks(x) # "recycle"
      BY DEF Looks, WriterPcs
    <2>4. Looks(x) = "claim" => w[x].producer - consumer_seq < Slots
      <3>1. w[x].producer \in Nat /\ Slots \in Nat
        BY <1>0, ShmRingAssumption DEF ThreadTypes, WriterStates
      <3> QED BY <1>0, <3>1 DEF Looks, IsFull
    <2> QED BY <1>0, <2>1, <2>2, <2>3, <2>4, WritersKeepCursors
  <1>4. ASSUME NEW x \in callers, DropNewest(x) \/ CopyClaimed(x)
        PROVE  CursorsInv'
    <2>1. UNCHANGED <<producer_seq, consumer_seq, r>>
      BY <1>4 DEF DropNewest, CopyClaimed, Step
    <2>2. Moves(x, "idle", 0, 0)
      BY <1>0, <1>4, StepMoves DEF DropNewest, CopyClaimed, WriterPcs
    <2> QED BY <1>0, <2>1, <2>2, WritersKeepCursors DEF Loaded, WriterPcs
  <1>5. ASSUME NEW x \in callers, Claim(x) PROVE CursorsInv'
    <2>1. /\ producer_seq' \in {producer_seq, producer_seq + 1}
          /\ consumer_seq' = consumer_seq /\ r' = r
      BY <1>5 DEF Claim, Step
    <2>2. PICK to \in {"copy", "load"} : Moves(x, to, w[x].producer, w[x].consumer)
      BY <1>0, <1>5, StepMoves DEF Claim, WriterPcs
    <2> QED BY <1>0, <2>1, <2>2, WritersKeepCursors DEF Loaded, WriterPcs
  <1>6. ASSUME NEW x \in callers, Overwrite(x) PROVE CursorsInv'
    <2>1. UNCHANGED <<producer_seq, consumer_seq, r>> /\ w[x].pc = "overwrite"
      BY <1>6 DEF Overwrite, Step
    <2>2. Moves(x, "advance", w[x].producer, w[x].consumer)
      BY <1>0, <1>6, StepMoves DEF Overwrite, WriterPcs
    <2>3. w[x].consumer <= consumer_seq
      BY <1>0, <2>1 DEF CursorsInv
    <2> QED BY <1>0, <2>1, <2>2, <2>3, WritersKeepCursors DEF Loaded, WriterPcs
  <1>7. ASSUME NEW x \in callers, AdvanceProducer(x) PROVE CursorsInv'
    <2>1. /\ producer_seq' = producer_seq + 1 /\ UNCHANGED <<consumer_seq, r>>
          /\ w[x].pc = "advance"
      BY <1>7 DEF AdvanceProducer, Step
    <2>2. Moves(x, "recycle", w[x].producer, w[x].consumer)
      BY <1>0, <1>7, StepMoves DEF AdvanceProducer, WriterPcs
    <2>3. w[x].consumer <= consumer_seq /\ w[x].consumer \in Nat
      BY <1>0, <2>1 DEF CursorsInv, ThreadTypes, WriterStates
    <2> QED BY <1>0, <2>1, <2>2, <2>3, WritersKeepCursors DEF Loaded, WriterPcs
  <1>8. ASSUME NEW x \in callers, Recycle(x) PROVE CursorsInv'
    <2>1. /\ producer_seq' = producer_seq /\ r' = r /\ w[x].pc = "recycle"
          /\ consumer_seq' = IF consumer_seq = w[x].consumer THEN consumer_seq + 1
                                                             ELSE consumer_seq
      BY <1>8 DEF Recycle, Step
    <2>2. Moves(x, "idle", 0, 0)
      BY <1>0, <1>8, StepMoves DEF Recycle, WriterPcs
    <2>3. w[x].consumer < producer_seq
      BY <1>0, <2>1 DEF CursorsInv
    <2>4. consumer_seq <= consumer_seq' /\ consumer_seq' <= producer_seq
      BY <1>0, <2>1, <2>3
    <2> QED BY <1>0, <2>1, <2>2, <2>4, WritersKeepCursors DEF Loaded, WriterPcs
  <1>9. ASSUME NEW x \in ShmReaders, ReadConsumer(x) PROVE CursorsInv'
    BY <1>0, <1>9 DEF ReadConsumer, ThreadTypes, ReaderStates, CursorsInv
  <1>10. ASSUME NEW x \in ShmReaders, ReadProducer(x) PROVE CursorsInv'
    <2>1. UNCHANGED <<producer_seq, consumer_seq, w>> /\ r[x].pc = "bound"
      BY <1>10 DEF ReadProducer
    <2>2. \A y \in ShmReaders : y # x => r'[y] = r[y]
      BY <1>0, <1>10 DEF ReadProducer, ThreadTypes
    <2>3. \/ r'[x].pc = "rest"
          \/ /\ r'[x].pc = "copy" /\ r'[x].consumer = r[x].consumer
             /\ r'[x].producer = producer_seq /\ r[x].consumer # producer_seq
      BY <1>0, <1>10 DEF ReadProducer, ThreadTypes, ReaderStates, Rest
    <2>4. r[x].consumer <= consumer_seq /\ r[x].consumer \in Nat
      BY <1>0, <2>1 DEF CursorsInv, ThreadTypes, ReaderStates
    <2>5. r'[x].pc = "copy" => r'[x].consumer < r'[x].producer /\ r'[x].producer <= producer_seq
      BY <1>0, <2>3, <2>4
    <2> QED BY <1>0, <2>1, <2>2, <2>3, <2>5 DEF CursorsInv
  <1>11. ASSUME NEW x \in ShmReaders, CopyOut(x) PROVE CursorsInv'
    <2>1. UNCHANGED <<producer_seq, consumer_seq, w>> /\ r[x].pc = "copy"
      BY <1>11 DEF CopyOut
    <2>2. PICK f : r' = [r EXCEPT ![x] = [r[x] EXCEPT !.pc = "advance", !.got = f]]
      BY <1>11 DEF CopyOut
    <2>3. /\ r'[x].pc = "advance" /\ r'[x].consumer = r[x].consumer
          /\ r'[x].producer = r[x].producer
          /\ \A y \in ShmReaders : y # x => r'[y] = r[y]
      BY <1>0, <2>2 DEF ThreadTypes, ReaderStates
    <2> QED BY <1>0, <2>1, <2>3 DEF CursorsInv
  <1>12. ASSUME NEW x \in ShmReaders, Consume(x) PROVE CursorsInv'
    <2>1. /\ UNCHANGED <<producer_seq, w>> /\ r[x].pc = "advance"
          /\ consumer_seq' = IF consumer_seq = r[x].consumer THEN consumer_seq + 1
                                                             ELSE consumer_seq
      BY <1>12 DEF Consume
    <2>2. /\ r[x].consumer \in Nat /\ r[x].producer \in Nat
          /\ r[x].consumer < r[x].producer /\ r[x].producer <= producer_seq
      BY <1>0, <2>1 DEF CursorsInv, ThreadTypes, ReaderStates
    <2>3. consumer_seq <= consumer_seq' /\ consumer_seq' <= producer_seq
      BY <1>0, <2>1, <2>2
    <2>4. \/ r'[x].pc = "rest"
          \/ /\ r'[x].pc = "copy" /\ r'[x].consumer = r[x].consumer + 1
             /\ r'[x].producer = r[x].producer
             /\ r[x].consumer + 1 # r[x].producer
      BY <1>0, <1>12 DEF Consume, ThreadTypes, Rest
    <2>5. \A y \in ShmReaders : y # x => r'[y] = r[y]
      BY <1>0, <1>12 DEF Consume, ThreadTypes
    <2>6. /\ r'[x].pc # "bound" /\ r'[x].pc # "advance"
          /\ r'[x].pc = "copy" =>
               r'[x].consumer < r'[x].producer /\ r'[x].producer <= producer_seq
      BY <2>2, <2>4
    <2>7. ASSUME NEW y \in ShmWriters PROVE w[y].consumer \in Nat
      BY <1>0 DEF ThreadTypes, WriterStates
    <2>8. ASSUME NEW y \in ShmReaders PROVE r[y].consumer \in Nat
      BY <1>0 DEF ThreadTypes, ReaderStates
    <2> QED BY <1>0, <2>1, <2>3, <2>5, <2>6, <2>7, <2>8 DEF CursorsInv
  <1> QED BY <1>1, <1>2, <1>3, <1>4, <1>5, <1>6, <1>7, <1>8, <1>9, <1>10,
             <1>11, <1>12
             DEF ShmRingNext

(* Where one writer calls, it is the one that steps.                        *)
LEMMA OneCaller ==
  ASSUME ShmTypes, Cardinality(callers) = 1, NEW x \in callers
  PROVE  callers = {x}
  <1>1. IsFiniteSet(callers)
    BY ShmRingAssumption, FS_Subset DEF ShmTypes, CountTypes
  <1>2. PICK c : callers = {c}
    BY <1>1, FS_Singleton
  <1> QED BY <1>2

(* What fits into the ring still fits when the consumer has moved on.       *)
LEMMA RoomGrows ==
  ASSUME NEW p \in Nat, NEW c \in Nat, NEW d \in Nat, NEW s \in Nat,
         c <= d, p - c <= s
  PROVE  p - d <= s
  OBVIOUS

(* A step of the reader, or one of a writer that does not overwrite, adds   *)
(* at most the frame it has found room for.                                *)
LEMMA ReadersKeepFlight ==
  ASSUME ShmTypes, FlightInv, consumer_seq' \in Nat, consumer_seq <= consumer_seq',
         policy' = policy, callers' = callers, producer_seq' = producer_seq, w' = w
  PROVE  FlightInv'
  <1>1. /\ producer_seq \in Nat /\ consumer_seq \in Nat /\ Slots \in Nat
        /\ consumer_seq' \in Nat /\ consumer_seq <= consumer_seq'
        /\ producer_seq' = producer_seq
    BY ShmRingAssumption DEF ShmTypes, CountTypes
  <1>2. Bounded' = Bounded
    BY DEF Bounded
  <1>3. producer_seq - consumer_seq <= Slots => producer_seq - consumer_seq' <= Slots
    BY <1>1, RoomGrows
  <1> QED BY <1>2, <1>3 DEF FlightInv

(* Where a frame may be overwritten under the bound, no other writer is in  *)
(* a call.                                                                  *)
LEMMA OthersIdle ==
  ASSUME ShmTypes, FlightInv, NEW x \in callers, policy # "DropNewest", Bounded,
         NEW y \in ShmWriters, y # x
  PROVE  w[y].pc = "idle"
  BY OneCaller DEF FlightInv, Bounded

(* A step of a writer keeps the bound on what is in flight.                 *)
LEMMA WritersKeepFlight ==
  ASSUME ShmTypes, FlightInv, NEW x \in callers, NEW to \in WriterPcs,
         NEW produced, NEW consumed, Moves(x, to, produced, consumed),
         UNCHANGED <<policy, callers>>,
         w[x].pc # "recycle", to # "recycle",
         to \in {"overwrite", "advance"} =>
           policy # "DropNewest" /\ (Bounded => producer_seq' - consumed <= Slots),
         \/ producer_seq' = producer_seq /\ consumer_seq' = consumer_seq
         \/ producer_seq' - consumer_seq' <= Slots
  PROVE  FlightInv'
  <1>1. x \in ShmWriters /\ Bounded' = Bounded
    BY DEF ShmTypes, CountTypes, Bounded
  <1>2. \A y \in ShmWriters : y \notin callers => w'[y].pc = "idle"
    BY DEF FlightInv, Moves
  <1>3. policy = "DropNewest" =>
          \A y \in ShmWriters : w'[y].pc \notin {"overwrite", "advance", "recycle"}
    BY DEF FlightInv, Moves
  <1>4. ASSUME Bounded, \A y \in ShmWriters : w'[y].pc # "recycle"
        PROVE  producer_seq' - consumer_seq' <= Slots
    <2>1. \A y \in ShmWriters : w[y].pc # "recycle"
      BY <1>4 DEF Moves
    <2> QED BY <1>4, <2>1 DEF FlightInv
  <1>5. ASSUME Bounded, NEW y \in ShmWriters
        PROVE  /\ w'[y].pc \in {"overwrite", "advance"} => producer_seq' - w'[y].consumer <= Slots
               /\ w'[y].pc = "recycle" => producer_seq' - w'[y].consumer <= Slots + 1
    <2>1. CASE y = x
      BY <1>1, <1>5, <2>1 DEF Moves
    <2>2. CASE y # x
      BY <1>3, <1>5, <2>2, OthersIdle DEF Moves
    <2> QED BY <2>1, <2>2
  <1> QED BY <1>1, <1>2, <1>3, <1>4, <1>5 DEF FlightInv

(* So does every step.                                                      *)
LEMMA FlightKeeps == ASSUME ShmInv, ShmTypes', ShmRingNext PROVE FlightInv'
  <1> USE DEF ShmInv, settings, ring, tally
  <1>0. /\ producer_seq \in Nat /\ consumer_seq \in Nat /\ Slots \in Nat
        /\ consumer_seq <= producer_seq /\ producer_seq' \in Nat
        /\ consumer_seq' \in Nat
        /\ callers \subseteq ShmWriters /\ CountTypes /\ ThreadTypes
        /\ policy \in {"DropNewest", "DropOldest"}
    BY ShmRingAssumption DEF ShmTypes, CountTypes, CursorsInv
  <1>1. ASSUME NEW x \in callers, NEW fits \in BOOLEAN, Offer(x, fits)
        PROVE  FlightInv'
    <2>1. /\ UNCHANGED <<policy, callers, producer_seq, consumer_seq>>
          /\ w[x].pc = "idle"
      BY <1>1 DEF Offer
    <2>2. CASE fits
      <3>1. Moves(x, "load", w[x].producer, w[x].consumer)
        BY <1>0, <1>1, <2>2, OfferMoves
      <3> QED BY <1>0, <2>1, <3>1, WritersKeepFlight DEF WriterPcs
    <2>3. CASE ~fits
      BY <1>0, <1>1, <2>1, <2>3, OfferMoves, ReadersKeepFlight
    <2> QED BY <2>2, <2>3
  <1>2. ASSUME NEW x \in callers, LoadProducer(x) PROVE FlightInv'
    <2>1. /\ UNCHANGED <<policy, callers, producer_seq, consumer_seq>>
          /\ w[x].pc = "load"
      BY <1>2 DEF LoadProducer
    <2>2. Moves(x, "look", producer_seq, w[x].consumer)
      BY <1>0, <1>2, LoadProducerMoves
    <2> QED BY <1>0, <2>1, <2>2, WritersKeepFlight DEF WriterPcs
  <1>3. ASSUME NEW x \in callers, LoadConsumer(x) PROVE FlightInv'
    <2>1. /\ UNCHANGED <<policy, callers, producer_seq, consumer_seq>>
          /\ w[x].pc = "look"
      BY <1>3 DEF LoadConsumer
    <2>2. Moves(x, Looks(x), w[x].producer, consumer_seq)
      BY <1>0, <1>3, LoadConsumerMoves
    <2>3. /\ Looks(x) \in WriterPcs /\ Looks(x) # "recycle"
          /\ Looks(x) # "advance"
          /\ Looks(x) = "overwrite" => policy # "DropNewest"
      BY DEF Looks, WriterPcs
    <2>4. ASSUME Looks(x) = "overwrite", Bounded
          PROVE  producer_seq - consumer_seq <= Slots
      <3>1. \A y \in ShmWriters : w[y].pc # "recycle"
        BY <2>1, <2>3, <2>4, OthersIdle
      <3> QED BY <2>4, <3>1 DEF FlightInv
    <2> QED BY <1>0, <2>1, <2>2, <2>3, <2>4, WritersKeepFlight
  <1>4. ASSUME NEW x \in callers, DropNewest(x) \/ CopyClaimed(x)
        PROVE  FlightInv'
    <2>1. /\ UNCHANGED <<policy, callers, producer_seq, consumer_seq>>
          /\ w[x].pc # "recycle"
      BY <1>4 DEF DropNewest, CopyClaimed, Step
    <2>2. Moves(x, "idle", 0, 0)
      BY <1>0, <1>4, StepMoves DEF DropNewest, CopyClaimed, WriterPcs
    <2> QED BY <1>0, <2>1, <2>2, WritersKeepFlight DEF WriterPcs
  <1>5. ASSUME NEW x \in callers, Claim(x) PROVE FlightInv'
    <2>1. /\ UNCHANGED <<policy, callers, consumer_seq>> /\ w[x].pc = "claim"
          /\ \/ producer_seq' = producer_seq
             \/ producer_seq' = producer_seq + 1 /\ producer_seq = w[x].producer
      BY <1>5 DEF Claim, Step
    <2>2. PICK to \in {"copy", "load"} : Moves(x, to, w[x].producer, w[x].consumer)
      BY <1>0, <1>5, StepMoves DEF Claim, WriterPcs
    <2>3. /\ w[x].consumer \in Nat /\ w[x].producer \in Nat
          /\ w[x].consumer <= consumer_seq
          /\ w[x].producer - w[x].consumer < Slots
      BY <1>0, <2>1 DEF CursorsInv, ThreadTypes, WriterStates
    <2>4. producer_seq' = producer_seq \/ producer_seq' - consumer_seq' <= Slots
      BY <1>0, <2>1, <2>3
    <2> QED BY <1>0, <2>1, <2>2, <2>4, WritersKeepFlight DEF WriterPcs
  <1>6. ASSUME NEW x \in callers, Overwrite(x) PROVE FlightInv'
    <2>1. /\ UNCHANGED <<policy, callers, producer_seq, consumer_seq>>
          /\ w[x].pc = "overwrite"
      BY <1>6 DEF Overwrite, Step
    <2>2. Moves(x, "advance", w[x].producer, w[x].consumer)
      BY <1>0, <1>6, StepMoves DEF Overwrite, WriterPcs
    <2>3. /\ policy # "DropNewest"
          /\ (Bounded => producer_seq - w[x].consumer <= Slots)
      BY <1>0, <2>1 DEF FlightInv
    <2> QED BY <1>0, <2>1, <2>2, <2>3, WritersKeepFlight DEF WriterPcs
  <1>7. ASSUME NEW x \in callers, AdvanceProducer(x) PROVE FlightInv'
    <2>1. /\ UNCHANGED <<policy, callers, consumer_seq>> /\ w[x].pc = "advance"
          /\ producer_seq' = producer_seq + 1
      BY <1>7 DEF AdvanceProducer, Step
    <2>2. Moves(x, "recycle", w[x].producer, w[x].consumer)
      BY <1>0, <1>7, StepMoves DEF AdvanceProducer, WriterPcs
    <2>3. /\ policy # "DropNewest"
          /\ (Bounded => producer_seq - w[x].consumer <= Slots)
          /\ w[x].consumer \in Nat
      BY <1>0, <2>1 DEF FlightInv, ThreadTypes, WriterStates
    <2>4. Bounded' = Bounded /\ policy' # "DropNewest"
      BY <2>1, <2>3 DEF Bounded
    <2>5. \A y \in ShmWriters : y \notin callers' => w'[y].pc = "idle"
      BY <2>1, <2>2 DEF FlightInv, Moves
    <2>6. ASSUME Bounded, NEW y \in ShmWriters
          PROVE  /\ w'[y].pc \in {"overwrite", "advance"} => producer_seq' - w'[y].consumer <= Slots
                 /\ w'[y].pc = "recycle" => producer_seq' - w'[y].consumer <= Slots + 1
      <3>1. CASE y = x
        BY <1>0, <2>1, <2>2, <2>3, <2>6, <3>1 DEF Moves
      <3>2. CASE y # x
        BY <2>2, <2>3, <2>6, <3>2, OthersIdle DEF Moves
      <3> QED BY <3>1, <3>2
    <2>7. w'[x].pc = "recycle" /\ x \in ShmWriters
      BY <1>0, <2>2 DEF Moves
    <2> QED BY <2>4, <2>5, <2>6, <2>7 DEF FlightInv
  <1>8. ASSUME NEW x \in callers, Recycle(x) PROVE FlightInv'
    <2>1. /\ UNCHANGED <<policy, callers, producer_seq>> /\ w[x].pc = "recycle"
          /\ consumer_seq' = IF consumer_seq = w[x].consumer THEN consumer_seq + 1
                                                             ELSE consumer_seq
      BY <1>8 DEF Recycle, Step
    <2>2. Moves(x, "idle", 0, 0)
      BY <1>0, <1>8, StepMoves DEF Recycle, WriterPcs
    <2>3. /\ policy # "DropNewest"
          /\ (Bounded => producer_seq - w[x].consumer <= Slots + 1)
          /\ w[x].consumer \in Nat /\ w[x].consumer <= consumer_seq
      BY <1>0, <2>1 DEF FlightInv, ThreadTypes, WriterStates, CursorsInv
    <2>4. Bounded => producer_seq - consumer_seq' <= Slots
      BY <1>0, <2>1, <2>3
    <2>5. Bounded' = Bounded /\ policy' # "DropNewest"
      BY <2>1, <2>3 DEF Bounded
    <2>6. Bounded => \A y \in ShmWriters : w'[y].pc = "idle"
      BY <2>2, <2>3, OthersIdle DEF Moves
    <2>7. \A y \in ShmWriters : y \notin callers' => w'[y].pc = "idle"
      BY <2>1, <2>2 DEF FlightInv, Moves
    <2> QED BY <2>1, <2>4, <2>5, <2>6, <2>7 DEF FlightInv
  <1>9. ASSUME NEW x \in ShmReaders,
               ReadConsumer(x) \/ ReadProducer(x) \/ CopyOut(x) \/ Consume(x)
        PROVE  FlightInv'
    <2>1. /\ UNCHANGED <<policy, callers, producer_seq, w>>
          /\ consumer_seq' = consumer_seq \/ consumer_seq' = consumer_seq + 1
      BY <1>9 DEF ReadConsumer, ReadProducer, CopyOut, Consume
    <2> QED BY <1>0, <2>1, ReadersKeepFlight
  <1> QED BY <1>1, <1>2, <1>3, <1>4, <1>5, <1>6, <1>7, <1>8, <1>9
             DEF ShmRingNext

(* How a step of a writer changes who is busy and who is writing.           *)
LEMMA BusyMoves ==
  ASSUME NEW x \in ShmWriters, NEW to, NEW produced, NEW consumed, Moves(x, to, produced, consumed)
  PROVE  /\ Busy' = IF to = "idle" THEN Busy \ {x} ELSE Busy \cup {x}
         /\ Writing' = IF to \in {"copy", "recycle"} THEN Writing \cup {x} ELSE Writing \ {x}
  BY DEF Moves, Busy, Writing

(* A step that neither begins nor ends a call, nor claims a number.         *)
LEMMA AccountsStay ==
  ASSUME AccountsInv, Busy' = Busy, Writing' = Writing,
         UNCHANGED <<producer_seq, total_written, total_dropped, offered, refused,
                     overflow, overwritten_count>>
  PROVE  AccountsInv'
  BY DEF AccountsInv

(* Every step keeps the accounts: a call is counted once, at its end.       *)
LEMMA AccountsKeep == ASSUME ShmInv, ShmTypes', ShmRingNext PROVE AccountsInv'
  <1> USE DEF ShmInv, settings, ring, tally
  <1>0. callers \subseteq ShmWriters /\ CountTypes /\ ThreadTypes
    BY DEF ShmTypes, CountTypes
  <1>a. /\ producer_seq \in Nat /\ total_written \in Nat
        /\ total_dropped \in Nat
        /\ offered \in Nat /\ refused \in Nat
        /\ overwritten_count \in Nat /\ overflow \in BOOLEAN
        /\ Cardinality(Busy) \in Nat /\ Cardinality(Writing) \in Nat
        /\ producer_seq = total_written + Cardinality(Writing)
        /\ offered = total_written + total_dropped + refused + Cardinality(Busy)
        /\ overflow <=> overwritten_count > 0
    BY BusyIsFinite DEF ShmTypes, CountTypes, AccountsInv
  <1>1. ASSUME NEW x \in callers, NEW fits \in BOOLEAN, Offer(x, fits)
        PROVE  AccountsInv'
    <2>1. /\ UNCHANGED <<producer_seq, total_written, total_dropped, overflow, overwritten_count>>
          /\ offered' = offered + 1
          /\ refused' = IF fits THEN refused ELSE refused + 1
          /\ x \notin Busy /\ x \notin Writing
      BY <1>1 DEF Offer, Busy, Writing
    <2>2. CASE fits
      <3>1. Moves(x, "load", w[x].producer, w[x].consumer)
        BY <1>0, <1>1, <2>2, OfferMoves
      <3>2. Busy' = Busy \cup {x} /\ Writing' = Writing
        BY <1>0, <2>1, <3>1, BusyMoves
      <3>3. Cardinality(Busy') = Cardinality(Busy) + 1
        BY <2>1, <3>2, BusyIsFinite, FS_AddElement
      <3> QED BY <1>a, <2>1, <2>2, <3>2, <3>3 DEF AccountsInv
    <2>3. CASE ~fits
      <3>1. Busy' = Busy /\ Writing' = Writing
        BY <1>0, <1>1, <2>3, OfferMoves DEF Busy, Writing
      <3> QED BY <1>a, <2>1, <2>3, <3>1 DEF AccountsInv
    <2> QED BY <2>2, <2>3
  <1>2. ASSUME NEW x \in callers, LoadProducer(x) PROVE AccountsInv'
    <2>1. Moves(x, "look", producer_seq, w[x].consumer)
      BY <1>0, <1>2, LoadProducerMoves
    <2>2. Busy' = Busy /\ Writing' = Writing
      <3>1. x \in Busy /\ x \notin Writing
        BY <1>0, <1>2 DEF LoadProducer, Busy, Writing
      <3> QED BY <1>0, <2>1, <3>1, BusyMoves
    <2> QED BY <1>2, <2>2, AccountsStay DEF LoadProducer
  <1>3. ASSUME NEW x \in callers, LoadConsumer(x) PROVE AccountsInv'
    <2>1. Moves(x, Looks(x), w[x].producer, consumer_seq)
      BY <1>0, <1>3, LoadConsumerMoves
    <2>2. Busy' = Busy /\ Writing' = Writing
      <3>1. x \in Busy /\ x \notin Writing
        BY <1>0, <1>3 DEF LoadConsumer, Busy, Writing
      <3>2. Looks(x) \notin {"idle", "copy", "recycle"}
        BY DEF Looks
      <3> QED BY <1>0, <2>1, <3>1, <3>2, BusyMoves
    <2> QED BY <1>3, <2>2, AccountsStay DEF LoadConsumer
  <1>4. ASSUME NEW x \in callers, DropNewest(x) PROVE AccountsInv'
    <2>1. /\ UNCHANGED <<producer_seq, total_written, offered, refused, overflow, overwritten_count>>
          /\ total_dropped' = total_dropped + 1
      BY <1>4 DEF DropNewest, Step
    <2>2. Busy' = Busy \ {x} /\ Writing' = Writing /\ x \in Busy
      <3>1. x \in Busy /\ x \notin Writing
        BY <1>0, <1>4 DEF DropNewest, Step, Busy, Writing
      <3>2. Moves(x, "idle", 0, 0)
        BY <1>0, <1>4, StepMoves DEF DropNewest, WriterPcs
      <3> QED BY <1>0, <3>1, <3>2, BusyMoves
    <2>3. Cardinality(Busy') = Cardinality(Busy) - 1
      BY <2>2, BusyIsFinite, FS_RemoveElement
    <2> QED BY <1>a, <2>1, <2>2, <2>3 DEF AccountsInv
  <1>5. ASSUME NEW x \in callers, Claim(x), producer_seq = w[x].producer
        PROVE  AccountsInv'
    <2>1. /\ UNCHANGED <<total_written, total_dropped, offered, refused, overflow, overwritten_count>>
          /\ producer_seq' = producer_seq + 1
      BY <1>5 DEF Claim
    <2>2. Busy' = Busy /\ Writing' = Writing \cup {x} /\ x \notin Writing
      <3>1. x \in Busy /\ x \notin Writing
        BY <1>0, <1>5 DEF Claim, Step, Busy, Writing
      <3>2. Moves(x, "copy", w[x].producer, w[x].consumer)
        BY <1>0, <1>5, StepMoves DEF Claim, WriterPcs
      <3> QED BY <1>0, <3>1, <3>2, BusyMoves
    <2>3. Cardinality(Writing') = Cardinality(Writing) + 1
      BY <2>2, BusyIsFinite, FS_AddElement
    <2> QED BY <1>a, <2>1, <2>2, <2>3 DEF AccountsInv
  <1>6. ASSUME NEW x \in callers, Claim(x), producer_seq # w[x].producer
        PROVE  AccountsInv'
    <2>1. Busy' = Busy /\ Writing' = Writing
      <3>1. x \in Busy /\ x \notin Writing
        BY <1>0, <1>6 DEF Claim, Step, Busy, Writing
      <3>2. Moves(x, "load", w[x].producer, w[x].consumer)
        BY <1>0, <1>6, StepMoves DEF Claim, WriterPcs
      <3> QED BY <1>0, <3>1, <3>2, BusyMoves
    <2> QED BY <1>6, <2>1, AccountsStay DEF Claim
  <1>7. ASSUME NEW x \in callers, Overwrite(x) PROVE AccountsInv'
    <2>1. Busy' = Busy /\ Writing' = Writing
      <3>1. x \in Busy /\ x \notin Writing
        BY <1>0, <1>7 DEF Overwrite, Step, Busy, Writing
      <3>2. Moves(x, "advance", w[x].producer, w[x].consumer)
        BY <1>0, <1>7, StepMoves DEF Overwrite, WriterPcs
      <3> QED BY <1>0, <3>1, <3>2, BusyMoves
    <2> QED BY <1>7, <2>1, AccountsStay DEF Overwrite
  <1>8. ASSUME NEW x \in callers, AdvanceProducer(x) PROVE AccountsInv'
    <2>1. /\ UNCHANGED <<total_written, total_dropped, offered, refused, overflow, overwritten_count>>
          /\ producer_seq' = producer_seq + 1
      BY <1>8 DEF AdvanceProducer
    <2>2. Busy' = Busy /\ Writing' = Writing \cup {x} /\ x \notin Writing
      <3>1. x \in Busy /\ x \notin Writing
        BY <1>0, <1>8 DEF AdvanceProducer, Step, Busy, Writing
      <3>2. Moves(x, "recycle", w[x].producer, w[x].consumer)
        BY <1>0, <1>8, StepMoves DEF AdvanceProducer, WriterPcs
      <3> QED BY <1>0, <3>1, <3>2, BusyMoves
    <2>3. Cardinality(Writing') = Cardinality(Writing) + 1
      BY <2>2, BusyIsFinite, FS_AddElement
    <2> QED BY <1>a, <2>1, <2>2, <2>3 DEF AccountsInv
  <1>9. ASSUME NEW x \in callers, CopyClaimed(x) \/ Recycle(x)
        PROVE  AccountsInv'
    <2>1. /\ UNCHANGED <<producer_seq, total_dropped, offered, refused>>
          /\ total_written' = total_written + 1
          /\ \/ UNCHANGED <<overflow, overwritten_count>>
             \/ overflow' = TRUE /\ overwritten_count' = overwritten_count + 1
      BY <1>9 DEF CopyClaimed, Recycle, Count
    <2>2. /\ Busy' = Busy \ {x} /\ x \in Busy
          /\ Writing' = Writing \ {x} /\ x \in Writing
      <3>1. x \in Busy /\ x \in Writing
        BY <1>0, <1>9 DEF CopyClaimed, Recycle, Step, Busy, Writing
      <3>2. Moves(x, "idle", 0, 0)
        BY <1>0, <1>9, StepMoves DEF CopyClaimed, Recycle, WriterPcs
      <3> QED BY <1>0, <3>1, <3>2, BusyMoves
    <2>3. /\ Cardinality(Busy') = Cardinality(Busy) - 1
          /\ Cardinality(Writing') = Cardinality(Writing) - 1
      BY <2>2, BusyIsFinite, FS_RemoveElement
    <2>4. overflow' <=> overwritten_count' > 0
      BY <1>a, <2>1
    <2> QED BY <1>a, <2>1, <2>3, <2>4 DEF AccountsInv
  <1>10. ASSUME NEW x \in ShmReaders,
                ReadConsumer(x) \/ ReadProducer(x) \/ CopyOut(x) \/ Consume(x)
         PROVE  AccountsInv'
    BY <1>10, AccountsStay
       DEF ReadConsumer, ReadProducer, CopyOut, Consume, Busy, Writing
  <1> QED BY <1>1, <1>2, <1>3, <1>4, <1>5, <1>6, <1>7, <1>8, <1>9, <1>10
             DEF ShmRingNext

(* Together: the invariant is inductive.                                    *)
LEMMA ShmStepKeeps == ASSUME ShmInv, [ShmRingNext]_shmvars PROVE ShmInv'
  <1>1. CASE ShmRingNext
    <2>1. ShmTypes'
      BY <1>1, CountTypesKeep, ThreadTypesKeep DEF ShmInv, ShmTypes
    <2> QED BY <1>1, <2>1, CursorsKeep, FlightKeeps, AccountsKeep DEF ShmInv
  <1>2. CASE UNCHANGED shmvars
    BY <1>2
       DEF shmvars, settings, ring, tally, ShmInv, ShmTypes, CountTypes,
           ThreadTypes, CursorsInv, FlightInv, AccountsInv, Bounded, Busy,
           Writing
  <1> QED BY <1>1, <1>2

(* For every number of writers, readers and slots: the cursors of the       *)
(* shared ring stay in order and within the ring where the writers may not  *)
(* overwrite or only one of them does, and once no call is under way every  *)
(* frame offered is accounted for once.                                     *)
THEOREM WatermarkIsKept == ShmRingSpec => []WatermarkHolds
  <1> QED BY ShmInitHolds, ShmStepKeeps, ShmInvBounds, PTL DEF ShmRingSpec

(***************************************************************************)
(* Records and vendor names (SifCodec)                                     *)
(*                                                                         *)
(* With one process that sets fields, its table gives a tag to one name,   *)
(* every other table is a part of it, and the slots of a record and of the *)
(* frame are those of the names that were set.                             *)
(***************************************************************************)

SlotSet == [tag : Nat, value : Values \cup {"id", "0"}]
Distinct(slots) == \A i, j \in DOMAIN slots : slots[i].tag = slots[j].tag => i = j

FieldNames(table) == DOMAIN Core \cup DOMAIN table
NameTag(table, name) == IF name \in DOMAIN Core THEN Core[name] ELSE table[name]
HasName(table, tag) == tag = IdTag \/ \E name \in FieldNames(table) : NameTag(table, name) = tag

GoodTable(table, next) ==
  /\ next \in Nat /\ DOMAIN table \subseteq Vendors
  /\ table = [name \in DOMAIN table |-> table[name]]
  /\ \A name \in DOMAIN table : table[name] \in FirstVendorTag..next - 1
  /\ \A m, n \in DOMAIN table : table[m] = table[n] => m = n
  /\ next >= FirstVendorTag

IsRecord(table, rec) ==
  /\ rec = [slots |-> rec.slots, message |-> rec.message, hash |-> rec.hash]
  /\ rec.slots \in Seq(SlotSet) /\ Distinct(rec.slots)
  /\ \A i \in DOMAIN rec.slots : HasName(table, rec.slots[i].tag)
  /\ Stored(rec.message) = rec.message
  /\ rec.hash # <<>> => /\ rec.hash = HashOf(rec)
                        /\ rec.slots # <<>> /\ rec.slots[1].tag = IdTag

Carries(slots, tag, value) == \E i \in DOMAIN slots : slots[i].tag = tag /\ slots[i].value = value

(* The field with the tag is there if the name was set, with its value.     *)
Holds(slots, tag, name, values) ==
  /\ name \in DOMAIN values => Carries(slots, tag, values[name])
  /\ name \notin DOMAIN values => \A i \in DOMAIN slots : slots[i].tag # tag

Accurate(table, names, slots, values) ==
  /\ DOMAIN values \subseteq names
  /\ \A name \in names : Holds(slots, NameTag(table, name), name, values)

PartOf(part, table) == \A m \in DOMAIN part : m \in DOMAIN table /\ table[m] = part[m]

ProcessInv(table, part, made, rec, values) ==
  /\ PartOf(part, table) /\ (~made => DOMAIN part = {})
  /\ IsRecord(table, rec) /\ Accurate(table, FieldNames(part), rec.slots, values)

(* What a process was given or sent, but for the names it could not enter. *)
Entered(values, gone) == [name \in DOMAIN values \ gone |-> values[name]]

FrameInv(table, frame) ==
  /\ IsRecord(table, frame.record)
  /\ Accurate(table, FieldNames(table), frame.record.slots, frame.truth)
  /\ DOMAIN frame.names = DOMAIN frame.record.slots
  /\ \A i \in DOMAIN frame.names :
       IsVendor(frame.record.slots[i].tag) =>
         /\ frame.names[i] \in DOMAIN table
         /\ table[frame.names[i]] = frame.record.slots[i].tag

WireInv(writer) ==
  /\ DOMAIN vendor_tags = SifProcesses /\ DOMAIN vendor_next = SifProcesses
  /\ DOMAIN record = SifProcesses /\ DOMAIN truth = SifProcesses
  /\ DOMAIN unentered = SifProcesses /\ unentered[writer] = {}
  /\ GoodTable(vendor_tags[writer], vendor_next[writer])
  /\ \A p \in SifProcesses :
       ProcessInv(vendor_tags[writer], vendor_tags[p], p \in created, record[p],
                  Entered(truth[p], unentered[p]))
  /\ FrameInv(vendor_tags[writer], wire)

LEMMA NothingLost ==
  ASSUME NEW table, NEW names, NEW slots, NEW values
  PROVE  Accurate(table, names, slots, values) <=> Accurate(table, names, slots, Entered(values, {}))
  <1>1. /\ DOMAIN Entered(values, {}) = DOMAIN values
        /\ \A name \in DOMAIN values : Entered(values, {})[name] = values[name]
    BY DEF Entered
  <1> QED BY <1>1 DEF Accurate, Holds

LEMMA NamesDiffer ==
  ASSUME NEW table, NEW next, GoodTable(table, next)
  PROVE  /\ \A name \in FieldNames(table) : NameTag(table, name) \in Nat /\ NameTag(table, name) > IdTag
         /\ \A m, n \in FieldNames(table) : NameTag(table, m) = NameTag(table, n) => m = n
         /\ \A name \in FieldNames(table) : NameTag(table, name) < next
         /\ \A name \in DOMAIN Core : NameTag(table, name) < FirstVendorTag
  <1>1. /\ FirstVendorTag \in Nat /\ FirstVendorTag > IdTag /\ next \in Nat /\ next >= FirstVendorTag
        /\ \A name \in DOMAIN Core : Core[name] \in (IdTag + 1)..(FirstVendorTag - 1)
        /\ \A m, n \in DOMAIN Core : Core[m] = Core[n] => m = n
        /\ IdTag \in Nat
    BY SifAssumption DEF IsInjective, IdTag, GoodTable
  <1>2. \A name \in DOMAIN table : name \notin DOMAIN Core
    BY SifAssumption DEF GoodTable
  <1>3. \A name \in DOMAIN Core : /\ NameTag(table, name) = Core[name]
                                  /\ NameTag(table, name) \in Nat /\ NameTag(table, name) > IdTag
                                  /\ NameTag(table, name) < FirstVendorTag
                                  /\ NameTag(table, name) < next
    BY <1>1 DEF NameTag
  <1>4. \A name \in DOMAIN table : /\ NameTag(table, name) = table[name]
                                   /\ NameTag(table, name) \in Nat
                                   /\ NameTag(table, name) >= FirstVendorTag
                                   /\ NameTag(table, name) < next
                                   /\ NameTag(table, name) > IdTag
    BY <1>1, <1>2 DEF NameTag, GoodTable
  <1>5. ASSUME NEW m \in FieldNames(table), NEW n \in FieldNames(table), NameTag(table, m) = NameTag(table, n)
        PROVE  m = n
    <2>1. CASE m \in DOMAIN Core /\ n \in DOMAIN Core
      BY <1>1, <1>3, <1>5, <2>1
    <2>2. CASE m \in DOMAIN table /\ n \in DOMAIN table
      BY <1>4, <1>5, <2>2 DEF GoodTable
    <2>3. CASE m \in DOMAIN Core /\ n \in DOMAIN table
      BY <1>1, <1>3, <1>4, <1>5, <2>3
    <2>4. CASE m \in DOMAIN table /\ n \in DOMAIN Core
      BY <1>1, <1>3, <1>4, <1>5, <2>4
    <2> QED BY <2>1, <2>2, <2>3, <2>4 DEF FieldNames
  <1> QED BY <1>3, <1>4, <1>5 DEF FieldNames

LEMMA FreshTag ==
  ASSUME NEW table, NEW next, GoodTable(table, next), NEW tag, HasName(table, tag)
  PROVE  tag \in Nat /\ tag >= IdTag /\ tag # next
  <1>1. next \in Nat /\ IdTag \in Nat /\ next > IdTag
    BY SifAssumption DEF GoodTable, IdTag
  <1>2. \A name \in FieldNames(table) :
          /\ NameTag(table, name) \in Nat /\ NameTag(table, name) > IdTag
          /\ NameTag(table, name) < next
    BY NamesDiffer
  <1> QED BY <1>1, <1>2 DEF HasName

(* Slots that are the same but for those of a tag.                         *)
SameBut(tag, slots, other) ==
  /\ \A i \in DOMAIN slots : slots[i].tag # tag => \E j \in DOMAIN other : other[j] = slots[i]
  /\ \A j \in DOMAIN other : other[j].tag # tag => \E i \in DOMAIN slots : slots[i] = other[j]

LEMMA HoldsStill ==
  ASSUME NEW tag, NEW slots, NEW other, SameBut(tag, slots, other),
         NEW mine, mine # tag, NEW name, NEW values, NEW changed,
         name \in DOMAIN values <=> name \in DOMAIN changed,
         name \in DOMAIN values => values[name] = changed[name],
         Holds(slots, mine, name, values)
  PROVE  Holds(other, mine, name, changed)
  BY DEF SameBut, Holds, Carries

LEMMA SlotPut ==
  ASSUME NEW slots \in Seq(SlotSet), Distinct(slots),
         NEW tag \in Nat, NEW value \in Values, NEW put, put = PutSlot(slots, tag, value)
  PROVE  /\ put \in Seq(SlotSet) /\ Distinct(put) /\ SameBut(tag, slots, put)
         /\ Carries(put, tag, value)
  <1>1. \A i \in DOMAIN slots : slots[i] \in SlotSet /\ i \in 1..Len(slots)
    OBVIOUS
  <1>2. Slot(tag, value) \in SlotSet /\ Slot(tag, value).tag = tag /\ Slot(tag, value).value = value
    BY DEF Slot, SlotSet
  <1>3. CASE HasSlot(slots, tag)
    <2>a. PICK k : k = SlotOf(slots, tag)
      OBVIOUS
    <2>1. k \in DOMAIN slots /\ slots[k].tag = tag
      BY <1>3, <2>a DEF HasSlot, SlotOf
    <2>2. put = [slots EXCEPT ![k].value = value]
      BY <1>3, <2>a DEF PutSlot
    <2>3. slots[k] \in SlotSet
      BY <1>1, <2>1
    <2>4. [slots[k] EXCEPT !.value = value] = Slot(tag, value)
      BY <2>1, <2>3 DEF Slot, SlotSet
    <2>5. /\ DOMAIN put = DOMAIN slots /\ put[k] = Slot(tag, value)
          /\ \A i \in DOMAIN slots : i # k => put[i] = slots[i]
      BY <2>1, <2>2, <2>4
    <2>6. put \in Seq(SlotSet)
      <3>1. put = [slots EXCEPT ![k] = Slot(tag, value)]
        BY <2>2, <2>4
      <3> HIDE DEF SlotSet
      <3> QED BY <1>2, <2>1, <3>1
    <2>7. \A i \in DOMAIN put : put[i].tag = slots[i].tag
      BY <1>2, <2>1, <2>5
    <2>8. Distinct(put)
      BY <2>5, <2>7 DEF Distinct
    <2>9. SameBut(tag, slots, put)
      BY <1>2, <2>1, <2>5 DEF SameBut
    <2> QED BY <1>2, <2>1, <2>5, <2>6, <2>8, <2>9 DEF Carries
  <1>4. CASE ~HasSlot(slots, tag)
    <2>1. put = Append(slots, Slot(tag, value))
      BY <1>4 DEF PutSlot
    <2>a. PICK k : k = Len(slots) + 1
      OBVIOUS
    <2>2. /\ put \in Seq(SlotSet) /\ DOMAIN put = 1..k /\ DOMAIN slots = 1..k - 1 /\ k \in Nat
          /\ put[k] = Slot(tag, value) /\ \A i \in 1..k - 1 : put[i] = slots[i]
          /\ k \in 1..k
      <3> HIDE DEF SlotSet
      <3> QED BY <1>2, <2>1, <2>a
    <2>3. \A i \in 1..k : i # k => i \in 1..k - 1
      BY <2>2
    <2>4. \A i \in 1..k - 1 : i \in 1..k /\ i # k /\ put[i].tag # tag
      BY <1>4, <2>2 DEF HasSlot
    <2>5. Distinct(put)
      BY <1>2, <2>2, <2>3, <2>4 DEF Distinct
    <2>6. SameBut(tag, slots, put)
      BY <1>2, <2>2, <2>3, <2>4 DEF SameBut
    <2> QED BY <1>2, <2>2, <2>5, <2>6 DEF Carries
  <1> QED BY <1>3, <1>4

PutField(rec, tag, value) == [rec EXCEPT !.slots = PutSlot(@, tag, value)]

(* A field that is set is the only one that changes.                       *)
LEMMA FieldPut ==
  ASSUME NEW table, NEW next, GoodTable(table, next),
         NEW rec, IsRecord(table, rec), rec.hash = <<>>,
         NEW values, Accurate(table, FieldNames(table), rec.slots, values),
         NEW name \in FieldNames(table), NEW value \in Values,
         NEW tag, tag = NameTag(table, name),
         NEW changed, changed = PutField(rec, tag, value),
         NEW set, set = Bind(values, name, value)
  PROVE  IsRecord(table, changed) /\ Accurate(table, FieldNames(table), changed.slots, set)
  <1>1. tag \in Nat /\ tag > IdTag /\ \A m \in FieldNames(table) : m # name => NameTag(table, m) # tag
    BY NamesDiffer
  <1>2. rec.slots \in Seq(SlotSet) /\ Distinct(rec.slots)
    BY DEF IsRecord
  <1>a. PICK slots : slots = rec.slots
    OBVIOUS
  <1>b. PICK put : put = PutSlot(slots, tag, value)
    OBVIOUS
  <1>3. /\ put \in Seq(SlotSet) /\ Distinct(put) /\ SameBut(tag, slots, put)
        /\ Carries(put, tag, value)
    <2>1. slots \in Seq(SlotSet) /\ Distinct(slots) /\ tag \in Nat /\ value \in Values
      BY <1>1, <1>2, <1>a
    <2> QED BY ONLY <2>1, <1>b, SlotPut
  <1>4. /\ changed.slots = put /\ changed.message = rec.message /\ changed.hash = <<>>
        /\ changed = [slots |-> put, message |-> rec.message, hash |-> <<>>]
    BY <1>a, <1>b DEF IsRecord, PutField
  <1>5. /\ DOMAIN set = DOMAIN values \cup {name} /\ set[name] = value
        /\ \A m \in DOMAIN values : m # name => set[m] = values[m]
    BY DEF Bind
  <1>6. \A i \in DOMAIN put : HasName(table, put[i].tag)
    <2>1. \A i \in DOMAIN slots : HasName(table, slots[i].tag)
      BY <1>a DEF IsRecord
    <2>2. HasName(table, tag)
      BY DEF HasName
    <2> QED BY <1>3, <2>1, <2>2 DEF SameBut
  <1>7. IsRecord(table, changed)
    <2>1. Stored(rec.message) = rec.message
      BY DEF IsRecord
    <2> QED BY <1>3, <1>4, <1>6, <2>1 DEF IsRecord
  <1>8. Accurate(table, FieldNames(table), put, set)
    <2>1. DOMAIN set \subseteq FieldNames(table)
      BY <1>5 DEF Accurate
    <2>2. Holds(put, tag, name, set)
      BY <1>3, <1>5 DEF Holds
    <2>3. ASSUME NEW m \in FieldNames(table), m # name
          PROVE  Holds(put, NameTag(table, m), m, set)
      <3>1. Holds(slots, NameTag(table, m), m, values)
        BY <1>a DEF Accurate
      <3>2. /\ m \in DOMAIN values <=> m \in DOMAIN set
            /\ m \in DOMAIN values => values[m] = set[m]
        BY <1>5, <2>3
      <3> QED BY ONLY <1>1, <1>3, <2>3, <3>1, <3>2, HoldsStill
    <2> QED BY <2>1, <2>2, <2>3 DEF Accurate
  <1> QED BY <1>4, <1>7, <1>8

(* A table that another is part of.                                        *)
SameTags(table, grown) ==
  /\ FieldNames(table) \subseteq FieldNames(grown)
  /\ \A m \in FieldNames(table) : NameTag(grown, m) = NameTag(table, m)

LEMMA TableGrows ==
  ASSUME NEW table, NEW next, GoodTable(table, next),
         NEW name \in Vendors, name \notin DOMAIN table,
         NEW grown, grown = Bind(table, name, next)
  PROVE  /\ GoodTable(grown, next + 1) /\ name \in FieldNames(grown)
         /\ \A m \in FieldNames(grown) : m \in FieldNames(table) \/ m = name
         /\ NameTag(grown, name) = next /\ name \notin FieldNames(table)
         /\ SameTags(table, grown)
         /\ PartOf(table, grown)
  <1>1. /\ DOMAIN grown = DOMAIN table \cup {name} /\ grown[name] = next
        /\ \A m \in DOMAIN table : grown[m] = table[m]
        /\ grown = [m \in DOMAIN grown |-> grown[m]]
    BY DEF Bind
  <1>2. /\ next \in Nat /\ next >= FirstVendorTag /\ FirstVendorTag \in Nat
        /\ DOMAIN table \subseteq Vendors /\ name \notin DOMAIN Core
        /\ \A m \in DOMAIN table : table[m] \in FirstVendorTag..next - 1
        /\ \A m, n \in DOMAIN table : table[m] = table[n] => m = n
    BY SifAssumption DEF GoodTable
  <1>3. \A m \in DOMAIN grown : grown[m] \in FirstVendorTag..(next + 1) - 1
    BY <1>1, <1>2
  <1>4. \A m, n \in DOMAIN grown : grown[m] = grown[n] => m = n
    BY <1>1, <1>2
  <1>5. GoodTable(grown, next + 1)
    BY <1>1, <1>2, <1>3, <1>4 DEF GoodTable
  <1> QED BY <1>1, <1>2, <1>5 DEF FieldNames, NameTag, SameTags, PartOf

(* A record is one of a table that grew, too.                              *)
LEMMA GrownRecord ==
  ASSUME NEW table, NEW grown, SameTags(table, grown), NEW rec, IsRecord(table, rec)
  PROVE  IsRecord(grown, rec)
  <1>1. \A tag : HasName(table, tag) => HasName(grown, tag)
    BY DEF HasName, SameTags
  <1> QED BY <1>1 DEF IsRecord

LEMMA GrownPart ==
  ASSUME NEW table, NEW grown, NEW names, names \subseteq FieldNames(table),
         SameTags(table, grown),
         NEW slots, NEW values, Accurate(table, names, slots, values)
  PROVE  Accurate(grown, names, slots, values)
  BY DEF Accurate, SameTags

LEMMA GrownAccurate ==
  ASSUME NEW table, NEW next, GoodTable(table, next),
         NEW name \in Vendors, name \notin DOMAIN table,
         NEW grown, grown = Bind(table, name, next),
         NEW rec, IsRecord(table, rec),
         NEW values, Accurate(table, FieldNames(table), rec.slots, values)
  PROVE  Accurate(grown, FieldNames(grown), rec.slots, values)
  <1>1. /\ \A m \in FieldNames(grown) : m \in FieldNames(table) \/ m = name
        /\ NameTag(grown, name) = next /\ name \notin FieldNames(table)
        /\ SameTags(table, grown)
    <2>1. GoodTable(table, next) /\ name \in Vendors /\ name \notin DOMAIN table
          /\ grown = Bind(table, name, next)
      OBVIOUS
    <2> QED BY ONLY <2>1, TableGrows
  <1>2. \A i \in DOMAIN rec.slots : rec.slots[i].tag # next
    <2>1. \A i \in DOMAIN rec.slots : HasName(table, rec.slots[i].tag)
      BY DEF IsRecord
    <2> QED BY <2>1, FreshTag
  <1>3. name \notin DOMAIN values
    BY <1>1 DEF Accurate
  <1>4. Holds(rec.slots, next, name, values)
    BY <1>2, <1>3 DEF Holds
  <1> QED BY <1>1, <1>4 DEF Accurate, SameTags

(* The field of the id goes first.                                          *)
MoveToFront(slots, at) == <<slots[at]>> \o RemoveAt(slots, at)

LEMMA MovedToFront ==
  ASSUME NEW slots \in Seq(SlotSet), Distinct(slots), NEW at \in DOMAIN slots,
         NEW moved, moved = MoveToFront(slots, at)
  PROVE  /\ moved \in Seq(SlotSet) /\ Distinct(moved)
         /\ SameBut(IdTag, slots, moved)
         /\ at = 1 => moved = slots
  <1>a. PICK n : n = Len(slots)
    OBVIOUS
  <1>1. /\ n \in Nat /\ at \in 1..n /\ DOMAIN slots = 1..n
        /\ \A i \in 1..n : slots[i] \in SlotSet
    <2> HIDE DEF SlotSet
    <2> QED BY <1>a
  <1>b. PICK head : head = SubSeq(slots, 1, at - 1)
    OBVIOUS
  <1>c. PICK tail : tail = SubSeq(slots, at + 1, n)
    OBVIOUS
  <1>2. /\ head \in Seq(SlotSet) /\ Len(head) = at - 1
        /\ \A i \in 1..at - 1 : head[i] = slots[i]
    <2> HIDE DEF SlotSet
    <2> QED BY <1>1, <1>a, <1>b
  <1>3. /\ tail \in Seq(SlotSet) /\ Len(tail) = n - at
        /\ \A i \in 1..n - at : tail[i] = slots[at + i]
    <2> HIDE DEF SlotSet
    <2> QED BY <1>1, <1>a, <1>c
  <1>4. moved = <<slots[at]>> \o (head \o tail)
    BY <1>a, <1>b, <1>c DEF RemoveAt, MoveToFront
  <1>d. PICK rest : rest = head \o tail
    OBVIOUS
  <1>5. /\ rest \in Seq(SlotSet) /\ Len(rest) = n - 1
        /\ \A i \in 1..at - 1 : rest[i] = slots[i]
        /\ \A i \in at..n - 1 : rest[i] = slots[i + 1]
    <2>1. /\ rest \in Seq(SlotSet) /\ Len(rest) = Len(head) + Len(tail)
          /\ \A k \in 1..Len(head) : rest[k] = head[k]
          /\ \A k \in 1..Len(tail) : rest[Len(head) + k] = tail[k]
      <3>1. head \in Seq(SlotSet) /\ tail \in Seq(SlotSet) /\ rest = head \o tail
        BY <1>2, <1>3, <1>d
      <3> HIDE DEF SlotSet
      <3> QED BY ONLY <3>1, PartBehind
    <2>2. Len(rest) = n - 1 /\ \A i \in 1..at - 1 : rest[i] = slots[i]
      BY ONLY <1>1, <1>2, <1>3, <2>1
    <2>3. ASSUME NEW i \in at..n - 1
          PROVE  rest[i] = slots[i + 1]
      <3>1. i - (at - 1) \in 1..n - at /\ (at - 1) + (i - (at - 1)) = i
            /\ at + (i - (at - 1)) = i + 1
        BY ONLY <1>1, <2>3
      <3>2. rest[(at - 1) + (i - (at - 1))] = tail[i - (at - 1)]
        BY ONLY <1>2, <1>3, <2>1, <3>1
      <3>3. tail[i - (at - 1)] = slots[at + (i - (at - 1))]
        BY ONLY <1>3, <3>1
      <3> QED BY ONLY <3>1, <3>2, <3>3
    <2> QED BY <2>1, <2>2, <2>3
  <1>6. /\ moved \in Seq(SlotSet) /\ Len(moved) = n /\ DOMAIN moved = 1..n
        /\ moved[1] = slots[at] /\ \A i \in 1..n - 1 : moved[1 + i] = rest[i]
    <2>1. slots[at] \in SlotSet
      BY <1>1
    <2>2. /\ <<slots[at]>> \in Seq(SlotSet) /\ Len(<<slots[at]>>) = 1 /\ <<slots[at]>>[1] = slots[at]
      BY <2>1
    <2>a. PICK first : first = <<slots[at]>>
      OBVIOUS
    <2>3. /\ moved \in Seq(SlotSet) /\ Len(moved) = Len(first) + Len(rest)
          /\ \A k \in 1..Len(first) : moved[k] = first[k]
          /\ \A k \in 1..Len(rest) : moved[Len(first) + k] = rest[k]
      <3>1. first \in Seq(SlotSet) /\ rest \in Seq(SlotSet) /\ moved = first \o rest
        BY ONLY <1>4, <1>5, <1>d, <2>2, <2>a
      <3> HIDE DEF SlotSet
      <3> QED BY ONLY <3>1, PartBehind
    <2> QED BY ONLY <1>1, <1>5, <2>2, <2>3, <2>a
  <1>7. \A j \in 1..n : /\ j = 1 => moved[j] = slots[at]
                        /\ j \in 2..at => moved[j] = slots[j - 1]
                        /\ j \in at + 1..n => moved[j] = slots[j]
    <2>1. \A j \in 2..n : j - 1 \in 1..n - 1 /\ 1 + (j - 1) = j
      BY ONLY <1>1
    <2>2. \A j \in 2..n : moved[j] = rest[j - 1]
      BY ONLY <1>6, <2>1
    <2>3. \A j \in 2..at : j \in 2..n /\ j - 1 \in 1..at - 1
      BY ONLY <1>1
    <2>4. \A j \in at + 1..n : j \in 2..n /\ j - 1 \in at..n - 1 /\ (j - 1) + 1 = j
      BY ONLY <1>1
    <2>5. \A j \in 2..at : moved[j] = slots[j - 1]
      BY ONLY <1>5, <2>2, <2>3
    <2>6. \A j \in at + 1..n : moved[j] = slots[j]
      BY ONLY <1>5, <2>2, <2>4
    <2> QED BY ONLY <1>6, <2>5, <2>6
  <1>e. PICK from : from = [j \in 1..n |-> IF j = 1 THEN at ELSE IF j <= at THEN j - 1 ELSE j]
    OBVIOUS
  <1>8. /\ \A j \in 1..n : from[j] \in 1..n /\ moved[j] = slots[from[j]]
        /\ \A j, k \in 1..n : from[j] = from[k] => j = k
    BY ONLY <1>1, <1>7, <1>e
  <1>9. \A i \in 1..n : \E j \in 1..n : from[j] = i
    <2>1. ASSUME NEW i \in 1..n
          PROVE  \E j \in 1..n : from[j] = i
      <3>1. CASE i = at
        BY ONLY <1>1, <1>e, <3>1
      <3>2. CASE i < at
        <4>1. i + 1 \in 1..n /\ i + 1 # 1 /\ i + 1 <= at /\ (i + 1) - 1 = i
          BY ONLY <1>1, <2>1, <3>2
        <4>2. from[i + 1] = i
          BY ONLY <1>e, <4>1
        <4> QED BY <4>1, <4>2
      <3>3. CASE i > at
        BY ONLY <1>1, <1>e, <2>1, <3>3
      <3> QED BY <1>1, <3>1, <3>2, <3>3
    <2> QED BY <2>1
  <1>10. Distinct(moved)
    BY ONLY <1>1, <1>6, <1>8, Distinct(slots) DEF Distinct
  <1>11. SameBut(IdTag, slots, moved)
    <2>1. \A i \in 1..n : \E j \in 1..n : moved[j] = slots[i]
      BY ONLY <1>8, <1>9
    <2>2. \A j \in 1..n : \E i \in 1..n : slots[i] = moved[j]
      BY ONLY <1>8
    <2> QED BY ONLY <1>1, <1>6, <2>1, <2>2 DEF SameBut
  <1>12. ASSUME at = 1
         PROVE  moved = slots
    <2>1. \A j \in 1..n : moved[j] = slots[j]
      BY ONLY <1>1, <1>7, <1>12
    <2>2. slots \in Seq(SlotSet) /\ moved \in Seq(SlotSet) /\ Len(slots) = n /\ Len(moved) = n
      BY <1>6, <1>a
    <2> QED BY ONLY <1>1, <2>1, <2>2, SeqEqual
  <1> QED BY <1>6, <1>10, <1>11, <1>12

(* A record that had no id: the decoded one begins with the empty one.     *)
LEMMA IdInFront ==
  ASSUME NEW slots \in Seq(SlotSet), Distinct(slots), ~HasSlot(slots, IdTag),
         NEW longer, longer = <<Slot(IdTag, "0")>> \o slots
  PROVE  /\ longer \in Seq(SlotSet) /\ Distinct(longer)
         /\ SameBut(IdTag, slots, longer)
  <1>a. PICK n : n = Len(slots)
    OBVIOUS
  <1>b. PICK first : first = <<Slot(IdTag, "0")>>
    OBVIOUS
  <1>1. /\ Slot(IdTag, "0") \in SlotSet /\ Slot(IdTag, "0").tag = IdTag
    BY DEF Slot, SlotSet, IdTag
  <1>2. n \in Nat /\ DOMAIN slots = 1..n
    <2> HIDE DEF SlotSet
    <2> QED BY <1>a
  <1>3. /\ longer \in Seq(SlotSet) /\ Len(longer) = Len(first) + Len(slots)
        /\ \A k \in 1..Len(first) : longer[k] = first[k]
        /\ \A k \in 1..Len(slots) : longer[Len(first) + k] = slots[k]
    <2>1. first \in Seq(SlotSet) /\ slots \in Seq(SlotSet) /\ longer = first \o slots
      <3> HIDE DEF SlotSet
      <3> QED BY <1>1, <1>b
    <2> HIDE DEF SlotSet
    <2> QED BY ONLY <2>1, PartBehind
  <1>4. Len(first) = 1 /\ first[1].tag = IdTag
    BY <1>1, <1>b
  <1>5. /\ Len(longer) = 1 + n /\ DOMAIN longer = 1..1 + n /\ longer[1].tag = IdTag
        /\ \A k \in 1..n : longer[1 + k] = slots[k]
    <2> HIDE DEF SlotSet
    <2> QED BY ONLY <1>2, <1>3, <1>4, <1>a
  <1>6. \A k \in 1..1 + n : k # 1 => k - 1 \in 1..n /\ longer[k] = slots[k - 1]
    <2>1. \A k \in 1..1 + n : k # 1 => k - 1 \in 1..n /\ 1 + (k - 1) = k
      BY ONLY <1>2
    <2> QED BY ONLY <1>5, <2>1
  <1>7. \A k \in 1..n : slots[k].tag # IdTag
    BY <1>2 DEF HasSlot
  <1>8. Distinct(longer)
    <2>1. \A j, k \in 1..n : slots[j].tag = slots[k].tag => j = k
      BY <1>2 DEF Distinct
    <2> QED BY ONLY <1>2, <1>5, <1>6, <1>7, <2>1 DEF Distinct
  <1>9. SameBut(IdTag, slots, longer)
    <2>1. \A k \in 1..n : 1 + k \in 1..1 + n
      BY ONLY <1>2
    <2> QED BY ONLY <1>2, <1>5, <1>6, <2>1 DEF SameBut
  <1> QED BY <1>3, <1>8, <1>9

LEMMA SlotOfTag ==
  ASSUME NEW slots, NEW tag, HasSlot(slots, tag)
  PROVE  SlotOf(slots, tag) \in DOMAIN slots /\ slots[SlotOf(slots, tag)].tag = tag
  BY DEF HasSlot, SlotOf

LEMMA PartNames ==
  ASSUME NEW table, NEW next, GoodTable(table, next), NEW part, PartOf(part, table)
  PROVE  FieldNames(part) \subseteq FieldNames(table)
  BY DEF PartOf, FieldNames

(* What a frame is decoded to, and the fields that are read from it.       *)
LEMMA DecodedSlotsForm ==
  ASSUME NEW slots \in Seq(SlotSet), Distinct(slots), slots = FrameSlots,
         NEW decoded, decoded = DecodedSlots
  PROVE  /\ decoded \in Seq(SlotSet) /\ Distinct(decoded)
         /\ SameBut(IdTag, slots, decoded)
         /\ slots # <<>> /\ slots[1].tag = IdTag => decoded = slots
  <1>1. CASE HasSlot(slots, IdTag)
    <2>a. PICK at : at = SlotOf(slots, IdTag)
      OBVIOUS
    <2>1. at \in DOMAIN slots /\ slots[at].tag = IdTag
      BY <1>1, <2>a, SlotOfTag
    <2>2. decoded = MoveToFront(slots, at)
      BY <1>1, <2>a DEF DecodedSlots, MoveToFront
    <2>3. slots \in Seq(SlotSet) /\ Distinct(slots)
      OBVIOUS
    <2>4. /\ decoded \in Seq(SlotSet) /\ Distinct(decoded)
          /\ SameBut(IdTag, slots, decoded)
          /\ at = 1 => decoded = slots
      BY ONLY <2>1, <2>2, <2>3, MovedToFront
    <2>5. slots # <<>> /\ slots[1].tag = IdTag => at = 1
      <3>1. slots # <<>> => 1 \in DOMAIN slots
        <4> HIDE DEF SlotSet
        <4> QED OBVIOUS
      <3> QED BY <2>1, <2>3, <3>1 DEF Distinct
    <2> QED BY <2>1, <2>4, <2>5
  <1>2. CASE ~HasSlot(slots, IdTag)
    <2>1. decoded = <<Slot(IdTag, "0")>> \o slots
      BY <1>2 DEF DecodedSlots
    <2>2. slots \in Seq(SlotSet) /\ Distinct(slots) /\ ~HasSlot(slots, IdTag)
      BY <1>2
    <2>3. /\ decoded \in Seq(SlotSet) /\ Distinct(decoded)
          /\ SameBut(IdTag, slots, decoded)
      BY ONLY <2>1, <2>2, IdInFront
    <2>4. slots # <<>> => slots[1].tag # IdTag
      <3>1. slots # <<>> => 1 \in DOMAIN slots
        <4> HIDE DEF SlotSet
        <4> QED OBVIOUS
      <3> QED BY <1>2, <3>1 DEF HasSlot
    <2> QED BY <2>3, <2>4
  <1> QED BY <1>1, <1>2

LEMMA DecodedRecord ==
  ASSUME NEW table, IsRecord(table, wire.record)
  PROVE  /\ IsRecord(table, Decoded) /\ SameBut(IdTag, wire.record.slots, Decoded.slots)
         /\ wire.record.hash # <<>> => Decoded = wire.record
  <1>a. PICK slots : slots = wire.record.slots
    OBVIOUS
  <1>b. PICK decoded : decoded = DecodedSlots
    OBVIOUS
  <1>1. /\ slots \in Seq(SlotSet) /\ Distinct(slots)
        /\ \A i \in DOMAIN slots : HasName(table, slots[i].tag)
        /\ wire.record = [slots |-> slots, message |-> wire.record.message,
                          hash |-> wire.record.hash]
        /\ Stored(wire.record.message) = wire.record.message
        /\ wire.record.hash # <<>> => /\ wire.record.hash = HashOf(wire.record)
                                      /\ slots # <<>> /\ slots[1].tag = IdTag
    BY <1>a DEF IsRecord
  <1>2. /\ decoded \in Seq(SlotSet) /\ Distinct(decoded)
        /\ SameBut(IdTag, slots, decoded)
        /\ slots # <<>> /\ slots[1].tag = IdTag => decoded = slots
    <2>1. slots \in Seq(SlotSet) /\ Distinct(slots) /\ slots = FrameSlots
      BY <1>1, <1>a DEF FrameSlots
    <2> QED BY ONLY <1>b, <2>1, DecodedSlotsForm
  <1>3. /\ Decoded = [slots |-> decoded, message |-> wire.record.message,
                      hash |-> wire.record.hash]
        /\ Decoded.slots = decoded /\ Decoded.message = wire.record.message
        /\ Decoded.hash = wire.record.hash
    <2>a. PICK message : message = wire.record.message
      OBVIOUS
    <2>b. PICK hash : hash = wire.record.hash
      OBVIOUS
    <2>1. wire.record = [slots |-> slots, message |-> message, hash |-> hash]
      BY <1>1, <2>a, <2>b
    <2>2. Decoded = [[wire.record EXCEPT !.slots = decoded] EXCEPT !.message = Stored(message)]
      BY <1>b, <2>a, <2>1 DEF Decoded
    <2>3. [wire.record EXCEPT !.slots = decoded] = [slots |-> decoded, message |-> message, hash |-> hash]
      BY <2>1
    <2>4. Stored(message) = message
      BY <1>1, <2>a
    <2>5. Decoded = [slots |-> decoded, message |-> message, hash |-> hash]
      BY ONLY <2>2, <2>3, <2>4
    <2> QED BY <2>5, <2>a, <2>b
  <1>4. wire.record.hash # <<>> => Decoded = wire.record
    BY <1>1, <1>2, <1>3
  <1>5. \A j \in DOMAIN decoded : HasName(table, decoded[j].tag)
    BY <1>1, <1>2 DEF SameBut, HasName
  <1>6. IsRecord(table, Decoded)
    BY <1>1, <1>2, <1>3, <1>4, <1>5 DEF IsRecord
  <1> QED BY <1>2, <1>3, <1>4, <1>6, <1>a

LEMMA ReadAccurate ==
  ASSUME NEW table, NEW next, GoodTable(table, next), NEW slots, NEW values,
         Accurate(table, FieldNames(table), slots, values),
         NEW other, SameBut(IdTag, slots, other),
         NEW names, names \subseteq FieldNames(table), NEW read, DOMAIN read \subseteq names,
         \A m \in names : m \in DOMAIN values <=> m \in DOMAIN read,
         \A m \in names : m \in DOMAIN values => values[m] = read[m]
  PROVE  Accurate(table, names, other, read)
  <1>1. \A m \in FieldNames(table) : NameTag(table, m) # IdTag
    <2>1. \A m \in FieldNames(table) : NameTag(table, m) \in Nat /\ NameTag(table, m) > IdTag
      BY NamesDiffer
    <2> QED BY <2>1 DEF IdTag
  <1>2. ASSUME NEW m \in names
        PROVE  Holds(other, NameTag(table, m), m, read)
    <2>1. m \in FieldNames(table) /\ NameTag(table, m) # IdTag
      BY <1>1
    <2>2. Holds(slots, NameTag(table, m), m, values)
      BY <2>1 DEF Accurate
    <2>3. /\ SameBut(IdTag, slots, other)
          /\ m \in DOMAIN values <=> m \in DOMAIN read
          /\ m \in DOMAIN values => values[m] = read[m]
      OBVIOUS
    <2> QED BY ONLY <2>1, <2>2, <2>3, HoldsStill
  <1> QED BY <1>2 DEF Accurate

(* A name enters a table with the tag it has at the writer, and has one    *)
(* field in the frame.                                                     *)
LEMMA EnteredTag ==
  ASSUME NEW table, FrameInv(table, wire), NEW name, Entering(name) # {}
  PROVE  /\ name \in DOMAIN table /\ EntersFirst(name) \in Entering(name)
         /\ FrameSlots[EntersFirst(name)].tag = table[name]
         /\ name \in Range(wire.names)
  <1>a. PICK slots : slots = FrameSlots
    OBVIOUS
  <1>1. /\ slots \in Seq(SlotSet) /\ Distinct(slots) /\ DOMAIN wire.names = DOMAIN slots
        /\ \A i \in DOMAIN slots :
             IsVendor(slots[i].tag) =>
               wire.names[i] \in DOMAIN table /\ table[wire.names[i]] = slots[i].tag
    BY <1>a DEF FrameInv, IsRecord, FrameSlots
  <1>2. DOMAIN slots = 1..Len(slots) /\ Len(slots) \in Nat
    <2> HIDE DEF SlotSet
    <2> QED BY <1>1
  <1>3. \A i \in Entering(name) :
          /\ i \in DOMAIN slots /\ wire.names[i] = name /\ name \in DOMAIN table
          /\ table[name] = slots[i].tag
    BY <1>1, <1>a DEF Entering
  <1>4. PICK k \in Entering(name) : TRUE
    OBVIOUS
  <1>5. \A i \in Entering(name) : i = k
    BY <1>1, <1>3 DEF Distinct
  <1>6. k \in Nat
    BY <1>2, <1>3
  <1>7. EntersFirst(name) = k
    <2>1. \E i \in Entering(name) : \A j \in Entering(name) : i <= j
      BY <1>4, <1>5, <1>6
    <2>2. EntersFirst(name) \in Entering(name)
      BY <2>1 DEF EntersFirst
    <2> QED BY <1>5, <2>2
  <1>8. name \in Range(wire.names)
    BY <1>1, <1>3 DEF Range
  <1> QED BY <1>3, <1>7, <1>8, <1>a

LEMMA TableAfterDecode ==
  ASSUME NEW writer \in SifProcesses, WireInv(writer), NEW p \in SifProcesses
  PROVE  /\ PartOf(TableAfter(p), vendor_tags[writer])
         /\ Known(p) \subseteq DOMAIN TableAfter(p)
         /\ p \notin created => DOMAIN TableAfter(p) = {}
         /\ p \in created => \A name : Entering(name) # {} => name \in DOMAIN TableAfter(p)
         /\ p = writer => TableAfter(p) = vendor_tags[writer]
  <1>a. PICK table : table = vendor_tags[writer]
    OBVIOUS
  <1>b. PICK part : part = vendor_tags[p]
    OBVIOUS
  <1>c. PICK after : after = TableAfter(p)
    OBVIOUS
  <1>1. /\ PartOf(part, table) /\ (p \notin created => DOMAIN part = {})
        /\ FrameInv(table, wire) /\ table = [name \in DOMAIN table |-> table[name]]
        /\ DOMAIN part = Known(p)
    BY <1>a, <1>b DEF WireInv, ProcessInv, GoodTable, Known
  <1>2. CASE p \notin created
    <2>1. after = part /\ p \in SifProcesses
      BY <1>b, <1>c, <1>2 DEF TableAfter
    <2> QED BY <1>1, <1>2, <1>a, <1>b, <1>c, <2>1
  <1>3. CASE p \in created
    <2>a. PICK entering : entering = {n \in Range(wire.names) : Entering(n) # {}}
      OBVIOUS
    <2>1. /\ DOMAIN after = DOMAIN part \cup entering
          /\ \A name \in DOMAIN part : after[name] = part[name]
          /\ \A name \in entering :
               name \notin DOMAIN part => after[name] = FrameSlots[EntersFirst(name)].tag
          /\ after = [name \in DOMAIN after |-> after[name]]
      BY <1>1, <1>3, <1>b, <1>c, <2>a DEF TableAfter
    <2>2. \A name : Entering(name) # {} => /\ name \in DOMAIN table
                                           /\ FrameSlots[EntersFirst(name)].tag = table[name]
                                           /\ name \in Range(wire.names)
      BY <1>1, EnteredTag
    <2>3. PartOf(after, table)
      BY <1>1, <2>1, <2>2, <2>a DEF PartOf
    <2>4. \A name : Entering(name) # {} => name \in DOMAIN after
      BY <2>1, <2>2, <2>a
    <2>5. ASSUME p = writer
          PROVE  after = table
      <3>1. part = table
        BY <1>a, <1>b, <2>5
      <3>2. DOMAIN after = DOMAIN table
        BY <2>1, <2>2, <2>a, <3>1
      <3>3. \A name \in DOMAIN table : after[name] = table[name]
        BY <2>1, <3>1
      <3> QED BY <1>1, <2>1, <3>2, <3>3
    <2> QED BY <1>1, <1>3, <1>a, <1>c, <2>1, <2>3, <2>4, <2>5
  <1> QED BY <1>2, <1>3

(* A frame that decodes has entered the names of all its fields.           *)
LEMMA EntersAll ==
  ASSUME NEW table, NEW next, GoodTable(table, next), FrameInv(table, wire), Decodes,
         NEW name \in DOMAIN wire.truth, name \in DOMAIN table
  PROVE  Entering(name) # {}
  <1>a. PICK slots : slots = FrameSlots
    OBVIOUS
  <1>1. /\ DOMAIN wire.names = DOMAIN slots
        /\ \A i \in DOMAIN slots :
             IsVendor(slots[i].tag) =>
               wire.names[i] \in DOMAIN table /\ table[wire.names[i]] = slots[i].tag
        /\ Accurate(table, FieldNames(table), slots, wire.truth)
    BY <1>a DEF FrameInv, FrameSlots
  <1>2. /\ name \notin DOMAIN Core /\ table[name] >= FirstVendorTag
        /\ \A m \in DOMAIN table : table[m] = table[name] => m = name
    BY SifAssumption DEF GoodTable
  <1>3. Holds(slots, table[name], name, wire.truth)
    BY <1>1, <1>2 DEF Accurate, FieldNames, NameTag
  <1>4. PICK i \in DOMAIN slots : slots[i].tag = table[name]
    BY <1>3 DEF Holds, Carries
  <1>5. wire.names[i] = name /\ IsVendor(slots[i].tag)
    BY <1>1, <1>2, <1>4 DEF IsVendor
  <1>6. FieldRead(i)
    BY <1>4, <1>a DEF Decodes
  <1> QED BY <1>4, <1>5, <1>6, <1>a DEF Entering

LEMMA NothingHeld ==
  ASSUME NEW table, NEW next, GoodTable(table, next),
         NEW names, names \subseteq FieldNames(table),
         NEW slots, \A i \in DOMAIN slots : slots[i].tag = IdTag,
         NEW values, DOMAIN values = {}
  PROVE  Accurate(table, names, slots, values)
  <1>1. \A name \in FieldNames(table) : NameTag(table, name) \in Nat /\ NameTag(table, name) > IdTag
    BY NamesDiffer
  <1>2. \A name \in FieldNames(table) : NameTag(table, name) # IdTag
    BY <1>1 DEF IdTag
  <1> QED BY <1>2 DEF Accurate, Holds

LEMMA NoSlots == <<>> \in Seq(SlotSet) /\ DOMAIN <<>> = {}
  <1>1. <<>> \in Seq(SlotSet)
    BY ONLY EmptySeq
  <1>2. DOMAIN <<>> = {}
    OBVIOUS
  <1> QED BY <1>1, <1>2

LEMMA OneSlot ==
  ASSUME NEW field \in SlotSet, NEW slots, slots = <<field>>
  PROVE  slots \in Seq(SlotSet) /\ \A i \in DOMAIN slots : i = 1 /\ slots[i] = field
  <1> HIDE DEF SlotSet
  <1> QED OBVIOUS

LEMMA EmptyRecord ==
  ASSUME NEW table
  PROVE  /\ IsRecord(table, NoRecord) /\ \A i \in DOMAIN NoRecord.slots : NoRecord.slots[i].tag = IdTag
         /\ DOMAIN NoTruth = {}
  <1>1. NoRecord.slots = <<>> /\ NoRecord.message = "" /\ NoRecord.hash = <<>>
        /\ NoRecord = [slots |-> NoRecord.slots, message |-> NoRecord.message, hash |-> NoRecord.hash]
    BY DEF NoRecord
  <1>2. NoRecord.slots \in Seq(SlotSet) /\ DOMAIN NoRecord.slots = {}
    BY <1>1, NoSlots
  <1>3. Stored("") = ""
    BY DEF Stored
  <1> QED BY <1>1, <1>2, <1>3 DEF IsRecord, Distinct, NoTruth

LEMMA WireInitHolds ==
  ASSUME NEW writer \in SifProcesses, WireInit
  PROVE  WireInv(writer)
  <1>a. PICK table : table = vendor_tags[writer]
    OBVIOUS
  <1>1. /\ \A p \in SifProcesses : /\ vendor_tags[p] = Empty /\ record[p] = NoRecord
                                   /\ truth[p] = NoTruth /\ unentered[p] = {}
        /\ vendor_next[writer] = FirstVendorTag /\ wire = NoFrame /\ table = Empty
        /\ DOMAIN vendor_tags = SifProcesses /\ DOMAIN vendor_next = SifProcesses
        /\ DOMAIN record = SifProcesses /\ DOMAIN truth = SifProcesses
        /\ DOMAIN unentered = SifProcesses
    BY <1>a DEF WireInit
  <1>2. DOMAIN Empty = {} /\ Empty = [name \in DOMAIN Empty |-> Empty[name]]
    BY DEF Empty
  <1>3. GoodTable(Empty, FirstVendorTag)
    BY <1>2, SifAssumption DEF GoodTable
  <1>4. IsRecord(Empty, NoRecord) /\ Accurate(Empty, FieldNames(Empty), NoRecord.slots, NoTruth)
    <2>1. /\ IsRecord(Empty, NoRecord) /\ \A i \in DOMAIN NoRecord.slots : NoRecord.slots[i].tag = IdTag
          /\ DOMAIN NoTruth = {} /\ FieldNames(Empty) \subseteq FieldNames(Empty)
      BY EmptyRecord
    <2> QED BY ONLY <1>3, <2>1, NothingHeld
  <1>5. PartOf(Empty, Empty)
    BY <1>2 DEF PartOf
  <1>6. /\ NoFrame.record = NoRecord /\ NoFrame.truth = NoTruth /\ NoFrame.names = <<>>
        /\ DOMAIN NoFrame.names = {} /\ DOMAIN NoFrame.record.slots = {}
    <2>1. NoFrame.record.slots = <<>> /\ NoFrame.names = <<>>
      BY DEF NoFrame, NoRecord
    <2> QED BY <2>1, NoSlots DEF NoFrame
  <1>7. FrameInv(Empty, NoFrame)
    BY <1>4, <1>6 DEF FrameInv
  <1>8. \A made : ProcessInv(Empty, Empty, made, NoRecord, Entered(NoTruth, {}))
    BY <1>2, <1>4, <1>5, NothingLost DEF ProcessInv
  <1> QED BY <1>1, <1>3, <1>7, <1>8, <1>a DEF WireInv

OnlyAt(f, after, p, value) ==
  /\ DOMAIN after = DOMAIN f /\ (p \in DOMAIN f => after[p] = value)
  /\ \A q \in DOMAIN f : q # p => after[q] = f[q]

(* A call that changes one process's record.                               *)
LEMMA RecordChanges ==
  ASSUME NEW writer \in SifProcesses, WireInv(writer), NEW p \in SifProcesses,
         NEW rec, NEW values, NEW gone, p = writer => gone = {},
         OnlyAt(record, record', p, rec), OnlyAt(truth, truth', p, values),
         OnlyAt(unentered, unentered', p, gone),
         vendor_tags' = vendor_tags, vendor_next' = vendor_next, wire' = wire,
         created \subseteq created',
         IsRecord(vendor_tags[writer], rec),
         Accurate(vendor_tags[writer], FieldNames(vendor_tags[p]), rec.slots, Entered(values, gone))
  PROVE  WireInv(writer)'
  <1>1. /\ DOMAIN record' = SifProcesses /\ DOMAIN truth' = SifProcesses /\ DOMAIN unentered' = SifProcesses
        /\ record'[p] = rec /\ truth'[p] = values /\ unentered'[p] = gone
        /\ \A q \in SifProcesses : q # p => /\ record'[q] = record[q] /\ truth'[q] = truth[q]
                                            /\ unentered'[q] = unentered[q]
        /\ unentered'[writer] = {}
    BY DEF WireInv, OnlyAt
  <1>a. PICK tables : tables = vendor_tags
    OBVIOUS
  <1>2. \A q \in SifProcesses :
          ProcessInv(tables[writer], tables[q], q \in created, record[q], Entered(truth[q], unentered[q]))
    BY <1>a DEF WireInv
  <1>3. ASSUME NEW q \in SifProcesses
        PROVE  ProcessInv(tables[writer], tables[q], q \in created', record'[q],
                          Entered(truth'[q], unentered'[q]))
    <2>1. CASE q = p
      BY <1>1, <1>2, <1>a, <2>1 DEF ProcessInv
    <2>2. CASE q # p
      BY <1>1, <1>2, <2>2 DEF ProcessInv
    <2> QED BY <2>1, <2>2
  <1> QED BY <1>1, <1>3, <1>a DEF WireInv

LEMMA CreateRecordKeeps ==
  ASSUME NEW writer \in SifProcesses, WireInv(writer), NEW p \in SifProcesses, NEW id \in {"", "id"},
         NEW message, CreateRecord(p, id, message)
  PROVE  WireInv(writer)'
  <1>a. PICK table : table = vendor_tags[writer]
    OBVIOUS
  <1>b. PICK slots : slots = IF id = "" THEN <<>> ELSE <<Slot(IdTag, id)>>
    OBVIOUS
  <1>c. PICK rec : rec = [slots |-> slots, message |-> Stored(message), hash |-> <<>>]
    OBVIOUS
  <1>1. /\ slots \in Seq(SlotSet) /\ \A i \in DOMAIN slots : slots[i].tag = IdTag /\ i = 1
    <2>1. Slot(IdTag, "id") \in SlotSet /\ Slot(IdTag, "id").tag = IdTag
      BY DEF Slot, SlotSet, IdTag
    <2>2. CASE id = ""
      <3>1. slots = <<>>
        BY <1>b, <2>2
      <3> QED BY <3>1, NoSlots
    <2>3. CASE id = "id"
      <3>a. PICK field \in SlotSet : field = Slot(IdTag, "id") /\ field.tag = IdTag
        BY <2>1
      <3>1. slots = <<field>>
        BY <1>b, <2>3, <3>a
      <3>2. slots \in Seq(SlotSet) /\ \A i \in DOMAIN slots : i = 1 /\ slots[i] = field
        BY ONLY <3>1, OneSlot
      <3> QED BY <3>2, <3>a
    <2> QED BY <2>2, <2>3
  <1>2. Stored(Stored(message)) = Stored(message)
    BY DEF Stored
  <1>3. IsRecord(table, rec)
    BY <1>1, <1>2, <1>c DEF IsRecord, Distinct, HasName
  <1>4. Accurate(table, FieldNames(vendor_tags[p]), rec.slots, Entered(NoTruth, {}))
    <2>1. GoodTable(table, vendor_next[writer]) /\ PartOf(vendor_tags[p], table)
      BY <1>a DEF WireInv, ProcessInv
    <2>2. FieldNames(vendor_tags[p]) \subseteq FieldNames(table)
      BY <2>1, PartNames
    <2>3. rec.slots = slots /\ DOMAIN Entered(NoTruth, {}) = {}
      BY <1>c DEF NoTruth, Entered
    <2>4. \A i \in DOMAIN rec.slots : rec.slots[i].tag = IdTag
      BY <1>1, <2>3
    <2> QED BY ONLY <2>1, <2>2, <2>3, <2>4, NothingHeld
  <1>5. /\ OnlyAt(record, record', p, rec) /\ OnlyAt(truth, truth', p, NoTruth)
        /\ OnlyAt(unentered, unentered', p, {})
        /\ vendor_tags' = vendor_tags /\ vendor_next' = vendor_next /\ wire' = wire
        /\ created' = created
    BY <1>b, <1>c DEF CreateRecord, OnlyAt
  <1> QED BY <1>3, <1>4, <1>5, <1>a, RecordChanges

LEMMA SetFieldKeeps ==
  ASSUME NEW writer \in SifProcesses, WireInv(writer), NEW name \in FieldNames(vendor_tags[writer]),
         NEW tag, tag = NameTag(vendor_tags[writer], name),
         NEW value \in Values, Settable(writer), SetField(writer, name, tag, value),
         UNCHANGED <<created, vendor_tags, vendor_next, unentered, wire>>
  PROVE  WireInv(writer)'
  <1>a. PICK table : table = vendor_tags[writer]
    OBVIOUS
  <1>b. PICK next : next = vendor_next[writer]
    OBVIOUS
  <1>c. PICK rec : rec = record[writer]
    OBVIOUS
  <1>d. PICK changed : changed = PutField(rec, tag, value)
    OBVIOUS
  <1>e. PICK values : values = truth[writer]
    OBVIOUS
  <1>f. PICK set : set = Bind(values, name, value)
    OBVIOUS
  <1>1. /\ GoodTable(table, next) /\ IsRecord(table, rec) /\ rec.hash = <<>>
        /\ Accurate(table, FieldNames(table), rec.slots, Entered(values, {}))
        /\ name \in FieldNames(table) /\ value \in Values /\ tag = NameTag(table, name)
    BY <1>a, <1>b, <1>c, <1>e DEF WireInv, ProcessInv, Settable
  <1>2. IsRecord(table, changed) /\ Accurate(table, FieldNames(table), changed.slots, set)
    <2>1. Accurate(table, FieldNames(table), rec.slots, values)
      BY <1>1, NothingLost
    <2> QED BY ONLY <1>1, <1>d, <1>f, <2>1, FieldPut
  <1>3. /\ OnlyAt(record, record', writer, changed) /\ OnlyAt(truth, truth', writer, set)
        /\ OnlyAt(unentered, unentered', writer, {})
        /\ vendor_tags' = vendor_tags /\ vendor_next' = vendor_next /\ wire' = wire
        /\ created' = created
    BY <1>c, <1>d, <1>e, <1>f DEF WireInv, SetField, OnlyAt, PutField
  <1>4. Accurate(table, FieldNames(table), changed.slots, Entered(set, {}))
    BY <1>2, NothingLost
  <1> QED BY <1>2, <1>3, <1>4, <1>a, RecordChanges

LEMMA SetNewFieldKeeps ==
  ASSUME NEW writer \in SifProcesses, WireInv(writer), NEW name \in Vendors, NEW value \in Values,
         SetNewField(writer, name, value)
  PROVE  WireInv(writer)'
  <1>a. PICK table : table = vendor_tags[writer]
    OBVIOUS
  <1>b. PICK next : next = vendor_next[writer]
    OBVIOUS
  <1>c. PICK rec : rec = record[writer]
    OBVIOUS
  <1>d. PICK changed : changed = PutField(rec, next, value)
    OBVIOUS
  <1>e. PICK values : values = truth[writer]
    OBVIOUS
  <1>f. PICK set : set = Bind(values, name, value)
    OBVIOUS
  <1>g. PICK grown : grown = Bind(table, name, next)
    OBVIOUS
  <1>h. PICK after : after = next + 1
    OBVIOUS
  <1>1. /\ GoodTable(table, next) /\ name \in Vendors /\ name \notin DOMAIN table
        /\ rec.hash = <<>> /\ value \in Values /\ grown = Bind(table, name, next)
    BY <1>a, <1>b, <1>c, <1>g DEF WireInv, SetNewField, Settable, Known
  <1>2. /\ GoodTable(grown, next + 1) /\ name \in FieldNames(grown)
        /\ NameTag(grown, name) = next /\ SameTags(table, grown)
        /\ PartOf(table, grown)
    BY ONLY <1>1, TableGrows
  <1>3. GoodTable(grown, after)
    BY ONLY <1>2, <1>h
  <1>4. \A q \in SifProcesses :
          ProcessInv(table, vendor_tags[q], q \in created, record[q], Entered(truth[q], unentered[q]))
    BY <1>a DEF WireInv
  <1>5. ASSUME NEW kept, IsRecord(table, kept), NEW v, Accurate(table, FieldNames(table), kept.slots, v)
        PROVE  IsRecord(grown, kept) /\ Accurate(grown, FieldNames(grown), kept.slots, v)
    <2>1. IsRecord(grown, kept)
      BY ONLY <1>2, <1>5, GrownRecord
    <2>2. Accurate(grown, FieldNames(grown), kept.slots, v)
      BY ONLY <1>1, <1>5, GrownAccurate
    <2> QED BY <2>1, <2>2
  <1>6. IsRecord(table, rec) /\ Accurate(table, FieldNames(table), rec.slots, values)
    BY <1>4, <1>a, <1>c, <1>e, NothingLost DEF WireInv, ProcessInv
  <1>7. IsRecord(grown, changed) /\ Accurate(grown, FieldNames(grown), changed.slots, set)
    <2>1. /\ IsRecord(grown, rec) /\ Accurate(grown, FieldNames(grown), rec.slots, values)
          /\ next = NameTag(grown, name)
      BY <1>2, <1>5, <1>6
    <2> QED BY ONLY <1>1, <1>2, <1>3, <1>d, <1>f, <2>1, FieldPut
  <1>8. /\ record' = [record EXCEPT ![writer] = changed] /\ truth' = [truth EXCEPT ![writer] = set]
        /\ vendor_tags' = [vendor_tags EXCEPT ![writer] = grown]
        /\ vendor_next' = [vendor_next EXCEPT ![writer] = after]
        /\ wire' = wire /\ created' = created \cup {writer} /\ unentered' = unentered
    BY <1>a, <1>b, <1>c, <1>d, <1>e, <1>f, <1>g, <1>h DEF SetNewField, SetField, CreateTable, PutField
  <1>9. /\ DOMAIN vendor_tags = SifProcesses /\ DOMAIN vendor_next = SifProcesses
        /\ DOMAIN record = SifProcesses /\ DOMAIN truth = SifProcesses
    BY DEF WireInv
  <1>10. /\ record'[writer] = changed /\ truth'[writer] = set /\ vendor_tags'[writer] = grown
         /\ vendor_next'[writer] = after
         /\ \A q \in SifProcesses : q # writer => /\ record'[q] = record[q] /\ truth'[q] = truth[q]
                                             /\ vendor_tags'[q] = vendor_tags[q]
    BY <1>8, <1>9
  <1>11. ASSUME NEW q \in SifProcesses
         PROVE  ProcessInv(grown, vendor_tags'[q], q \in created', record'[q],
                           Entered(truth'[q], unentered'[q]))
    <2>1. CASE q = writer
      <3>1. PartOf(grown, grown)
        BY DEF PartOf
      <3>2. q \in created'
        BY <1>8, <2>1
      <3>3. unentered'[writer] = {}
        BY <1>8 DEF WireInv
      <3>4. Accurate(grown, FieldNames(grown), changed.slots, Entered(set, {}))
        BY <1>7, NothingLost
      <3> QED BY <1>7, <1>10, <2>1, <3>1, <3>2, <3>3, <3>4 DEF ProcessInv
    <2>2. CASE q # writer
      <3>a. PICK part : part = vendor_tags[q]
        OBVIOUS
      <3>b. PICK kept : kept = record[q]
        OBVIOUS
      <3>c. PICK v : v = Entered(truth[q], unentered[q])
        OBVIOUS
      <3>1. /\ PartOf(part, table) /\ (q \notin created => DOMAIN part = {})
            /\ IsRecord(table, kept) /\ Accurate(table, FieldNames(part), kept.slots, v)
        BY <1>4, <3>a, <3>b, <3>c DEF ProcessInv
      <3>2. IsRecord(grown, kept)
        BY ONLY <1>2, <3>1, GrownRecord
      <3>3. FieldNames(part) \subseteq FieldNames(table)
        BY ONLY <1>1, <3>1, PartNames
      <3>4. Accurate(grown, FieldNames(part), kept.slots, v)
        BY ONLY <1>2, <3>1, <3>3, GrownPart
      <3>5. PartOf(part, grown)
        BY ONLY <1>2, <3>1 DEF PartOf
      <3>6. q \notin created' => DOMAIN part = {}
        BY <1>8, <3>1
      <3>7. vendor_tags'[q] = part /\ record'[q] = kept /\ Entered(truth'[q], unentered'[q]) = v
        BY <1>8, <1>10, <2>2, <3>a, <3>b, <3>c
      <3> QED BY <3>2, <3>4, <3>5, <3>6, <3>7 DEF ProcessInv
    <2> QED BY <2>1, <2>2
  <1>12. FrameInv(grown, wire)
    <2>1. FrameInv(table, wire)
      BY <1>a DEF WireInv
    <2>2. IsRecord(grown, wire.record) /\ Accurate(grown, FieldNames(grown), wire.record.slots, wire.truth)
      BY <1>5, <2>1 DEF FrameInv
    <2> QED BY <1>2, <2>1, <2>2 DEF FrameInv, PartOf
  <1>13. /\ DOMAIN vendor_tags' = SifProcesses /\ DOMAIN vendor_next' = SifProcesses
         /\ DOMAIN record' = SifProcesses /\ DOMAIN truth' = SifProcesses
         /\ DOMAIN unentered' = SifProcesses /\ unentered'[writer] = {}
    BY <1>8, <1>9 DEF WireInv
  <1> QED BY <1>3, <1>8, <1>10, <1>11, <1>12, <1>13 DEF WireInv

LEMMA AskForVendorFieldKeeps ==
  ASSUME NEW writer \in SifProcesses, WireInv(writer), NEW p \in SifProcesses, AskForVendorField(p)
  PROVE  WireInv(writer)'
  <1>1. /\ record' = record /\ truth' = truth /\ unentered' = unentered /\ created \subseteq created'
        /\ vendor_tags' = vendor_tags /\ vendor_next' = vendor_next /\ wire' = wire
    BY DEF AskForVendorField, CreateTable
  <1>2. \A q \in SifProcesses :
          ProcessInv(vendor_tags[writer], vendor_tags[q], q \in created', record[q],
                     Entered(truth[q], unentered[q]))
    BY <1>1 DEF WireInv, ProcessInv
  <1> QED BY <1>1, <1>2 DEF WireInv

LEMMA SealKeeps ==
  ASSUME NEW writer \in SifProcesses, WireInv(writer), NEW p \in SifProcesses, Seal(p)
  PROVE  WireInv(writer)'
  <1>a. PICK table : table = vendor_tags[writer]
    OBVIOUS
  <1>b. PICK rec : rec = record[p]
    OBVIOUS
  <1>c. PICK sealed : sealed = [rec EXCEPT !.hash = HashOf(rec)]
    OBVIOUS
  <1>1. /\ rec = [slots |-> rec.slots, message |-> rec.message, hash |-> rec.hash]
        /\ rec.slots # <<>> /\ rec.slots[1].tag = IdTag /\ IsRecord(table, rec)
        /\ Accurate(table, FieldNames(vendor_tags[p]), rec.slots, Entered(truth[p], unentered[p]))
    BY <1>a, <1>b DEF Seal, WireInv, ProcessInv, IsRecord
  <1>2. sealed.slots = rec.slots /\ sealed.message = rec.message /\ sealed.hash = HashOf(rec)
        /\ sealed = [slots |-> sealed.slots, message |-> sealed.message, hash |-> sealed.hash]
    BY <1>1, <1>c
  <1>3. HashOf(sealed) = HashOf(rec)
    BY <1>2 DEF HashOf
  <1>4. IsRecord(table, sealed)
    BY <1>1, <1>2, <1>3 DEF IsRecord
  <1>5. Accurate(table, FieldNames(vendor_tags[p]), sealed.slots, Entered(truth[p], unentered[p]))
    BY <1>1, <1>2
  <1>6. /\ OnlyAt(record, record', p, sealed) /\ OnlyAt(truth, truth', p, truth[p])
        /\ OnlyAt(unentered, unentered', p, unentered[p]) /\ (p = writer => unentered[p] = {})
        /\ vendor_tags' = vendor_tags /\ vendor_next' = vendor_next /\ wire' = wire
        /\ created' = created
    <2>1. record' = [record EXCEPT ![p].hash = HashOf(record[p])] /\ p \in DOMAIN record
      BY DEF Seal, WireInv
    <2>2. truth' = truth /\ unentered' = unentered /\ unentered[writer] = {}
      BY DEF Seal, WireInv
    <2> QED BY <1>b, <1>c, <2>1, <2>2 DEF Seal, OnlyAt
  <1> QED BY <1>4, <1>5, <1>6, <1>a, RecordChanges

LEMMA DiscardKeeps ==
  ASSUME NEW writer \in SifProcesses, WireInv(writer), NEW p \in SifProcesses, Discard(p)
  PROVE  WireInv(writer)'
  <1>a. PICK table : table = vendor_tags[writer]
    OBVIOUS
  <1>1. GoodTable(table, vendor_next[writer]) /\ PartOf(vendor_tags[p], table)
    BY <1>a DEF WireInv, ProcessInv
  <1>2. FieldNames(vendor_tags[p]) \subseteq FieldNames(table)
    BY <1>1, PartNames
  <1>3. /\ IsRecord(table, NoRecord) /\ \A i \in DOMAIN NoRecord.slots : NoRecord.slots[i].tag = IdTag
        /\ DOMAIN Entered(NoTruth, {}) = {}
    BY EmptyRecord DEF Entered
  <1>4. Accurate(table, FieldNames(vendor_tags[p]), NoRecord.slots, Entered(NoTruth, {}))
    BY ONLY <1>1, <1>2, <1>3, NothingHeld
  <1>5. /\ OnlyAt(record, record', p, NoRecord) /\ OnlyAt(truth, truth', p, NoTruth)
        /\ OnlyAt(unentered, unentered', p, {})
        /\ vendor_tags' = vendor_tags /\ vendor_next' = vendor_next /\ wire' = wire
        /\ created' = created
    BY DEF Discard, OnlyAt
  <1> QED BY <1>3, <1>4, <1>5, <1>a, RecordChanges

LEMMA VendorName ==
  ASSUME NEW writer, NEW table, table = vendor_tags[writer], NEW next, GoodTable(table, next),
         NEW tag, HasName(table, tag), IsVendor(tag), NEW name \in NameOf(writer, tag)
  PROVE  name \in DOMAIN table /\ table[name] = tag
  <1>1. /\ \A m \in DOMAIN Core : Core[m] \in Int /\ Core[m] < FirstVendorTag
        /\ FirstVendorTag > IdTag /\ FirstVendorTag \in Nat /\ IdTag \in Nat
    BY SifAssumption DEF IdTag
  <1>2. /\ tag # IdTag
        /\ \A m \in DOMAIN Core : Core[m] # tag
    <2>1. tag \in Nat /\ tag >= FirstVendorTag
      BY FreshTag DEF IsVendor
    <2> QED BY <1>1, <2>1
  <1>3. PICK m \in FieldNames(table) : NameTag(table, m) = tag
    BY <1>2 DEF HasName
  <1>4. m \in Known(writer) /\ vendor_tags[writer][m] = tag
    BY <1>2, <1>3 DEF FieldNames, NameTag, Known
  <1>5. name \in NamesFor(writer, tag)
    BY <1>4 DEF NameOf, NamesFor
  <1> QED BY <1>2, <1>5 DEF NamesFor, Known

LEMMA EncodeFrameKeeps ==
  ASSUME NEW writer \in SifProcesses, WireInv(writer), EncodeFrame(writer)
  PROVE  WireInv(writer)'
  <1>a. PICK table : table = vendor_tags[writer]
    OBVIOUS
  <1>b. PICK next : next = vendor_next[writer]
    OBVIOUS
  <1>1. PICK names \in [DOMAIN record[writer].slots ->
                          UNION {NameOf(writer, field.tag) : field \in Range(record[writer].slots)}] :
          /\ \A i \in DOMAIN names : names[i] \in NameOf(writer, record[writer].slots[i].tag)
          /\ wire' = [record |-> record[writer], names |-> names, truth |-> truth[writer]]
    BY DEF EncodeFrame
  <1>2. /\ wire'.record = record[writer] /\ wire'.names = names /\ wire'.truth = truth[writer]
        /\ DOMAIN names = DOMAIN record[writer].slots
    BY <1>1
  <1>3. /\ GoodTable(table, next) /\ IsRecord(table, record[writer])
        /\ Accurate(table, FieldNames(table), record[writer].slots, truth[writer])
    BY <1>a, <1>b, NothingLost DEF WireInv, ProcessInv
  <1>c. PICK slots : slots = record[writer].slots
    OBVIOUS
  <1>4. ASSUME NEW i \in DOMAIN slots, IsVendor(slots[i].tag)
        PROVE  names[i] \in DOMAIN table /\ table[names[i]] = slots[i].tag
    <2>a. PICK tag : tag = slots[i].tag
      OBVIOUS
    <2>b. PICK name : name = names[i]
      OBVIOUS
    <2>1. HasName(table, tag) /\ IsVendor(tag)
      BY <1>3, <1>4, <1>c, <2>a DEF IsRecord
    <2>2. name \in NameOf(writer, tag)
      BY <1>1, <1>2, <1>4, <1>c, <2>a, <2>b
    <2>3. name \in DOMAIN table /\ table[name] = tag
      BY ONLY <1>3, <1>a, <2>1, <2>2, VendorName
    <2> QED BY <2>3, <2>a, <2>b
  <1>5. FrameInv(table, wire')
    BY <1>2, <1>3, <1>4, <1>c DEF FrameInv
  <1>6. /\ record' = record /\ truth' = truth /\ unentered' = unentered /\ created' = created
        /\ vendor_tags' = vendor_tags /\ vendor_next' = vendor_next
    BY DEF EncodeFrame
  <1> QED BY <1>5, <1>6, <1>a DEF WireInv

(* The values a reader finds are those of the names it could enter.        *)
LEMMA DecodedValues ==
  ASSUME NEW writer \in SifProcesses, WireInv(writer), NEW p \in SifProcesses, Decodes,
         NEW gone, gone = IF p \in created THEN {} ELSE DOMAIN wire.truth \cap Vendors,
         NEW values, values = Entered(wire.truth, gone)
  PROVE  /\ Accurate(vendor_tags[writer], FieldNames(TableAfter(p)), Decoded.slots, values)
         /\ p = writer => gone = {}
  <1>a. PICK table : table = vendor_tags[writer]
    OBVIOUS
  <1>b. PICK next : next = vendor_next[writer]
    OBVIOUS
  <1>c. PICK after : after = TableAfter(p)
    OBVIOUS
  <1>d. PICK slots : slots = wire.record.slots
    OBVIOUS
  <1>e. PICK other : other = Decoded.slots
    OBVIOUS
  <1>f. PICK truths : truths = wire.truth
    OBVIOUS
  <1>1. /\ GoodTable(table, next) /\ FrameInv(table, wire) /\ IsRecord(table, wire.record)
        /\ Accurate(table, FieldNames(table), slots, truths)
    BY <1>a, <1>b, <1>d, <1>f DEF WireInv, FrameInv
  <1>2. SameBut(IdTag, slots, other)
    BY <1>1, <1>d, <1>e, DecodedRecord
  <1>3. /\ PartOf(after, table) /\ (p \notin created => DOMAIN after = {})
        /\ p \in created => \A name : Entering(name) # {} => name \in DOMAIN after
    BY <1>a, <1>c, TableAfterDecode
  <1>4. FieldNames(after) \subseteq FieldNames(table)
    BY ONLY <1>1, <1>3, PartNames
  <1>5. DOMAIN truths \subseteq DOMAIN Core \cup DOMAIN table
    BY <1>1 DEF Accurate, FieldNames
  <1>6. /\ DOMAIN values \subseteq FieldNames(after)
        /\ \A m \in FieldNames(after) : m \in DOMAIN truths <=> m \in DOMAIN values
        /\ \A m \in FieldNames(after) : m \in DOMAIN truths => truths[m] = values[m]
    <2>a. /\ DOMAIN values = DOMAIN truths \ gone
          /\ \A m \in DOMAIN values : values[m] = truths[m]
      BY <1>f DEF Entered
    <2>1. CASE p \in created
      <3>1. DOMAIN values = DOMAIN truths
        BY <1>f, <2>1, <2>a
      <3>2. \A m \in DOMAIN truths : m \in DOMAIN table => m \in DOMAIN after
        <4>1. \A m \in DOMAIN truths : m \in DOMAIN table => Entering(m) # {}
          BY <1>1, <1>f, EntersAll
        <4> QED BY <1>3, <2>1, <4>1
      <3> QED BY <1>5, <2>a, <3>1, <3>2 DEF FieldNames
    <2>2. CASE p \notin created
      <3>1. DOMAIN values = DOMAIN truths \cap DOMAIN Core
        BY <1>1, <1>5, <1>f, <2>2, <2>a, SifAssumption DEF GoodTable
      <3>2. FieldNames(after) = DOMAIN Core
        BY <1>3, <2>2 DEF FieldNames
      <3> QED BY <2>a, <3>1, <3>2
    <2> QED BY <2>1, <2>2
  <1>7. Accurate(table, FieldNames(after), other, values)
    BY ONLY <1>1, <1>2, <1>4, <1>6, ReadAccurate
  <1>8. ASSUME p = writer
        PROVE  gone = {}
    <2>1. p \notin created => DOMAIN table = {}
      BY <1>8, <1>a DEF WireInv, ProcessInv
    <2> QED BY <1>5, <1>f, <2>1, SifAssumption
  <1> QED BY <1>7, <1>8, <1>a, <1>c, <1>e

LEMMA DecodeFrameKeeps ==
  ASSUME NEW writer \in SifProcesses, WireInv(writer), NEW p \in SifProcesses, DecodeFrame(p)
  PROVE  WireInv(writer)'
  <1>a. PICK table : table = vendor_tags[writer]
    OBVIOUS
  <1>b. PICK next : next = vendor_next[writer]
    OBVIOUS
  <1>c. PICK after : after = TableAfter(p)
    OBVIOUS
  <1>1. /\ GoodTable(table, next) /\ FrameInv(table, wire) /\ IsRecord(table, wire.record)
        /\ \A q \in SifProcesses :
             ProcessInv(table, vendor_tags[q], q \in created, record[q], Entered(truth[q], unentered[q]))
        /\ DOMAIN vendor_tags = SifProcesses /\ DOMAIN vendor_next = SifProcesses
        /\ DOMAIN record = SifProcesses /\ DOMAIN truth = SifProcesses
        /\ DOMAIN unentered = SifProcesses /\ unentered[writer] = {}
    BY <1>a, <1>b DEF WireInv, FrameInv
  <1>2. /\ PartOf(after, table) /\ (p \notin created => DOMAIN after = {})
        /\ p = writer => after = table
    BY <1>a, <1>c, TableAfterDecode
  <1>3. /\ vendor_tags' = [vendor_tags EXCEPT ![p] = after] /\ wire' = NoFrame
        /\ created' = created /\ vendor_next' = vendor_next /\ record[p] = NoRecord
    BY <1>c DEF DecodeFrame
  <1>4. /\ vendor_tags'[p] = after /\ DOMAIN vendor_tags' = SifProcesses
        /\ \A q \in SifProcesses : q # p => vendor_tags'[q] = vendor_tags[q]
        /\ vendor_tags'[writer] = table
    BY <1>1, <1>2, <1>3, <1>a
  <1>5. FieldNames(after) \subseteq FieldNames(table)
    BY ONLY <1>1, <1>2, PartNames
  <1>6. /\ DOMAIN record' = SifProcesses /\ DOMAIN truth' = SifProcesses /\ DOMAIN unentered' = SifProcesses
        /\ \A q \in SifProcesses : q # p => /\ record'[q] = record[q] /\ truth'[q] = truth[q]
                                            /\ unentered'[q] = unentered[q]
        /\ unentered'[writer] = {} /\ IsRecord(table, record'[p])
        /\ Accurate(table, FieldNames(after), record'[p].slots, Entered(truth'[p], unentered'[p]))
    <2>1. CASE Decodes
      <3>a. PICK gone : gone = IF p \in created THEN {} ELSE DOMAIN wire.truth \cap Vendors
        OBVIOUS
      <3>b. PICK decoded : decoded = Decoded
        OBVIOUS
      <3>c. PICK values : values = wire.truth
        OBVIOUS
      <3>1. /\ record' = [record EXCEPT ![p] = decoded] /\ truth' = [truth EXCEPT ![p] = values]
            /\ unentered' = [unentered EXCEPT ![p] = gone]
        BY <2>1, <3>a, <3>b, <3>c DEF DecodeFrame
      <3>2. IsRecord(table, decoded)
        BY <1>1, <3>b, DecodedRecord
      <3>3. /\ Accurate(table, FieldNames(after), decoded.slots, Entered(values, gone))
            /\ p = writer => gone = {}
        BY <1>a, <1>c, <2>1, <3>a, <3>b, <3>c, DecodedValues
      <3> QED BY <1>1, <3>1, <3>2, <3>3
    <2>2. CASE ~Decodes
      <3>1. record' = record /\ truth' = truth /\ unentered' = unentered
        BY <2>2 DEF DecodeFrame
      <3>2. /\ IsRecord(table, NoRecord) /\ \A i \in DOMAIN NoRecord.slots : NoRecord.slots[i].tag = IdTag
            /\ DOMAIN NoRecord.slots = {}
        BY EmptyRecord, NoSlots DEF NoRecord
      <3>3. DOMAIN Entered(truth[p], unentered[p]) = {}
        <4>1. Accurate(table, FieldNames(vendor_tags[p]), NoRecord.slots, Entered(truth[p], unentered[p]))
          BY <1>1, <1>3 DEF ProcessInv
        <4> QED BY <3>2, <4>1 DEF Accurate, Holds, Carries
      <3>a. PICK values : values = Entered(truth[p], unentered[p])
        OBVIOUS
      <3>4. Accurate(table, FieldNames(after), NoRecord.slots, values)
        <4>1. DOMAIN values = {}
          BY <3>3, <3>a
        <4> QED BY ONLY <1>1, <1>5, <3>2, <4>1, NothingHeld
      <3> QED BY <1>1, <1>3, <3>1, <3>2, <3>4, <3>a
    <2> QED BY <2>1, <2>2
  <1>7. ASSUME NEW q \in SifProcesses
        PROVE  ProcessInv(table, vendor_tags'[q], q \in created', record'[q],
                          Entered(truth'[q], unentered'[q]))
    <2>1. CASE q = p
      BY <1>2, <1>3, <1>4, <1>6, <2>1 DEF ProcessInv
    <2>2. CASE q # p
      BY <1>1, <1>3, <1>4, <1>6, <2>2
    <2> QED BY <2>1, <2>2
  <1>8. FrameInv(table, NoFrame)
    <2>1. /\ IsRecord(table, NoRecord) /\ \A i \in DOMAIN NoRecord.slots : NoRecord.slots[i].tag = IdTag
          /\ DOMAIN NoTruth = {} /\ FieldNames(table) \subseteq FieldNames(table)
      BY EmptyRecord
    <2>2. Accurate(table, FieldNames(table), NoRecord.slots, NoTruth)
      BY ONLY <1>1, <2>1, NothingHeld
    <2>3. NoFrame.record = NoRecord /\ NoFrame.truth = NoTruth /\ NoFrame.names = <<>>
      BY DEF NoFrame
    <2>4. DOMAIN NoFrame.names = {} /\ DOMAIN NoFrame.record.slots = {}
      <3>1. NoRecord.slots = <<>>
        BY ONLY TRUE DEF NoRecord
      <3>2. NoFrame.record.slots = <<>>
        BY <2>3, <3>1
      <3> QED BY <2>3, <3>2, NoSlots
    <2> QED BY <2>1, <2>2, <2>3, <2>4 DEF FrameInv
  <1>9. GoodTable(vendor_tags'[writer], vendor_next'[writer]) /\ DOMAIN vendor_next' = SifProcesses
    BY <1>1, <1>3, <1>4, <1>b
  <1> QED BY <1>3, <1>4, <1>6, <1>7, <1>8, <1>9 DEF WireInv

LEMMA WireStepKeeps ==
  ASSUME NEW writer, Writers = {writer}, WireInv(writer), [WireNext]_wirevars
  PROVE  WireInv(writer)'
  <1>1. writer \in SifProcesses /\ Writers = {writer}
    BY DEF SifProcesses
  <1>2. CASE UNCHANGED wirevars
    BY <1>2 DEF wirevars, WireInv
  <1>3. ASSUME NEW id \in {"", "id"}, NEW message \in Messages, CreateRecord(writer, id, message)
        PROVE  WireInv(writer)'
    BY <1>1, <1>3, CreateRecordKeeps
  <1>4. ASSUME NEW value \in Values, NEW name \in DOMAIN Core, SetCoreField(writer, name, value)
        PROVE  WireInv(writer)'
    <2>a. PICK tag : tag = Core[name]
      OBVIOUS
    <2>1. /\ name \in FieldNames(vendor_tags[writer]) /\ tag = NameTag(vendor_tags[writer], name)
          /\ Settable(writer) /\ SetField(writer, name, tag, value)
          /\ UNCHANGED <<created, vendor_tags, vendor_next, unentered, wire>>
      BY <1>4, <2>a DEF SetCoreField, FieldNames, NameTag
    <2> QED BY <1>1, <2>1, SetFieldKeeps
  <1>5. ASSUME NEW value \in Values, NEW name \in Vendors, SetKnownField(writer, name, value)
        PROVE  WireInv(writer)'
    <2>a. PICK tag : tag = vendor_tags[writer][name]
      OBVIOUS
    <2>1. /\ name \in FieldNames(vendor_tags[writer]) /\ tag = NameTag(vendor_tags[writer], name)
          /\ Settable(writer) /\ SetField(writer, name, tag, value)
          /\ UNCHANGED <<created, vendor_tags, vendor_next, unentered, wire>>
      BY <1>5, <2>a, SifAssumption DEF SetKnownField, Known, FieldNames, NameTag
    <2> QED BY <1>1, <2>1, SetFieldKeeps
  <1>6. ASSUME NEW value \in Values, NEW name \in Vendors, SetNewField(writer, name, value)
        PROVE  WireInv(writer)'
    BY <1>1, <1>6, SetNewFieldKeeps
  <1>7. CASE Seal(writer)
    BY <1>1, <1>7, SealKeeps
  <1>8. CASE EncodeFrame(writer)
    BY <1>1, <1>8, EncodeFrameKeeps
  <1>9. ASSUME NEW p \in SifProcesses, AskForVendorField(p) \/ Discard(p) \/ DecodeFrame(p)
        PROVE  WireInv(writer)'
    BY <1>1, <1>9, AskForVendorFieldKeeps, DiscardKeeps, DecodeFrameKeeps
  <1> QED BY <1>1, <1>2, <1>3, <1>4, <1>5, <1>6, <1>7, <1>8, <1>9 DEF WireNext

LEMMA FieldReads ==
  ASSUME NEW writer \in SifProcesses, WireInv(writer), NEW p \in SifProcesses,
         NEW name \in DOMAIN Core \cup Vendors
  PROVE  FieldGet(p, name) =
           IF name \in DOMAIN truth[p] \ unentered[p] THEN truth[p][name] ELSE "not found"
  <1>a. PICK table : table = vendor_tags[writer]
    OBVIOUS
  <1>b. PICK next : next = vendor_next[writer]
    OBVIOUS
  <1>c. PICK part : part = vendor_tags[p]
    OBVIOUS
  <1>d. PICK slots : slots = record[p].slots
    OBVIOUS
  <1>e. PICK values : values = Entered(truth[p], unentered[p])
    OBVIOUS
  <1>f. PICK tag : tag = TagOf(p, name)
    OBVIOUS
  <1>1. /\ GoodTable(table, next) /\ PartOf(part, table)
        /\ Accurate(table, FieldNames(part), slots, values) /\ Distinct(slots)
        /\ \A i \in DOMAIN slots : HasName(table, slots[i].tag)
    BY <1>a, <1>b, <1>c, <1>d, <1>e DEF WireInv, ProcessInv, IsRecord
  <1>2. FieldGet(p, name) = ValueOf(slots, tag)
    BY <1>d, <1>f DEF FieldGet
  <1>3. ASSUME name \in FieldNames(part)
        PROVE  FieldGet(p, name) = IF name \in DOMAIN values THEN values[name] ELSE "not found"
    <2>1. tag = NameTag(table, name)
      BY <1>1, <1>3, <1>c, <1>f DEF TagOf, Known, FieldNames, NameTag, PartOf
    <2>2. Holds(slots, tag, name, values)
      BY <1>1, <1>3, <2>1 DEF Accurate
    <2>3. CASE name \in DOMAIN values
      <3>1. PICK i \in DOMAIN slots : slots[i].tag = tag /\ slots[i].value = values[name]
        BY <2>2, <2>3 DEF Holds, Carries
      <3>2. HasSlot(slots, tag)
        BY <3>1 DEF HasSlot
      <3>3. SlotOf(slots, tag) = i
        BY <1>1, <3>1, <3>2, SlotOfTag DEF Distinct
      <3> QED BY <1>2, <2>3, <3>1, <3>2, <3>3 DEF ValueOf
    <2>4. CASE name \notin DOMAIN values
      <3>1. ~HasSlot(slots, tag)
        BY <2>2, <2>4 DEF Holds, HasSlot
      <3> QED BY <1>2, <2>4, <3>1 DEF ValueOf
    <2> QED BY <2>3, <2>4
  <1>4. ASSUME name \notin FieldNames(part)
        PROVE  FieldGet(p, name) = IF name \in DOMAIN values THEN values[name] ELSE "not found"
    <2>1. tag = 0 /\ name \notin DOMAIN values
      BY <1>1, <1>4, <1>c, <1>f DEF TagOf, Known, FieldNames, Accurate
    <2>2. \A i \in DOMAIN slots : slots[i].tag # 0
      <3>1. \A i \in DOMAIN slots : slots[i].tag \in Nat /\ slots[i].tag >= IdTag
        BY <1>1, FreshTag
      <3> QED BY <3>1 DEF IdTag
    <2>3. ~HasSlot(slots, tag)
      BY <2>1, <2>2 DEF HasSlot
    <2> QED BY <1>2, <2>1, <2>3 DEF ValueOf
  <1>5. FieldGet(p, name) = IF name \in DOMAIN values THEN values[name] ELSE "not found"
    BY <1>3, <1>4
  <1> QED BY <1>5, <1>e DEF Entered

LEMMA FrameDecodes ==
  ASSUME NEW table, FrameInv(table, wire),
         \A i \in DOMAIN wire.names : wire.names[i] \notin BadVendors
  PROVE  Decodes
  <1>a. PICK slots : slots = FrameSlots
    OBVIOUS
  <1>1. /\ slots \in Seq(SlotSet) /\ Distinct(slots) /\ DOMAIN wire.names = DOMAIN slots
        /\ IsRecord(table, wire.record)
    BY <1>a DEF FrameInv, IsRecord, FrameSlots
  <1>2. DOMAIN slots = 1..Len(slots) /\ Len(slots) \in Nat
    <2> HIDE DEF SlotSet
    <2> QED BY <1>1
  <1>3. ASSUME NEW i \in DOMAIN slots
        PROVE  FieldRead(i)
    <2>1. ASSUME NEW j \in 1..i
          PROVE  /\ wire.names[j] \notin BadVendors
                 /\ \A k \in 1..j - 1 : slots[k].tag # slots[j].tag
      <3>1. j \in DOMAIN slots /\ \A k \in 1..j - 1 : k \in DOMAIN slots /\ k # j
        BY <1>2, <1>3, <2>1
      <3> QED BY <1>1, <3>1 DEF Distinct
    <2> QED BY <2>1, <1>a DEF FieldRead
  <1>4. wire.record.hash # <<>> => wire.record.hash = HashOf(Decoded)
    <2>1. wire.record.hash # <<>> => Decoded = wire.record
      BY <1>1, DecodedRecord
    <2>2. wire.record.hash # <<>> => wire.record.hash = HashOf(wire.record)
      BY <1>1 DEF IsRecord
    <2> QED BY <2>1, <2>2
  <1> QED BY <1>3, <1>4, <1>a DEF Decodes

(* SifCodec: if one process sets fields, what is read from a record is what *)
(* was put in it, by the process that made it and by every process that    *)
(* was sent its frame.  Except for the vendor fields of a frame that came   *)
(* before its reader had a table (`unentered`): no name finds those.       *)
THEOREM WireReadBack ==
  ASSUME NEW writer, Writers = {writer}
  PROVE  WireSpec => []FieldsReadBack
  <1>1. writer \in SifProcesses
    BY DEF SifProcesses
  <1>2. WireInit => WireInv(writer)
    BY <1>1, WireInitHolds
  <1>3. WireInv(writer) /\ [WireNext]_wirevars => WireInv(writer)'
    BY WireStepKeeps
  <1>4. WireInv(writer) => FieldsReadBack
    <2> SUFFICES ASSUME WireInv(writer) PROVE FieldsReadBack
      OBVIOUS
    <2>1. \A p \in SifProcesses, name \in DOMAIN Core \cup Vendors :
            FieldGet(p, name) =
              IF name \in DOMAIN truth[p] \ unentered[p] THEN truth[p][name] ELSE "not found"
      BY <1>1, FieldReads
    <2>2. FrameInv(vendor_tags[writer], wire)
      BY DEF WireInv
    <2>3. Decodes \/ \E i \in DOMAIN wire.names : wire.names[i] \in BadVendors
      BY <2>2, FrameDecodes
    <2> QED BY <2>1, <2>3 DEF FieldsReadBack
  <1> QED BY <1>2, <1>3, <1>4, PTL DEF WireSpec

(***************************************************************************)
(* The frame scanner (SifCodec)                                            *)
(*                                                                         *)
(* What the scanner has not returned is a row of whole frames, in the      *)
(* order they were encoded and up to the last one, wherever it is cut into *)
(* buffer and chunks.                                                      *)
(***************************************************************************)

Bytes == Nat \X Nat

(* Byte k of s stands in a frame that is whole, with the next one behind.  *)
FrameAround(s, k) ==
  LET i == s[k][1]
      first == k - s[k][2]
  IN /\ i \in 1..Len(stream) /\ s[k][2] \in 1..Width(i)
     /\ first >= 0 /\ first + Width(i) <= Len(s)
     /\ \A m \in 1..Width(i) : s[first + m] = <<i, m>>
     /\ first + Width(i) < Len(s) => s[first + Width(i) + 1] = <<i + 1, 1>>

RowOfFrames(s) ==
  /\ s \in Seq(Bytes)
  /\ \A k \in 1..Len(s) : FrameAround(s, k)
  /\ Len(s) > 0 => /\ s[1][2] = 1
                   /\ s[Len(s)] = <<Len(stream), Width(Len(stream))>>

FirstOf(s) == IF Len(s) = 0 THEN Len(stream) + 1 ELSE s[1][1]

StreamTypes ==
  /\ stream \in Seq([size : 1..max_frame_size, good : BOOLEAN])
  /\ unread \in Seq(Bytes) /\ buffer \in Seq(Bytes) /\ cursor \in 0..Len(buffer)
  /\ yielded \in Seq(Seq(Bytes))

ReturnedUpTo(out, n) ==
  /\ \A k \in DOMAIN out : \E i \in 1..n - 1 : stream[i].good /\ out[k] = Payload(i)
  /\ \A i \in 1..n - 1 : stream[i].good => \E k \in DOMAIN out : out[k] = Payload(i)
  /\ \A j, k \in DOMAIN out : j < k => out[j][1][1] < out[k][1][1]

StreamInv ==
  /\ StreamTypes
  /\ RowOfFrames(Unreturned)
  /\ ReturnedUpTo(yielded, FirstOf(Unreturned))

LEMMA FrameWidths ==
  ASSUME StreamTypes, NEW i \in 1..Len(stream)
  PROVE  /\ Width(i) \in Nat /\ Width(i) > StreamPrefix /\ StreamPrefix \in Nat \ {0}
         /\ Width(i) <= StreamPrefix + max_frame_size /\ max_frame_size \in Nat
         /\ stream[i].size \in Nat \ {0} /\ Width(i) = StreamPrefix + stream[i].size
         /\ stream[i].good \in BOOLEAN
  <1> DEFINE Frames == [size : 1..max_frame_size, good : BOOLEAN]
  <1>1. stream[i] \in Frames
    <2>1. stream \in Seq(Frames)
      BY DEF StreamTypes
    <2> HIDE DEF Frames
    <2> QED BY <2>1
  <1>2. stream[i].size \in 1..max_frame_size /\ stream[i].good \in BOOLEAN
    BY <1>1
  <1> QED BY <1>2, SifAssumption DEF Width

LEMMA FrameNumbers ==
  ASSUME StreamTypes, NEW s \in Seq(Bytes), NEW k \in 1..Len(s), FrameAround(s, k)
  PROVE  /\ s[k][1] \in 1..Len(stream) /\ s[k][1] \in Nat /\ s[k][2] \in Nat
         /\ Width(s[k][1]) \in Nat
  <1>1. s[k] \in Bytes
    OBVIOUS
  <1>2. s[k][1] \in Nat /\ s[k][2] \in Nat
    BY <1>1 DEF Bytes
  <1>3. s[k][1] \in 1..Len(stream)
    BY DEF FrameAround
  <1> QED BY <1>2, <1>3, FrameWidths

(* The first frame of a row.                                               *)
LEMMA FirstFrame ==
  ASSUME StreamTypes, NEW s, RowOfFrames(s), Len(s) > 0
  PROVE  /\ FirstOf(s) = s[1][1] /\ FirstOf(s) \in 1..Len(stream)
         /\ Width(FirstOf(s)) \in 1..Len(s) /\ Len(s) \in Nat
         /\ \A m \in 1..Width(FirstOf(s)) : s[m] = <<FirstOf(s), m>>
  <1> DEFINE i == s[1][1]
  <1>1. Len(s) \in Nat /\ 1 \in 1..Len(s) /\ s[1][2] = 1
    BY DEF RowOfFrames
  <1>2. FrameAround(s, 1)
    BY <1>1 DEF RowOfFrames
  <1>3. FirstOf(s) = i
    BY <1>1 DEF FirstOf
  <1>4. i \in 1..Len(stream) /\ 0 + Width(i) <= Len(s)
        /\ \A m \in 1..Width(i) : s[0 + m] = <<i, m>>
    BY <1>1, <1>2 DEF FrameAround
  <1>5. Width(i) \in Nat /\ Width(i) > 0
    BY <1>4, FrameWidths
  <1> HIDE DEF i
  <1> QED BY <1>1, <1>3, <1>4, <1>5 DEF i

(* The frame at the head of a row is taken away.                           *)
LEMMA RestOfRow ==
  ASSUME StreamTypes, NEW s, RowOfFrames(s), Len(s) > 0,
         NEW t, t = SubSeq(s, Width(FirstOf(s)) + 1, Len(s))
  PROVE  RowOfFrames(t) /\ FirstOf(t) = FirstOf(s) + 1
  <1> DEFINE i == FirstOf(s)
             wide == Width(i)
             n == Len(stream)
             l == Len(s)
  <1>1. /\ i \in 1..n /\ i \in Nat /\ wide \in 1..l /\ wide \in Nat /\ l \in Nat
        /\ \A m \in 1..wide : s[m] = <<i, m>>
        /\ n \in Nat
    <2>1. n \in Nat
      BY DEF StreamTypes
    <2>2. /\ i \in 1..n /\ wide \in 1..l /\ l \in Nat
          /\ \A m \in 1..wide : s[m] = <<i, m>>
      BY FirstFrame
    <2> QED BY <2>1, <2>2
  <1>2. s \in Seq(Bytes) /\ s[l] = <<n, Width(n)>> /\ s[1][2] = 1
        /\ \A k \in 1..l : FrameAround(s, k)
    BY DEF RowOfFrames
  <1>3. /\ t \in Seq(Bytes) /\ Len(t) = l - wide
        /\ \A k \in 1..l - wide : t[k] = s[wide + k]
    <2>1. s \in Seq(Bytes) /\ wide \in 0..l /\ l = Len(s) /\ t = SubSeq(s, wide + 1, l)
      BY <1>1, <1>2
    <2> HIDE DEF wide, l, i, n
    <2> QED BY ONLY <2>1, CutForm
  <1> HIDE DEF i, wide, n, l
  <1>a. PICK next : next = i + 1
    OBVIOUS
  <1>0. next \in Nat /\ next = i + 1 /\ l \in Nat /\ wide \in Nat /\ wide <= l
    BY <1>1, <1>a
  <1>4. wide < l => s[wide + 1] = <<next, 1>>
    <2>1. FrameAround(s, 1) /\ s[1] = <<i, 1>> /\ 1 \in 1..wide
      BY <1>1, <1>2
    <2>2. s[1][1] = i /\ s[1][2] = 1
      BY <2>1
    <2>3. 0 + wide < l => s[0 + wide + 1] = <<i + 1, 1>>
      BY <2>1, <2>2 DEF FrameAround, wide, l
    <2> QED BY <1>0, <1>1, <2>3
  <1>5. FirstOf(t) = next
    <2>1. CASE wide < l
      <3>1. 1 \in 1..l - wide /\ l - wide # 0
        BY <1>1, <2>1
      <3>2. t[1] = s[wide + 1]
        BY <1>3, <3>1
      <3>3. t[1] = <<next, 1>>
        BY <1>4, <2>1, <3>2
      <3>4. t[1][1] = next
        BY <3>3, PairParts
      <3> QED BY <1>3, <3>1, <3>4 DEF FirstOf
    <2>2. CASE wide = l
      <3>1. s[wide] = <<i, wide>>
        BY <1>1
      <3>2. i = n
        BY <1>2, <2>2, <3>1
      <3>3. l - wide = 0
        BY <1>1, <2>2
      <3> QED BY <1>0, <1>3, <3>2, <3>3 DEF FirstOf, n
    <2> QED BY <1>0, <2>1, <2>2
  <1>6. Len(t) > 0 => t[1][2] = 1 /\ t[Len(t)] = <<n, Width(n)>>
    <2> SUFFICES ASSUME Len(t) > 0
                 PROVE  t[1][2] = 1 /\ t[Len(t)] = <<n, Width(n)>>
      OBVIOUS
    <2>1. wide < l /\ 1 \in 1..l - wide /\ l - wide \in 1..l - wide /\ wide + (l - wide) = l
      BY <1>1, <1>3
    <2>2. t[1] = s[wide + 1]
      BY <1>3, <2>1
    <2>3. t[1] = <<next, 1>>
      BY <1>4, <2>1, <2>2
    <2>4. t[Len(t)] = s[wide + (l - wide)]
      BY <1>3, <2>1
    <2>5. t[1][2] = 1
      BY ONLY <2>3, PairParts
    <2>6. t[Len(t)] = <<n, Width(n)>>
      BY <1>2, <2>1, <2>4
    <2> QED BY <2>5, <2>6
  <1>7. ASSUME NEW k \in 1..l - wide PROVE FrameAround(t, k)
    <2>a. PICK k1 : k1 = wide + k
      OBVIOUS
    <2>b. PICK f : f = s[k1][1]
      OBVIOUS
    <2>c. PICK j : j = s[k1][2]
      OBVIOUS
    <2>d. PICK v : v = Width(f)
      OBVIOUS
    <2>e. PICK at : at = k1 - j
      OBVIOUS
    <2>1. k1 \in 1..l /\ k1 \in Nat /\ k \in Nat
      BY <1>1, <2>a
    <2>2. FrameAround(s, k1) /\ t[k] = s[k1]
      BY <1>2, <1>3, <2>1, <2>a
    <2>3. f \in Nat /\ j \in Nat /\ v \in Nat
      BY <1>2, <2>1, <2>2, <2>b, <2>c, <2>d, FrameNumbers DEF l
    <2>4. at \in Int
      BY <2>1, <2>3, <2>e
    <2>5. /\ f \in 1..n /\ j \in 1..v /\ at >= 0 /\ at + v <= l
          /\ \A m \in 1..v : s[at + m] = <<f, m>>
          /\ at + v < l => s[at + v + 1] = <<f + 1, 1>>
      <3>1. FrameAround(s, k1)
        BY <2>2
      <3>2. /\ f \in 1..Len(stream) /\ j \in 1..v /\ at >= 0 /\ at + v <= Len(s)
            /\ \A m \in 1..v : s[at + m] = <<f, m>>
            /\ at + v < Len(s) => s[at + v + 1] = <<f + 1, 1>>
        BY ONLY <2>1, <2>3, <2>4, <2>b, <2>c, <2>d, <2>e, <3>1 DEF FrameAround
      <3> QED BY <3>2 DEF n, l
    <2>6. t[k][1] = f /\ t[k][2] = j
      BY <2>2, <2>b, <2>c
    <2>7. at >= wide
      <3> SUFFICES ASSUME at < wide PROVE FALSE
        BY <1>1, <2>4
      <3>1. wide - at \in 1..v /\ at + (wide - at) = wide
        BY <1>1, <2>1, <2>3, <2>4, <2>5, <2>a, <2>e
      <3>2. s[at + (wide - at)] = <<f, wide - at>>
        BY <2>5, <3>1
      <3>3. wide \in 1..wide
        BY <1>1
      <3>4. s[wide] = <<i, wide>>
        BY <1>1, <3>3
      <3>5. f = i /\ wide - at = wide
        BY <3>1, <3>2, <3>4
      <3>6. v = wide
        BY <2>d, <3>5 DEF wide
      <3>7. k1 = j
        BY ONLY <1>0, <2>1, <2>3, <2>4, <2>e, <3>5
      <3>8. j <= wide
        BY <2>5, <3>6
      <3> QED BY ONLY <1>0, <2>1, <2>a, <3>7, <3>8
    <2>8. k - j = at - wide /\ at - wide \in Nat /\ at - wide + v <= l - wide
      BY <1>1, <2>1, <2>3, <2>4, <2>5, <2>7, <2>a, <2>e
    <2>9. ASSUME NEW m \in 1..v PROVE t[at - wide + m] = <<f, m>>
      <3>1. at - wide + m \in 1..l - wide /\ wide + (at - wide + m) = at + m
        BY ONLY <1>0, <2>3, <2>4, <2>8, <2>9
      <3> QED BY <1>3, <2>5, <3>1
    <2>10. ASSUME at - wide + v < l - wide PROVE t[at - wide + v + 1] = <<f + 1, 1>>
      <3>1. at - wide + v + 1 \in 1..l - wide /\ wide + (at - wide + v + 1) = at + v + 1 /\ at + v < l
        BY ONLY <1>0, <2>3, <2>4, <2>8, <2>10
      <3> QED BY <1>3, <2>5, <3>1
    <2>11. f \in 1..n /\ j \in 1..v /\ at - wide >= 0 /\ at - wide \in Int
      BY <2>5, <2>8
    <2>12. PICK here : here = at - wide
      OBVIOUS
    <2>13. here \in Int /\ here = k - j
      BY <2>8, <2>11, <2>12
    <2>14. /\ f \in 1..Len(stream) /\ j \in 1..v /\ here >= 0 /\ here + v <= Len(t)
           /\ \A m \in 1..v : t[here + m] = <<f, m>>
           /\ here + v < Len(t) => t[here + v + 1] = <<f + 1, 1>>
      BY <1>3, <2>8, <2>9, <2>10, <2>11, <2>12 DEF n
    <2> QED BY ONLY <2>1, <2>3, <2>6, <2>13, <2>14, <2>d DEF FrameAround
  <1>8. \A k \in 1..Len(t) : FrameAround(t, k)
    BY <1>3, <1>7
  <1>9. FirstOf(t) = i + 1
    BY <1>0, <1>5
  <1> QED BY <1>3, <1>6, <1>8, <1>9 DEF RowOfFrames, i, n

(* A frame is encoded behind the row.                                      *)
LEMMA LongerRow ==
  ASSUME StreamTypes, NEW s, RowOfFrames(s), NEW t,
         NEW size \in 1..max_frame_size, NEW good \in BOOLEAN,
         stream' = Append(stream, [size |-> size, good |-> good]),
         t = s \o [j \in 1..StreamPrefix + size |-> <<Len(stream) + 1, j>>]
  PROVE  /\ stream' \in Seq([size : 1..max_frame_size, good : BOOLEAN])
         /\ Len(stream') = Len(stream) + 1 /\ Len(stream) \in Nat
         /\ \A i \in 1..Len(stream) : stream'[i] = stream[i]
         /\ RowOfFrames(t)' /\ FirstOf(t)' = FirstOf(s)
  <1>a. PICK n : n = Len(stream)
    OBVIOUS
  <1>b. PICK next : next = n + 1
    OBVIOUS
  <1> DEFINE wide == StreamPrefix + size
             more == [j \in 1..wide |-> <<next, j>>]
  <1>1. /\ stream' \in Seq([size : 1..max_frame_size, good : BOOLEAN])
        /\ n \in Nat /\ Len(stream') = n + 1 /\ \A i \in 1..n : stream'[i] = stream[i]
        /\ stream'[next] = [size |-> size, good |-> good] /\ next \in Nat /\ next = n + 1
    BY <1>a, <1>b DEF StreamTypes
  <1>2. wide \in Nat \ {0}
    BY SifAssumption
  <1>3. more \in Seq(Bytes) /\ Len(more) = wide /\ \A j \in 1..wide : more[j] = <<next, j>>
    <2> HIDE DEF wide
    <2>1. \A j \in 1..wide : <<next, j>> \in Bytes
      BY <1>1, <1>2 DEF Bytes
    <2> QED BY <1>2, <2>1
  <1>4. /\ \A i \in 1..n : Width(i)' = Width(i) /\ Width(i) \in Nat
        /\ Width(next)' = wide
    <2>1. ASSUME NEW i \in 1..n PROVE Width(i)' = Width(i) /\ Width(i) \in Nat
      <3>1. Width(i)' = Width(i)
        BY <1>1 DEF Width
      <3>2. Width(i) \in Nat
        BY <1>1, FrameWidths
      <3> QED BY <3>1, <3>2
    <2>2. stream'[next].size = size
      BY <1>1
    <2>3. Width(next)' = wide
      BY <2>2 DEF Width
    <2> QED BY <2>1, <2>3
  <1>5. t = s \o more
    BY <1>a, <1>b
  <1> DEFINE l == Len(s)
  <1>6. s \in Seq(Bytes) /\ l \in Nat /\ \A k \in 1..l : FrameAround(s, k)
    BY DEF RowOfFrames
  <1>7. l > 0 => /\ s[1][2] = 1 /\ s[l] = <<n, Width(n)>>
                 /\ FirstOf(s) = s[1][1] /\ n \in 1..n
    <2>1. Len(s) > 0 => FirstOf(s) = s[1][1] /\ FirstOf(s) \in 1..Len(stream)
      BY FirstFrame
    <2> QED BY <1>1, <1>a, <2>1 DEF RowOfFrames
  <1> HIDE DEF wide, more
  <1>8. /\ t \in Seq(Bytes) /\ Len(t) = l + wide
        /\ \A k \in 1..l : t[k] = s[k]
        /\ \A j \in 1..wide : t[l + j] = <<next, j>>
    <2>1. s \in Seq(Bytes) /\ more \in Seq(Bytes) /\ Len(more) = wide
      BY <1>3, <1>6
    <2>2. s \o more \in Seq(Bytes) /\ Len(s \o more) = Len(s) + Len(more)
      BY <2>1, PartBehind
    <2>4. \A k \in 1..Len(s) : (s \o more)[k] = s[k]
      BY <2>1, PartBehind
    <2>5. \A k \in 1..Len(more) : (s \o more)[Len(s) + k] = more[k]
      BY <2>1, PartBehind
    <2>3. ASSUME NEW j \in 1..wide PROVE t[l + j] = <<next, j>>
      BY <1>3, <1>5, <2>1, <2>5
    <2> QED BY <1>5, <2>1, <2>2, <2>3, <2>4
  <1> HIDE DEF l
  <1> n \in Nat /\ l \in Nat /\ wide \in Nat
    BY <1>1, <1>2, <1>6
  <1>9. l + wide > 0 /\ l + wide \in Nat /\ wide \in 1..wide /\ 1 \in 1..wide
    BY <1>2, <1>6
  <1>10. t[l + wide] = <<next, wide>>
    <2>1. wide \in 1..wide
      BY <1>9
    <2> QED BY <1>8, <2>1
  <1>11. t[1][2] = 1 /\ t[1][1] = FirstOf(s)
    <2>1. CASE l = 0
      <3>1. l + 1 = 1
        BY <2>1
      <3>2. FirstOf(s) = next
        BY <1>1, <1>a, <2>1 DEF FirstOf, l
      <3>3. t[l + 1] = <<next, 1>>
        BY <1>8, <1>9
      <3>4. t[1] = <<next, 1>>
        BY <3>1, <3>3
      <3>5. t[1][1] = next /\ t[1][2] = 1
        BY ONLY <3>4, PairParts
      <3> QED BY <3>2, <3>5
    <2>2. CASE l # 0
      <3>1. 1 \in 1..l /\ l > 0
        BY <1>6, <2>2
      <3> QED BY <1>7, <1>8, <3>1
    <2> QED BY <2>1, <2>2
  <1>12. FirstOf(t)' = FirstOf(s)
    <2>1. Len(t) = l + wide
      BY <1>8
    <2>2. Len(t) # 0
      BY ONLY <1>9, <2>1
    <2> QED BY <1>11, <2>2 DEF FirstOf
  <1>13. ASSUME NEW k \in 1..l + wide PROVE FrameAround(t, k)'
    <2>1. CASE k <= l
      <3>b. PICK f : f = s[k][1]
        OBVIOUS
      <3>c. PICK j : j = s[k][2]
        OBVIOUS
      <3>d. PICK v : v = Width(f)
        OBVIOUS
      <3>e. PICK at : at = k - j
        OBVIOUS
      <3>1. k \in 1..l /\ k \in Nat
        BY <1>6, <2>1
      <3>a. FrameAround(s, k) /\ t[k] = s[k]
        BY <1>6, <1>8, <3>1
      <3>f. f \in Nat /\ j \in Nat /\ v \in Nat
        BY <1>6, <3>1, <3>a, <3>b, <3>c, <3>d, FrameNumbers DEF l
      <3>6. at \in Int /\ at = k - j
        BY <3>1, <3>e, <3>f
      <3>2. /\ f \in 1..n /\ j \in 1..v /\ at >= 0 /\ at + v <= l
            /\ \A m \in 1..v : s[at + m] = <<f, m>>
            /\ at + v < l => s[at + v + 1] = <<f + 1, 1>>
        <4>1. FrameAround(s, k)
          BY <3>a
        <4>2. /\ f \in 1..Len(stream) /\ j \in 1..v /\ at >= 0 /\ at + v <= Len(s)
              /\ \A m \in 1..v : s[at + m] = <<f, m>>
              /\ at + v < Len(s) => s[at + v + 1] = <<f + 1, 1>>
          BY ONLY <3>1, <3>6, <3>b, <3>c, <3>d, <3>e, <3>f, <4>1 DEF FrameAround
        <4> QED BY <1>a, <4>2 DEF l
      <3>3. v \in Nat /\ Width(f)' = v
        BY <1>4, <3>2, <3>d, <3>f
      <3>4. t[k][1] = f /\ t[k][2] = j
        BY <3>a, <3>b, <3>c
      <3>5. j \in Nat /\ f \in Nat /\ at \in Nat /\ f \in 1..n + 1 /\ k = at + j
        BY <1>1, <3>1, <3>2, <3>6, <3>f
      <3>7. ASSUME NEW m \in 1..v PROVE t[at + m] = <<f, m>>
        <4>1. at + m \in 1..l
          BY <1>6, <3>2, <3>3, <3>5
        <4> QED BY <1>8, <3>2, <4>1
      <3>8. ASSUME at + v < l + wide PROVE t[at + v + 1] = <<f + 1, 1>>
        <4>1. CASE at + v < l
          <5>1. at + v + 1 \in 1..l
            BY <1>6, <3>3, <3>5, <4>1
          <5> QED BY <1>8, <3>2, <4>1, <5>1
        <4>2. CASE at + v = l
          <5>1. l > 0 /\ v \in 1..v
            BY <1>6, <3>1, <3>2, <3>3, <3>5
          <5>2. s[at + v] = <<f, v>>
            BY <3>2, <5>1
          <5>3. f = n
            BY <1>7, <4>2, <5>1, <5>2
          <5>4. t[l + 1] = <<next, 1>>
            BY <1>8, <1>9
          <5>5. at + v + 1 = l + 1 /\ f + 1 = next
            BY <1>b, <4>2, <5>3
          <5> QED BY <5>4, <5>5
        <4>3. at + v < l \/ at + v = l
          BY <1>6, <3>2, <3>3, <3>5
        <4> QED BY <4>1, <4>2, <4>3
      <3>9. at + v <= l + wide
        BY <1>2, <1>6, <3>2, <3>3, <3>5
      <3>10. f \in 1..Len(stream')
        BY ONLY <1>1, <3>5, Zenon
      <3> QED BY <1>8, <3>2, <3>3, <3>4, <3>5, <3>6, <3>7, <3>8, <3>9, <3>10, Zenon
               DEF FrameAround
    <2>2. CASE k > l
      <3>1. PICK m : m = k - l
        OBVIOUS
      <3>2. m \in 1..wide /\ k = l + m /\ m \in Nat /\ k - m = l
        BY <1>2, <1>6, <2>2, <3>1
      <3>3. t[k] = <<next, m>>
        BY <1>8, <3>2
      <3>4. t[k][1] = next /\ t[k][2] = m
        BY ONLY <3>3, PairParts
      <3>5. next \in 1..Len(stream')
        BY <1>1
      <3>6. \A j \in 1..wide : t[l + j] = <<next, j>>
        BY <1>8
      <3>7. l >= 0 /\ l + wide <= l + wide /\ ~(l + wide < l + wide)
        BY <1>2, <1>6
      <3>8. Width(next)' = wide
        BY <1>4
      <3> QED BY <1>8, <3>2, <3>4, <3>5, <3>6, <3>7, <3>8, ZenonT(20) DEF FrameAround
    <2>3. k <= l \/ k > l
      BY <1>2, <1>6
    <2> QED BY <2>1, <2>2, <2>3
  <1>14. RowOfFrames(t)'
    <2>1. Len(stream') = next /\ Width(next)' = wide
      BY <1>1, <1>4
    <2>2. \A k \in 1..Len(t) : FrameAround(t, k)'
      BY <1>8, <1>13
    <2> QED BY <1>8, <1>10, <1>11, <2>1, <2>2 DEF RowOfFrames
  <1> QED BY <1>1, <1>12, <1>14, <1>a

LEMMA CutOfCut ==
  ASSUME NEW S, NEW s \in Seq(S), NEW n \in Nat, NEW m \in Nat, n + m <= Len(s)
  PROVE  LET t == SubSeq(s, n + 1, Len(s)) IN
         SubSeq(t, m + 1, Len(t)) = SubSeq(s, n + m + 1, Len(s))
  <1> DEFINE t == SubSeq(s, n + 1, Len(s))
             a == SubSeq(t, m + 1, Len(t))
             b == SubSeq(s, n + m + 1, Len(s))
  <1>1. Len(s) \in Nat /\ n \in 0..Len(s) /\ n + m \in 0..Len(s)
    OBVIOUS
  <1>2. t \in Seq(S) /\ Len(t) = Len(s) - n /\ \A k \in 1..Len(s) - n : t[k] = s[n + k]
    BY <1>1, CutForm
  <1>3. /\ b \in Seq(S) /\ Len(b) = Len(s) - (n + m)
        /\ \A k \in 1..Len(s) - (n + m) : b[k] = s[n + m + k]
    BY <1>1, CutForm
  <1> HIDE DEF t, b
  <1>4. m \in 0..Len(t)
    BY <1>1, <1>2
  <1>5. a \in Seq(S) /\ Len(a) = Len(t) - m /\ \A k \in 1..Len(t) - m : a[k] = t[m + k]
    BY <1>2, <1>4, CutForm
  <1> HIDE DEF a
  <1>6. Len(a) = Len(b) /\ Len(b) \in Nat
    BY <1>1, <1>2, <1>3, <1>5
  <1>7. ASSUME NEW k \in 1..Len(a) PROVE a[k] = b[k]
    <2>1. k \in 1..Len(t) - m /\ k \in 1..Len(s) - (n + m)
      BY <1>3, <1>5, <1>6
    <2>2. m + k \in 1..Len(s) - n /\ n + (m + k) = n + m + k
      BY <1>1, <2>1
    <2> QED BY <1>2, <1>3, <1>5, <2>1, <2>2
  <1>8. a = b
    BY <1>3, <1>5, <1>6, <1>7, SeqEqual
  <1> QED BY <1>8 DEF a, b, t

LEMMA CutOfConcat ==
  ASSUME NEW S, NEW s \in Seq(S), NEW t \in Seq(S), NEW n \in 0..Len(s)
  PROVE  SubSeq(s \o t, n + 1, Len(s \o t)) = SubSeq(s, n + 1, Len(s)) \o t
  <1> DEFINE u == s \o t
             c == SubSeq(s, n + 1, Len(s))
             a == SubSeq(u, n + 1, Len(u))
             b == c \o t
  <1>1. /\ u \in Seq(S) /\ Len(u) = Len(s) + Len(t) /\ Len(s) \in Nat /\ Len(t) \in Nat
        /\ \A k \in 1..Len(s) : u[k] = s[k]
        /\ \A k \in 1..Len(t) : u[Len(s) + k] = t[k]
    BY PartBehind
  <1>2. c \in Seq(S) /\ Len(c) = Len(s) - n /\ \A k \in 1..Len(s) - n : c[k] = s[n + k]
    BY CutForm
  <1> HIDE DEF u, c
  <1>3. n \in 0..Len(u) /\ n \in Nat
    BY <1>1
  <1>4. a \in Seq(S) /\ Len(a) = Len(u) - n /\ \A k \in 1..Len(u) - n : a[k] = u[n + k]
    BY <1>1, <1>3, CutForm
  <1>5. /\ b \in Seq(S) /\ Len(b) = Len(c) + Len(t)
        /\ \A k \in 1..Len(c) : b[k] = c[k]
        /\ \A k \in 1..Len(t) : b[Len(c) + k] = t[k]
    <2>1. b \in Seq(S) /\ Len(b) = Len(c) + Len(t)
      BY <1>2, PartBehind
    <2>2. \A k \in 1..Len(c) : b[k] = c[k]
      BY <1>2, PartBehind
    <2>3. \A k \in 1..Len(t) : b[Len(c) + k] = t[k]
      BY <1>2, PartBehind
    <2> QED BY <2>1, <2>2, <2>3
  <1> HIDE DEF a, b
  <1>6. Len(a) = Len(b) /\ Len(a) \in Nat
    BY <1>1, <1>2, <1>3, <1>4, <1>5
  <1>7. ASSUME NEW k \in 1..Len(a) PROVE a[k] = b[k]
    <2>1. k \in Nat /\ a[k] = u[n + k]
      BY <1>4, <1>6
    <2>2. CASE k <= Len(c)
      <3>1. k \in 1..Len(c) /\ n + k \in 1..Len(s) /\ k \in 1..Len(s) - n
        BY <1>1, <1>2, <1>3, <2>1, <2>2
      <3> QED BY <1>1, <1>2, <1>5, <2>1, <3>1
    <2>3. CASE k > Len(c)
      <3>1. PICK m : m = k - Len(c)
        OBVIOUS
      <3>2. m \in 1..Len(t) /\ n + k = Len(s) + m /\ k = Len(c) + m
        BY <1>1, <1>2, <1>3, <1>4, <1>6, <2>1, <2>3, <3>1
      <3> QED BY <1>1, <1>5, <2>1, <3>2
    <2> QED BY <1>1, <1>2, <1>3, <2>1, <2>2, <2>3
  <1>8. a = b
    BY <1>4, <1>5, <1>6, <1>7, SeqEqual
  <1> QED BY <1>8 DEF a, b, u, c

(* compact moves bytes, and loses none that has not been read.             *)
(* What compact leaves of the bytes, of which read are read.               *)
Compacted(bytes, read, b, c) ==
  /\ b \in Seq(Bytes) /\ c \in 0..Len(b) /\ c \in Nat
  /\ \/ b = <<>> /\ c = 0 /\ read = Len(bytes)
     \/ b = SubSeq(bytes, read + 1, Len(bytes)) /\ c = 0
     \/ b = bytes /\ c = read

LEMMA CompactKeeps ==
  ASSUME NEW bytes \in Seq(Bytes), NEW read \in Nat, read <= Len(bytes), NEW half \in BOOLEAN,
         NEW b, NEW c, b = Compact(bytes, read, half).buffer, c = Compact(bytes, read, half).cursor
  PROVE  Compacted(bytes, read, b, c)
  <1> DEFINE rest == SubSeq(bytes, read + 1, Len(bytes))
  <1>1. Len(bytes) \in Nat /\ read \in 0..Len(bytes)
    OBVIOUS
  <1>2. rest \in Seq(Bytes) /\ Len(rest) = Len(bytes) - read
    BY <1>1, CutForm
  <1>3. \/ b = <<>> /\ c = 0 /\ read = Len(bytes)
        \/ b = rest /\ c = 0
        \/ b = bytes /\ c = read
    BY DEF Compact
  <1> HIDE DEF rest
  <1>4. b \in Seq(Bytes) /\ c \in 0..Len(b)
    BY <1>1, <1>2, <1>3
  <1> QED BY <1>3, <1>4 DEF rest, Compacted

LEMMA CompactRest ==
  ASSUME NEW bytes \in Seq(Bytes), NEW read \in Nat, read <= Len(bytes),
         NEW b, NEW c, Compacted(bytes, read, b, c)
  PROVE  SubSeq(b, c + 1, Len(b)) = SubSeq(bytes, read + 1, Len(bytes))
  <1> DEFINE rest == SubSeq(bytes, read + 1, Len(bytes))
  <1>1. Len(bytes) \in Nat /\ read \in 0..Len(bytes)
    OBVIOUS
  <1>2. rest \in Seq(Bytes) /\ Len(rest) = Len(bytes) - read
    BY <1>1, CutForm
  <1>3. CASE b = bytes /\ c = read
    BY <1>3
  <1> HIDE DEF rest
  <1>4. CASE b = <<>> /\ c = 0 /\ read = Len(bytes)
    <2>1. Len(rest) = 0
      BY <1>1, <1>2, <1>4
    <2>2. rest = <<>>
      BY <1>2, <2>1, EmptySeq
    <2>3. SubSeq(b, c + 1, Len(b)) = rest
      BY ONLY <1>4, <2>2
    <2> QED BY <2>3 DEF rest
  <1>5. CASE b = rest /\ c = 0
    <2>1. SubSeq(rest, 1, Len(rest)) = rest
      BY <1>2
    <2>2. SubSeq(b, c + 1, Len(b)) = rest
      BY ONLY <1>5, <2>1
    <2> QED BY <2>2 DEF rest
  <1> QED BY <1>3, <1>4, <1>5 DEF rest, Compacted

LEMMA SeqParts ==
  ASSUME StreamTypes
  PROVE  /\ SubSeq(buffer, cursor + 1, Len(buffer)) \in Seq(Bytes) /\ unread \in Seq(Bytes)
         /\ buffer \in Seq(Bytes) /\ cursor \in Nat /\ Len(buffer) \in Nat /\ cursor <= Len(buffer)
         /\ Len(SubSeq(buffer, cursor + 1, Len(buffer))) = Len(buffer) - cursor
         /\ Unreturned \in Seq(Bytes)
  <1>1. /\ unread \in Seq(Bytes) /\ buffer \in Seq(Bytes) /\ cursor \in Nat
        /\ Len(buffer) \in Nat /\ cursor <= Len(buffer) /\ cursor \in 0..Len(buffer)
    BY DEF StreamTypes
  <1>2. /\ SubSeq(buffer, cursor + 1, Len(buffer)) \in Seq(Bytes)
        /\ Len(SubSeq(buffer, cursor + 1, Len(buffer))) = Len(buffer) - cursor
    BY <1>1, CutForm
  <1> DEFINE part == SubSeq(buffer, cursor + 1, Len(buffer))
  <1> HIDE DEF part
  <1>3. part \o unread \in Seq(Bytes)
    BY <1>1, <1>2 DEF part
  <1> QED BY <1>1, <1>2, <1>3 DEF Unreturned, part

LEMMA StreamInitHolds == StreamInit => StreamInv
  <1> SUFFICES ASSUME StreamInit PROVE StreamInv
    OBVIOUS
  <1>1. stream = <<>> /\ unread = <<>> /\ buffer = <<>> /\ cursor = 0 /\ yielded = <<>>
    BY DEF StreamInit
  <1>2. StreamTypes
    BY <1>1 DEF StreamTypes
  <1>3. Unreturned = <<>> /\ Len(Unreturned) = 0 /\ Unreturned \in Seq(Bytes)
    BY <1>1 DEF Unreturned
  <1>4. RowOfFrames(Unreturned)
    BY <1>3 DEF RowOfFrames
  <1>5. FirstOf(Unreturned) = 1
    BY <1>1, <1>3 DEF FirstOf
  <1>6. ReturnedUpTo(yielded, 1)
    BY <1>1 DEF ReturnedUpTo
  <1> QED BY <1>2, <1>4, <1>5, <1>6 DEF StreamInv

LEMMA FirstIsNext ==
  ASSUME StreamTypes, NEW s, RowOfFrames(s)
  PROVE  FirstOf(s) \in 1..Len(stream) + 1 /\ Len(stream) \in Nat
  <1>1. Len(stream) \in Nat
    BY DEF StreamTypes
  <1>2. CASE Len(s) = 0
    BY <1>1, <1>2 DEF FirstOf
  <1>3. CASE Len(s) # 0
    <2>1. Len(s) > 0
      BY <1>3 DEF RowOfFrames
    <2>2. FirstOf(s) \in 1..Len(stream)
      BY <2>1, FirstFrame
    <2> QED BY <1>1, <2>2
  <1> QED BY <1>1, <1>2, <1>3

LEMMA EncodeNextKeeps ==
  ASSUME StreamInv, NEW size \in 1..max_frame_size, NEW good \in BOOLEAN, EncodeNext(size, good)
  PROVE  StreamInv'
  <1>a. PICK s : s = Unreturned
    OBVIOUS
  <1>b. PICK t : t = Unreturned'
    OBVIOUS
  <1>c. PICK n : n = FirstOf(s)
    OBVIOUS
  <1> DEFINE part == SubSeq(buffer, cursor + 1, Len(buffer))
             more == [j \in 1..StreamPrefix + size |-> <<Len(stream) + 1, j>>]
  <1>1. /\ stream' = Append(stream, [size |-> size, good |-> good])
        /\ unread' = unread \o more /\ UNCHANGED <<buffer, cursor, yielded>>
    BY DEF EncodeNext
  <1>2. StreamTypes /\ RowOfFrames(s) /\ ReturnedUpTo(yielded, n)
    BY <1>a, <1>c DEF StreamInv
  <1>3. more \in Seq(Bytes)
    <2>1. Len(stream) \in Nat /\ StreamPrefix + size \in Nat
      BY <1>2, SifAssumption DEF StreamTypes
    <2>a. PICK next : next = Len(stream) + 1
      OBVIOUS
    <2>b. PICK wide : wide = StreamPrefix + size
      OBVIOUS
    <2>2. next \in Nat /\ wide \in Nat
      BY <2>1, <2>a, <2>b
    <2>3. [j \in 1..wide |-> <<next, j>>] \in Seq(Bytes)
      BY <2>2 DEF Bytes
    <2> QED BY <2>3, <2>a, <2>b
  <1>4. part \in Seq(Bytes) /\ unread \in Seq(Bytes)
    BY <1>2, SeqParts
  <1> HIDE DEF part, more
  <1>5. (part \o unread) \o more = part \o (unread \o more)
    BY <1>3, <1>4, ConcatAssociative
  <1>6. s = part \o unread /\ t = part \o (unread \o more)
    BY <1>1, <1>a, <1>b DEF Unreturned, part
  <1>7. t = s \o more
    BY <1>5, <1>6
  <1>8. t = s \o [j \in 1..StreamPrefix + size |-> <<Len(stream) + 1, j>>]
    BY <1>7 DEF more
  <1>9. stream' \in Seq([size : 1..max_frame_size, good : BOOLEAN])
    BY <1>1, <1>2, <1>8, LongerRow
  <1>10. Len(stream') = Len(stream) + 1 /\ Len(stream) \in Nat
    BY <1>1, <1>2, <1>8, LongerRow
  <1>11. \A i \in 1..Len(stream) : stream'[i] = stream[i]
    BY <1>1, <1>2, <1>8, LongerRow
  <1>12. RowOfFrames(t)' /\ FirstOf(t)' = n
    BY <1>1, <1>2, <1>8, <1>c, LongerRow
  <1>13. StreamTypes'
    <2>1. unread' \in Seq(Bytes)
      BY <1>1, <1>3, <1>4
    <2> QED BY <1>1, <1>2, <1>9, <2>1 DEF StreamTypes
  <1>14. \A i \in 1..n - 1 : stream'[i] = stream[i]
    <2>1. n \in 1..Len(stream) + 1
      BY <1>2, <1>c, FirstIsNext
    <2>2. \A i \in 1..n - 1 : i \in 1..Len(stream)
      BY <1>10, <2>1
    <2> QED BY <1>11, <2>2
  <1>15. \A i \in 1..n - 1 : stream'[i].good = stream[i].good /\ Payload(i)' = Payload(i)
    BY <1>14 DEF Payload
  <1>16. ReturnedUpTo(yielded, n)'
    <2>1. yielded' = yielded
      BY <1>1
    <2> QED BY <1>2, <1>15, <2>1 DEF ReturnedUpTo
  <1>17. RowOfFrames(Unreturned)'
    BY <1>12, <1>b DEF RowOfFrames, FrameAround
  <1>18. FirstOf(Unreturned)' = n
    BY <1>12, <1>b DEF FirstOf
  <1>19. ReturnedUpTo(yielded, FirstOf(Unreturned))'
    BY <1>16, <1>18 DEF ReturnedUpTo
  <1> QED BY <1>13, <1>17, <1>19 DEF StreamInv

(* A step that encodes nothing.                                            *)
LEMMA ScannerKeeps ==
  ASSUME StreamInv, UNCHANGED stream, StreamTypes',
         NEW t, t = Unreturned', RowOfFrames(t), ReturnedUpTo(yielded', FirstOf(t))
  PROVE  StreamInv'
  <1>1. RowOfFrames(Unreturned)'
    BY DEF RowOfFrames, FrameAround, Width
  <1>a. PICK n : n = FirstOf(t)
    OBVIOUS
  <1>2. FirstOf(Unreturned)' = n
    BY <1>a DEF FirstOf
  <1>3. ReturnedUpTo(yielded, n)'
    BY <1>a DEF ReturnedUpTo, Payload
  <1>4. ReturnedUpTo(yielded, FirstOf(Unreturned))'
    BY <1>2, <1>3 DEF ReturnedUpTo
  <1> QED BY <1>1, <1>4 DEF StreamInv

LEMMA FeedKeeps ==
  ASSUME StreamInv, NEW n \in Nat, Feed(n)
  PROVE  StreamInv'
  <1>1. PICK half \in BOOLEAN :
          /\ n <= Len(unread)
          /\ buffer' = Compact(buffer, cursor, half).buffer \o SubSeq(unread, 1, n)
          /\ cursor' = Compact(buffer, cursor, half).cursor
          /\ unread' = SubSeq(unread, n + 1, Len(unread))
          /\ UNCHANGED <<stream, yielded>>
    BY DEF Feed
  <1>2. PICK b : b = Compact(buffer, cursor, half).buffer
    OBVIOUS
  <1>3. PICK c : c = Compact(buffer, cursor, half).cursor
    OBVIOUS
  <1>4. PICK u : u = SubSeq(unread, 1, n)
    OBVIOUS
  <1>5. PICK v : v = SubSeq(unread, n + 1, Len(unread))
    OBVIOUS
  <1>6. /\ buffer \in Seq(Bytes) /\ cursor \in 0..Len(buffer) /\ unread \in Seq(Bytes)
        /\ Len(unread) \in Nat /\ n \in 0..Len(unread)
    BY <1>1 DEF StreamInv, StreamTypes
  <1>c. cursor \in Nat /\ cursor <= Len(buffer)
    BY <1>6
  <1>d. Compacted(buffer, cursor, b, c)
    BY ONLY half \in BOOLEAN, <1>2, <1>3, <1>6, <1>c, CompactKeeps
  <1>7. b \in Seq(Bytes) /\ c \in 0..Len(b) /\ c \in Nat
    BY <1>d DEF Compacted
  <1>8. SubSeq(b, c + 1, Len(b)) = SubSeq(buffer, cursor + 1, Len(buffer))
    BY ONLY <1>6, <1>c, <1>d, CompactRest, Zenon
  <1>9. u \in Seq(Bytes) /\ v \in Seq(Bytes) /\ u \o v = unread
    <2>1. /\ 1 \in 1..Len(unread) + 1 /\ n \in 1 - 1..Len(unread)
          /\ Len(unread) \in n..Len(unread)
      BY <1>6
    <2>2. SubSeq(unread, 1, n) \o SubSeq(unread, n + 1, Len(unread)) = SubSeq(unread, 1, Len(unread))
      BY <1>6, <2>1, ConcatAdjacentSubSeq
    <2>3. SubSeq(unread, 1, Len(unread)) = unread
      BY <1>6
    <2>4. SubSeq(unread, 1, n) \in Seq(Bytes) /\ SubSeq(unread, n + 1, Len(unread)) \in Seq(Bytes)
      BY <1>6
    <2> QED BY <1>4, <1>5, <2>2, <2>3, <2>4, Zenon
  <1>10. buffer' = b \o u /\ cursor' = c /\ unread' = v /\ UNCHANGED <<stream, yielded>>
    BY <1>1, <1>2, <1>3, <1>4, <1>5
  <1>11. SubSeq(b \o u, c + 1, Len(b \o u)) = SubSeq(b, c + 1, Len(b)) \o u
    BY <1>7, <1>9, CutOfConcat
  <1>12. Unreturned' = (SubSeq(b, c + 1, Len(b)) \o u) \o v
    BY <1>10, <1>11 DEF Unreturned
  <1>13. SubSeq(b, c + 1, Len(b)) \in Seq(Bytes)
    BY <1>7
  <1>14. Unreturned' = SubSeq(b, c + 1, Len(b)) \o (u \o v)
    <2>1. PICK a : a = SubSeq(b, c + 1, Len(b))
      OBVIOUS
    <2>3. a \in Seq(Bytes) /\ u \in Seq(Bytes) /\ v \in Seq(Bytes)
      BY <1>9, <1>13, <2>1
    <2>2. (a \o u) \o v = a \o (u \o v)
      BY ONLY <2>3, ConcatAssociative
    <2> QED BY <1>12, <2>1, <2>2
  <1>15. Unreturned' = Unreturned
    BY <1>8, <1>9, <1>14 DEF Unreturned
  <1>16. StreamTypes'
    <2>1. b \o u \in Seq(Bytes) /\ Len(b \o u) = Len(b) + Len(u) /\ Len(b) \in Nat /\ Len(u) \in Nat
      BY <1>7, <1>9
    <2>2. c \in 0..Len(b \o u)
      BY <1>7, <2>1
    <2> QED BY <1>9, <1>10, <2>1, <2>2 DEF StreamInv, StreamTypes
  <1>17. RowOfFrames(Unreturned) /\ ReturnedUpTo(yielded', FirstOf(Unreturned))
    BY <1>10 DEF StreamInv
  <1>a. PICK t : t = Unreturned
    OBVIOUS
  <1>18. RowOfFrames(t) /\ ReturnedUpTo(yielded', FirstOf(t)) /\ t = Unreturned'
    BY <1>15, <1>17, <1>a
  <1> QED BY <1>10, <1>16, <1>18, ScannerKeeps

(* The frame at the cursor is the first one of the row.                    *)
LEMMA AtCursorIsFirst ==
  ASSUME StreamInv, Buffered >= StreamPrefix
  PROVE  /\ AtCursor = FirstOf(Unreturned) /\ Len(Unreturned) > 0
         /\ AtCursor \in 1..Len(stream) /\ AtCursor \in Nat /\ Width(AtCursor) \in Nat
         /\ End \in Nat /\ cursor <= End
  <1>a. PICK s : s = Unreturned
    OBVIOUS
  <1>b. PICK part : part = SubSeq(buffer, cursor + 1, Len(buffer))
    OBVIOUS
  <1>1. /\ part \in Seq(Bytes) /\ Len(part) = Len(buffer) - cursor
        /\ unread \in Seq(Bytes) /\ s = part \o unread
        /\ cursor \in Nat /\ Len(buffer) \in Nat /\ buffer \in Seq(Bytes)
    BY <1>a, <1>b, SeqParts DEF StreamInv, Unreturned
  <1>2. Len(buffer) - cursor > 0
    BY <1>1, SifAssumption DEF Buffered
  <1>3. part[1] = buffer[cursor + 1] /\ 1 \in 1..Len(part)
    BY <1>1, <1>2, <1>b
  <1>4. s[1] = part[1] /\ Len(s) > 0 /\ Len(s) \in Nat
    BY <1>1, <1>3
  <1>5. RowOfFrames(s) /\ StreamTypes
    BY <1>a DEF StreamInv
  <1>6. FirstOf(s) = s[1][1] /\ FirstOf(s) \in 1..Len(stream)
    BY <1>4, <1>5, FirstFrame
  <1>7. AtCursor = FirstOf(s)
    BY <1>3, <1>4, <1>6 DEF AtCursor
  <1>8. Width(AtCursor) \in Nat
    BY <1>5, <1>6, <1>7, FrameWidths
  <1>9. FirstOf(s) \in Nat
    BY <1>5, <1>6 DEF StreamTypes
  <1>10. End \in Nat /\ cursor <= End
    BY <1>1, <1>8 DEF End
  <1> QED BY <1>4, <1>6, <1>7, <1>8, <1>9, <1>10, <1>a

LEMMA PayloadStart ==
  ASSUME StreamTypes, NEW i \in 1..Len(stream)
  PROVE  Payload(i)[1][1] = i
  <1>1. stream[i].size \in Nat \ {0}
    BY FrameWidths
  <1>2. 1 \in 1..stream[i].size
    BY <1>1
  <1>3. Payload(i)[1] = <<i, StreamPrefix + 1>>
    BY <1>2 DEF Payload
  <1>4. PICK m : m = StreamPrefix + 1
    OBVIOUS
  <1>5. Payload(i)[1] = <<i, m>>
    BY <1>3, <1>4
  <1> QED BY ONLY <1>5, PairParts

LEMMA NextFrameKeeps ==
  ASSUME StreamInv, NextFrame
  PROVE  StreamInv'
  <1>a. PICK s : s = Unreturned
    OBVIOUS
  <1>b. PICK t : t = Unreturned'
    OBVIOUS
  <1>c. PICK part : part = SubSeq(buffer, cursor + 1, Len(buffer))
    OBVIOUS
  <1>d. PICK n : n = AtCursor
    OBVIOUS
  <1>e. PICK wide : wide = Width(n)
    OBVIOUS
  <1>f. PICK p : p = SubSeq(buffer, cursor + StreamPrefix + 1, cursor + wide)
    OBVIOUS
  <1>1. PICK half \in BOOLEAN :
          /\ Buffered >= StreamPrefix /\ cursor + wide <= Len(buffer) /\ stream[n].good
          /\ yielded' = Append(yielded, p)
          /\ buffer' = Compact(buffer, cursor + wide, half).buffer
          /\ cursor' = Compact(buffer, cursor + wide, half).cursor
          /\ UNCHANGED <<stream, unread>>
    BY <1>d, <1>e, <1>f DEF NextFrame, FrameIsThere, End
  <1>2. StreamTypes /\ RowOfFrames(s) /\ ReturnedUpTo(yielded, FirstOf(s))
    BY <1>a DEF StreamInv
  <1>3. n = FirstOf(s) /\ Len(s) > 0 /\ n \in 1..Len(stream) /\ n \in Nat /\ wide \in Nat
    BY <1>1, <1>a, <1>d, <1>e, AtCursorIsFirst
  <1>4. /\ part \in Seq(Bytes) /\ Len(part) = Len(buffer) - cursor
        /\ unread \in Seq(Bytes) /\ s = part \o unread
        /\ cursor \in Nat /\ Len(buffer) \in Nat /\ buffer \in Seq(Bytes)
    BY <1>2, <1>a, <1>c, SeqParts DEF Unreturned
  <1>5. cursor + wide \in 0..Len(buffer) /\ wide \in 0..Len(part) /\ cursor + wide <= Len(buffer)
    BY <1>1, <1>3, <1>4
  <1>6. PICK b : b = Compact(buffer, cursor + wide, half).buffer
    OBVIOUS
  <1>7. PICK c : c = Compact(buffer, cursor + wide, half).cursor
    OBVIOUS
  <1>g. PICK read : read = cursor + wide
    OBVIOUS
  <1>h. /\ read \in Nat /\ read <= Len(buffer)
        /\ b = Compact(buffer, read, half).buffer /\ c = Compact(buffer, read, half).cursor
    BY <1>4, <1>5, <1>6, <1>7, <1>g
  <1>i. buffer \in Seq(Bytes)
    BY <1>4
  <1>j. Compacted(buffer, read, b, c)
    BY ONLY half \in BOOLEAN, <1>i, <1>h, CompactKeeps
  <1>8. b \in Seq(Bytes) /\ c \in 0..Len(b) /\ c \in Nat
    BY <1>j DEF Compacted
  <1>9. SubSeq(b, c + 1, Len(b)) = SubSeq(buffer, cursor + wide + 1, Len(buffer))
    <2>1. SubSeq(b, c + 1, Len(b)) = SubSeq(buffer, read + 1, Len(buffer))
      BY ONLY <1>i, <1>j, <1>h, CompactRest
    <2> QED BY <1>g, <2>1
  <1>10. SubSeq(part, wide + 1, Len(part)) = SubSeq(buffer, cursor + wide + 1, Len(buffer))
    BY ONLY <1>3, <1>4, <1>5, <1>c, CutOfCut
  <1>11. SubSeq(s, wide + 1, Len(s)) = SubSeq(part, wide + 1, Len(part)) \o unread
    BY ONLY <1>4, <1>5, CutOfConcat
  <1>12. buffer' = b /\ cursor' = c /\ unread' = unread /\ UNCHANGED stream
    BY <1>1, <1>6, <1>7
  <1>13. t = SubSeq(s, wide + 1, Len(s))
    BY <1>9, <1>10, <1>11, <1>12, <1>b DEF Unreturned
  <1>14. t = SubSeq(s, Width(FirstOf(s)) + 1, Len(s))
    BY <1>3, <1>13, <1>e
  <1>15. RowOfFrames(t) /\ FirstOf(t) = FirstOf(s) + 1
    BY <1>2, <1>3, <1>14, RestOfRow
  <1> DEFINE size == stream[n].size
  <1>16. size \in Nat \ {0} /\ wide = StreamPrefix + size /\ StreamPrefix \in Nat \ {0}
    BY <1>2, <1>3, <1>e, FrameWidths
  <1>17. \A m \in 1..wide : s[m] = <<n, m>>
    BY <1>2, <1>3, <1>e, FirstFrame
  <1>18. p \in Seq(Bytes) /\ p = Payload(n)
    <2> HIDE DEF size
    <2>1. cursor + StreamPrefix + 1 >= 1 /\ cursor + wide - (cursor + StreamPrefix + 1) + 1 = size
      BY <1>4, <1>16
    <2>2. /\ p \in Seq(Bytes) /\ Len(p) = size
          /\ \A m \in 1..size : p[m] = buffer[cursor + StreamPrefix + m]
      <3>1. \A i \in cursor + StreamPrefix + 1..cursor + wide : i \in 1..Len(buffer)
        BY <1>4, <1>5, <1>16
      <3>2. p \in Seq(Bytes)
        BY <1>4, <1>5, <1>16, <1>f, <3>1
      <3> QED BY <1>4, <1>5, <1>16, <1>f, <3>2
    <2>3. ASSUME NEW m \in 1..size PROVE p[m] = <<n, StreamPrefix + m>>
      <3>1. StreamPrefix + m \in 1..Len(part) /\ StreamPrefix + m \in 1..wide
            /\ cursor + (StreamPrefix + m) = cursor + StreamPrefix + m
        BY <1>4, <1>5, <1>16
      <3>2. part[StreamPrefix + m] = buffer[cursor + (StreamPrefix + m)]
        BY <1>4, <1>c, <3>1
      <3>3. s[StreamPrefix + m] = part[StreamPrefix + m]
        BY <1>4, <3>1
      <3> QED BY <1>17, <2>2, <3>1, <3>2, <3>3
    <2>4. p = [m \in 1..size |-> p[m]]
      BY <1>16, <2>2
    <2> QED BY <2>2, <2>3, <2>4 DEF Payload, size
  <1>19. p[1][1] = n
    BY <1>2, <1>3, <1>18, PayloadStart
  <1>20. yielded' = Append(yielded, p) /\ yielded \in Seq(Seq(Bytes)) /\ stream[n].good
    BY <1>1, <1>2 DEF StreamTypes
  <1> DEFINE k1 == Len(yielded) + 1
  <1>21. /\ yielded' \in Seq(Seq(Bytes)) /\ k1 \in Nat /\ DOMAIN yielded' = 1..k1
         /\ DOMAIN yielded = 1..k1 - 1 /\ \A k \in 1..k1 - 1 : yielded'[k] = yielded[k]
         /\ yielded'[k1] = p
    BY <1>18, <1>20
  <1> HIDE DEF k1
  <1>22. ReturnedUpTo(yielded', n + 1)
    <2>0. ReturnedUpTo(yielded, n)
      BY <1>2, <1>3
    <2>1. ASSUME NEW k \in DOMAIN yielded'
          PROVE  \E i \in 1..n + 1 - 1 : stream[i].good /\ yielded'[k] = Payload(i)
      <3>1. CASE k = k1
        <4>1. n \in 1..n + 1 - 1
          BY <1>3
        <4> QED BY <1>18, <1>20, <1>21, <3>1, <4>1
      <3>2. CASE k # k1
        <4>1. k \in DOMAIN yielded /\ yielded'[k] = yielded[k]
          BY <1>21, <3>2
        <4>2. PICK i \in 1..n - 1 : stream[i].good /\ yielded[k] = Payload(i)
          BY <2>0, <4>1 DEF ReturnedUpTo
        <4>3. i \in 1..n + 1 - 1
          BY <1>3
        <4> QED BY <4>1, <4>2, <4>3
      <3> QED BY <3>1, <3>2
    <2>2. ASSUME NEW i \in 1..n + 1 - 1, stream[i].good
          PROVE  \E k \in DOMAIN yielded' : yielded'[k] = Payload(i)
      <3>1. CASE i = n
        <4>1. k1 \in DOMAIN yielded'
          BY <1>20, <1>21 DEF k1
        <4> QED BY <1>18, <1>21, <3>1, <4>1
      <3>2. CASE i # n
        <4>1. i \in 1..n - 1
          BY <1>3, <3>2
        <4>2. PICK k \in DOMAIN yielded : yielded[k] = Payload(i)
          BY <2>0, <2>2, <4>1 DEF ReturnedUpTo
        <4>3. k \in DOMAIN yielded' /\ yielded'[k] = yielded[k]
          BY <1>21, <4>2
        <4> QED BY <4>2, <4>3
      <3> QED BY <3>1, <3>2
    <2>3. ASSUME NEW j \in DOMAIN yielded', NEW k \in DOMAIN yielded', j < k
          PROVE  yielded'[j][1][1] < yielded'[k][1][1]
      <3>1. j \in DOMAIN yielded /\ yielded'[j] = yielded[j]
        BY <1>21, <2>3
      <3>2. CASE k = k1
        <4>1. PICK i \in 1..n - 1 : yielded[j] = Payload(i)
          BY <2>0, <3>1 DEF ReturnedUpTo
        <4>2. i \in 1..Len(stream)
          BY <1>2, <1>3 DEF StreamTypes
        <4>3. Payload(i)[1][1] = i
          BY <1>2, <4>2, PayloadStart
        <4>4. yielded'[j][1][1] = i
          BY ONLY <3>1, <4>1, <4>3
        <4> QED BY <1>3, <1>19, <1>21, <3>2, <4>1, <4>4
      <3>3. CASE k # k1
        <4>1. k \in DOMAIN yielded /\ yielded'[k] = yielded[k]
          BY <1>21, <3>3
        <4> QED BY <2>0, <2>3, <3>1, <4>1 DEF ReturnedUpTo
      <3> QED BY <3>2, <3>3
    <2> QED BY <1>3, <2>1, <2>2, <2>3 DEF ReturnedUpTo
  <1>23. StreamTypes'
    BY <1>2, <1>8, <1>12, <1>21 DEF StreamTypes
  <1>24. RowOfFrames(t) /\ ReturnedUpTo(yielded', FirstOf(t)) /\ t = Unreturned'
    BY <1>3, <1>15, <1>22, <1>b
  <1> QED BY <1>12, <1>23, <1>24, ScannerKeeps

LEMMA ResetScannerKeeps ==
  ASSUME StreamInv, ResetScanner
  PROVE  StreamInv'
  <1>a. PICK s : s = Unreturned
    OBVIOUS
  <1>b. PICK t : t = Unreturned'
    OBVIOUS
  <1>c. PICK n : n = FirstOf(s)
    OBVIOUS
  <1>1. /\ Buffered >= StreamPrefix /\ ~stream[AtCursor].good
        /\ buffer' = <<>> /\ cursor' = 0
        /\ unread' = SubSeq(Unreturned, Width(AtCursor) + 1, Len(Unreturned))
        /\ UNCHANGED <<stream, yielded>>
    BY DEF ResetScanner
  <1>2. StreamTypes /\ RowOfFrames(s) /\ ReturnedUpTo(yielded, n)
    BY <1>a, <1>c DEF StreamInv
  <1>3. AtCursor = n /\ Len(s) > 0 /\ n \in 1..Len(stream) /\ n \in Nat
    BY <1>1, <1>a, <1>c, AtCursorIsFirst
  <1>4. unread' = SubSeq(s, Width(n) + 1, Len(s)) /\ ~stream[n].good
    BY <1>1, <1>3, <1>a
  <1>5. Width(n) \in 0..Len(s) /\ s \in Seq(Bytes)
    <2>1. Width(n) \in 1..Len(s) /\ Len(s) \in Nat
      BY <1>2, <1>3, <1>c, FirstFrame
    <2> QED BY <1>2, <2>1 DEF RowOfFrames
  <1>6. unread' \in Seq(Bytes)
    BY <1>4, <1>5, CutForm
  <1>7. t = unread'
    <2>1. Unreturned' = SubSeq(<<>>, 0 + 1, Len(<<>>)) \o unread'
      BY <1>1 DEF Unreturned
    <2>2. SubSeq(<<>>, 0 + 1, Len(<<>>)) = <<>>
      OBVIOUS
    <2>3. <<>> \o unread' = unread'
      BY <1>6, ConcatEmptySeq
    <2> QED BY <1>b, <2>1, <2>2, <2>3
  <1>8. t = SubSeq(s, Width(FirstOf(s)) + 1, Len(s))
    BY <1>4, <1>7, <1>c
  <1>9. RowOfFrames(t) /\ FirstOf(t) = n + 1
    BY <1>2, <1>3, <1>8, <1>c, RestOfRow
  <1>10. ReturnedUpTo(yielded, n + 1)
    <2>1. \A i \in 1..n + 1 - 1 : i \in 1..n - 1 \/ i = n
      BY <1>3
    <2>2. \A i \in 1..n - 1 : i \in 1..n + 1 - 1
      BY <1>3
    <2>3. \A k \in DOMAIN yielded :
            \E i \in 1..n + 1 - 1 : stream[i].good /\ yielded[k] = Payload(i)
      BY <1>2, <2>2 DEF ReturnedUpTo
    <2>4. \A i \in 1..n + 1 - 1 : stream[i].good =>
            \E k \in DOMAIN yielded : yielded[k] = Payload(i)
      BY <1>2, <1>4, <2>1 DEF ReturnedUpTo
    <2> QED BY <1>2, <1>3, <2>3, <2>4 DEF ReturnedUpTo
  <1>11. StreamTypes'
    <2>1. buffer' \in Seq(Bytes) /\ cursor' \in 0..Len(buffer')
      BY <1>1
    <2> QED BY <1>1, <1>2, <1>6, <2>1 DEF StreamTypes
  <1>12. RowOfFrames(t) /\ ReturnedUpTo(yielded', FirstOf(t)) /\ t = Unreturned'
    BY <1>1, <1>9, <1>10, <1>b
  <1> QED BY <1>1, <1>11, <1>12, ScannerKeeps

LEMMA StreamStepKeeps == StreamInv /\ [StreamNext]_streamvars => StreamInv'
  <1> SUFFICES ASSUME StreamInv, [StreamNext]_streamvars PROVE StreamInv'
    OBVIOUS
  <1>1. ASSUME NEW size \in 1..max_frame_size, NEW good \in BOOLEAN, EncodeNext(size, good)
        PROVE  StreamInv'
    BY <1>1, EncodeNextKeeps
  <1>2. ASSUME NEW n \in 1..StreamPrefix + max_frame_size, Feed(n) PROVE StreamInv'
    <2>1. n \in Nat
      BY SifAssumption
    <2> QED BY <1>2, <2>1, FeedKeeps
  <1>3. CASE UNCHANGED streamvars
    <2>1. UNCHANGED <<stream, unread, buffer, cursor, yielded>>
      BY <1>3 DEF streamvars
    <2>2. StreamTypes' /\ Unreturned' = Unreturned
      BY <2>1 DEF StreamInv, StreamTypes, Unreturned
    <2>a. PICK t : t = Unreturned
      OBVIOUS
    <2>3. RowOfFrames(t) /\ ReturnedUpTo(yielded', FirstOf(t)) /\ t = Unreturned'
      BY <2>1, <2>2, <2>a DEF StreamInv
    <2> QED BY <2>1, <2>2, <2>3, ScannerKeeps
  <1> QED BY <1>1, <1>2, <1>3, NextFrameKeeps, ResetScannerKeeps DEF StreamNext

LEMMA WholeFrames == StreamInv => FramesAreWhole
  <1> SUFFICES ASSUME StreamInv PROVE FramesAreWhole
    OBVIOUS
  <1>a. PICK s : s = Unreturned
    OBVIOUS
  <1>b. PICK n : n = FirstOf(s)
    OBVIOUS
  <1>1. StreamTypes /\ RowOfFrames(s) /\ ReturnedUpTo(yielded, n)
    BY <1>a, <1>b DEF StreamInv
  <1>2. n \in 1..Len(stream) + 1 /\ Len(stream) \in Nat
    BY <1>1, <1>b, FirstIsNext
  <1>3. n - 1 \in 0..Len(stream)
    BY <1>2
  <1>4. \E m \in 0..Len(stream) :
          /\ \A k \in DOMAIN yielded : \E i \in 1..m : stream[i].good /\ yielded[k] = Payload(i)
          /\ \A i \in 1..m : stream[i].good => \E k \in DOMAIN yielded : yielded[k] = Payload(i)
    BY <1>1, <1>3 DEF ReturnedUpTo
  <1>5. FrameIsThere \/ HasRoom(1)
    <2> SUFFICES ASSUME ~FrameIsThere PROVE HasRoom(1)
      OBVIOUS
    <2>1. cursor \in Nat /\ Len(buffer) \in Nat /\ cursor <= Len(buffer) /\ Buffered \in Nat
      BY <1>1, SeqParts DEF Buffered
    <2>2. StreamPrefix \in Nat \ {0} /\ max_frame_size \in Nat
      BY SifAssumption
    <2>3. CASE Buffered < StreamPrefix
      BY <2>1, <2>2, <2>3 DEF HasRoom
    <2>4. CASE Buffered >= StreamPrefix
      <3>1. AtCursor \in 1..Len(stream) /\ Width(AtCursor) \in Nat
        BY <2>4, AtCursorIsFirst
      <3>2. Width(AtCursor) <= StreamPrefix + max_frame_size
        BY <1>1, <3>1, FrameWidths
      <3>3. cursor + Width(AtCursor) > Len(buffer)
        <4>1. ~(End <= Len(buffer)) /\ End \in Nat
          BY <2>4, AtCursorIsFirst DEF FrameIsThere
        <4> QED BY <2>1, <3>1, <4>1 DEF End
      <3>a. PICK wide : wide = Width(AtCursor)
        OBVIOUS
      <3> QED BY <2>1, <2>2, <3>1, <3>2, <3>3, <3>a DEF HasRoom, Buffered
    <2> QED BY <2>1, <2>2, <2>3, <2>4
  <1> QED BY <1>1, <1>4, <1>5 DEF FramesAreWhole, ReturnedUpTo

(* However the stream is cut into chunks, the scanner returns the good     *)
(* frames, each whole, once and in order, and is never without a frame or  *)
(* room.                                                                   *)
THEOREM FramesReturned == StreamSpec => []FramesAreWhole
  <1>1. StreamSpec => []StreamInv
    BY StreamInitHolds, StreamStepKeeps, PTL DEF StreamSpec
  <1> QED BY <1>1, WholeFrames, PTL

(***************************************************************************)
(* Record files (RecordFile)                                               *)
(*                                                                         *)
(* Whatever is lost, the cells of the file keep the order they were        *)
(* generated in, so that two records the readers find, one behind the      *)
(* other, are two of the command and in its order.  When nothing is lost   *)
(* each piece is where the ones before it end, and that is where the loop  *)
(* looks for it.                                                           *)
(***************************************************************************)

PieceKinds == {"length", "frame"}
CellSet == PieceKinds \X Nat \X (1..2)

(* The order in which cells are generated.                                 *)
FirstRank(kind, lsn) == 8 * lsn + (IF kind = "frame" THEN 2 ELSE 0)
Rank(cell) == FirstRank(cell[1], cell[2]) + cell[3]

Ordered(s) == \A i, j \in 1..Len(s) : i < j => Rank(s[i]) < Rank(s[j])
Below(s, rank) == \A i \in 1..Len(s) : Rank(s[i]) <= rank /\ s[i][2] \in 1..total
CellsInOrder(s, rank) == s \in Seq(CellSet) /\ Ordered(s) /\ Below(s, rank)

(* Where a piece is when none was lost.                                    *)
Start(lsn) == 3 * (lsn - 1) + lsn \div 2
Place(kind, lsn) == Start(lsn) + (IF kind = "frame" THEN LengthSize ELSE 0)
PlaceAfter(kind, lsn) == Place(kind, lsn) + Len(Cells(kind, lsn))
IsAt(s, kind, lsn) ==
  /\ PlaceAfter(kind, lsn) <= Len(s)
  /\ SubSeq(s, Place(kind, lsn) + 1, PlaceAfter(kind, lsn)) = Cells(kind, lsn)

Written(kind, lsn) ==
  lsn < next_record \/ (lsn = next_record /\ kind = "length" /\ piece = "frame")

Exact(s) ==
  /\ Len(s) = Place(piece, next_record)
  /\ \A lsn \in 1..total, kind \in PieceKinds : Written(kind, lsn) => IsAt(s, kind, lsn)

FileContents == disk \o buffered

WriterTypes ==
  /\ total \in 0..MaxGenerated /\ next_record \in 1..total + 1
  /\ piece \in PieceKinds /\ (piece = "frame" => next_record <= total)
  /\ disk \in Seq(CellSet) /\ buffered \in Seq(CellSet)
  /\ lost \in BOOLEAN /\ recording \in BOOLEAN /\ garbage \in Nat

ContentsInv ==
  /\ CellsInOrder(FileContents, FirstRank(piece, next_record))
  /\ ~lost => Exact(FileContents)
  /\ ~recording /\ ~lost => next_record = total + 1 /\ buffered = <<>>

ReaderTypes ==
  /\ offset \in 0..Len(disk) /\ counted \in Nat /\ replayed \in Seq(Nat)
  /\ ended \in {"no", "end", "refused"}
  /\ recording => offset = 0 /\ replayed = <<>> /\ counted = 0 /\ ended = "no"

Replayed ==
  /\ \A i, j \in DOMAIN replayed : i < j => replayed[i] < replayed[j]
  /\ \A i \in DOMAIN replayed : \E k \in 1..offset : disk[k] = <<"frame", replayed[i], 1>>
  /\ Len(replayed) <= counted

ReplayedAll ==
  ~lost => /\ Len(replayed) = counted /\ counted <= total
           /\ offset = Start(counted + 1)
           /\ ended # "refused" /\ (ended = "end" => counted = total)

RecordFileInv ==
  WriterTypes /\ ContentsInv /\ ReaderTypes /\ Replayed /\ ReplayedAll

LEMMA CellsForm ==
  ASSUME NEW kind \in PieceKinds, NEW lsn \in Nat
  PROVE  /\ Cells(kind, lsn) \in Seq(CellSet)
         /\ Len(Cells(kind, lsn)) = IF kind = "length" THEN 2 ELSE Size(lsn)
         /\ Len(Cells(kind, lsn)) \in 1..2 /\ Size(lsn) \in 1..2
         /\ \A i \in 1..Len(Cells(kind, lsn)) : Cells(kind, lsn)[i] = <<kind, lsn, i>>
  <1> DEFINE n == IF kind = "length" THEN LengthSize ELSE Size(lsn)
  <1>1. Size(lsn) \in 1..2 /\ n \in 1..2 /\ n \in Nat
    BY DEF Size, LengthSize
  <1>2. Cells(kind, lsn) = [i \in 1..n |-> <<kind, lsn, i>>]
    BY DEF Cells
  <1> HIDE DEF n
  <1>3. \A i \in 1..n : <<kind, lsn, i>> \in CellSet
    BY <1>1 DEF CellSet
  <1>4. Cells(kind, lsn) \in Seq(CellSet) /\ Len(Cells(kind, lsn)) = n
    BY <1>1, <1>2, <1>3
  <1> QED BY <1>1, <1>2, <1>4 DEF n, LengthSize

LEMMA FirstCell ==
  ASSUME NEW kind \in PieceKinds, NEW lsn \in Nat
  PROVE  Cells(kind, lsn)[1] = <<kind, lsn, 1>>
  <1> DEFINE p == Cells(kind, lsn)
  <1>1. Len(p) \in 1..2 /\ \A i \in 1..Len(p) : p[i] = <<kind, lsn, i>>
    BY CellsForm
  <1> HIDE DEF p
  <1>2. 1 \in 1..Len(p)
    BY <1>1
  <1>3. p[1] = <<kind, lsn, 1>>
    BY <1>1, <1>2
  <1> QED BY <1>3 DEF p

LEMMA RankOf ==
  ASSUME NEW kind \in PieceKinds, NEW lsn \in Nat, NEW i \in 1..2
  PROVE  Rank(<<kind, lsn, i>>) = FirstRank(kind, lsn) + i /\ FirstRank(kind, lsn) \in Nat
  BY DEF Rank, FirstRank

LEMMA CellRanks ==
  ASSUME NEW s \in Seq(CellSet), NEW i \in 1..Len(s)
  PROVE  Rank(s[i]) \in Nat /\ s[i][2] \in Nat
  <1>1. s[i] \in CellSet
    OBVIOUS
  <1>2. PICK kind \in PieceKinds, lsn \in Nat, k \in 1..2 : s[i] = <<kind, lsn, k>>
    BY <1>1 DEF CellSet
  <1>3. Rank(s[i]) = FirstRank(kind, lsn) + k /\ FirstRank(kind, lsn) \in Nat
    BY <1>2, RankOf
  <1> QED BY <1>2, <1>3

(* A piece that follows.                                                   *)
LEMMA PieceInOrder ==
  ASSUME NEW kind \in PieceKinds, NEW lsn \in Nat, lsn \in 1..total,
         NEW s, CellsInOrder(s, FirstRank(kind, lsn))
  PROVE  CellsInOrder(s \o Cells(kind, lsn), FirstRank(kind, lsn) + 2)
  <1> DEFINE p == Cells(kind, lsn)
             t == s \o p
             b == FirstRank(kind, lsn)
  <1>1. s \in Seq(CellSet) /\ Ordered(s) /\ Below(s, b)
    BY DEF CellsInOrder
  <1>2. p \in Seq(CellSet) /\ Len(p) \in 1..2
        /\ \A i \in 1..Len(p) : p[i] = <<kind, lsn, i>>
    BY CellsForm
  <1>3. b \in Nat /\ \A i \in 1..Len(p) : Rank(p[i]) = b + i /\ p[i][2] = lsn
    <2> HIDE DEF p
    <2>1. ASSUME NEW i \in 1..Len(p) PROVE Rank(p[i]) = b + i /\ p[i][2] = lsn
      <3>1. i \in 1..2 /\ p[i] = <<kind, lsn, i>>
        BY <1>2
      <3>2. Rank(<<kind, lsn, i>>) = FirstRank(kind, lsn) + i
        BY <3>1, RankOf
      <3> QED BY <3>1, <3>2
    <2>2. b \in Nat
      BY DEF FirstRank
    <2> QED BY <2>1, <2>2
  <1> HIDE DEF p, b
  <1>4. /\ t \in Seq(CellSet) /\ Len(t) = Len(s) + Len(p)
        /\ Len(s) \in Nat /\ Len(p) \in Nat
        /\ \A i \in 1..Len(s) : t[i] = s[i]
        /\ \A i \in 1..Len(t) : i > Len(s) => i - Len(s) \in 1..Len(p) /\ t[i] = p[i - Len(s)]
    BY <1>1, <1>2
  <1> HIDE DEF t
  <1>5. \A i \in 1..Len(t) : i <= Len(s) => i \in 1..Len(s) /\ Rank(t[i]) <= b /\ Rank(t[i]) \in Nat
    BY <1>1, <1>4, CellRanks DEF Below
  <1>6. \A i \in 1..Len(t) : i > Len(s) => Rank(t[i]) = b + (i - Len(s))
    BY <1>3, <1>4
  <1>7. Ordered(t)
    <2> SUFFICES ASSUME NEW i \in 1..Len(t), NEW j \in 1..Len(t), i < j
                 PROVE  Rank(t[i]) < Rank(t[j])
      BY DEF Ordered
    <2>1. CASE j <= Len(s)
      <3>1. i \in 1..Len(s) /\ j \in 1..Len(s)
        BY <1>4, <2>1
      <3> QED BY <1>1, <1>4, <3>1 DEF Ordered
    <2>2. CASE j > Len(s) /\ i <= Len(s)
      BY <1>3, <1>4, <1>5, <1>6, <2>2
    <2>3. CASE i > Len(s)
      <3>1. Rank(t[i]) = b + (i - Len(s)) /\ Rank(t[j]) = b + (j - Len(s))
        BY <1>4, <1>6, <2>3
      <3> QED BY <1>3, <1>4, <3>1
    <2> QED BY <1>4, <2>1, <2>2, <2>3
  <1>8. Below(t, b + 2)
    <2> SUFFICES ASSUME NEW i \in 1..Len(t) PROVE Rank(t[i]) <= b + 2 /\ t[i][2] \in 1..total
      BY DEF Below
    <2>1. CASE i <= Len(s)
      <3>1. i \in 1..Len(s)
        BY <1>4, <2>1
      <3>2. Rank(s[i]) <= b /\ s[i][2] \in 1..total /\ Rank(s[i]) \in Nat
        BY <1>1, <3>1, CellRanks DEF Below
      <3> QED BY <1>3, <1>4, <3>1, <3>2
    <2>2. CASE i > Len(s)
      <3>1. i - Len(s) \in 1..Len(p)
        BY <1>4, <2>2
      <3>2. t[i][2] = lsn
        BY <1>3, <1>4, <2>2, <3>1
      <3>3. i - Len(s) <= 2
        BY <1>2, <3>1
      <3> QED BY <1>3, <1>6, <2>2, <3>2, <3>3
    <2> QED BY <1>4, <2>1, <2>2
  <1> QED BY <1>4, <1>7, <1>8 DEF CellsInOrder, t, p, b

LEMMA OrderedPart ==
  ASSUME NEW s, NEW rank \in Nat, CellsInOrder(s, rank), NEW higher \in Nat, rank <= higher,
         NEW t \in Seq(CellSet), Len(t) <= Len(s), \A i \in 1..Len(t) : t[i] = s[i]
  PROVE  CellsInOrder(t, higher)
  <1>1. Len(s) \in Nat /\ Len(t) \in Nat /\ \A i \in 1..Len(t) : i \in 1..Len(s)
    BY DEF CellsInOrder
  <1>2. Ordered(t)
    BY <1>1 DEF Ordered, CellsInOrder
  <1>3. \A i \in 1..Len(t) : Rank(t[i]) \in Nat
    BY CellRanks
  <1>4. Below(t, higher)
    BY <1>1, <1>3 DEF Below, CellsInOrder
  <1> QED BY <1>2, <1>4 DEF CellsInOrder

(* Where pieces begin.                                                     *)
LEMMA PiecePlaces ==
  ASSUME NEW lsn \in Nat \ {0}
  PROVE  /\ Start(lsn) \in Nat /\ Start(1) = 0
         /\ Place("length", lsn) = Start(lsn) /\ Place("frame", lsn) = Start(lsn) + 2
         /\ PlaceAfter("length", lsn) = Start(lsn) + 2
         /\ PlaceAfter("frame", lsn) = Start(lsn) + 2 + Size(lsn)
         /\ Start(lsn + 1) = Start(lsn) + 2 + Size(lsn)
  <1>1. Len(Cells("length", lsn)) = 2 /\ Len(Cells("frame", lsn)) = Size(lsn)
        /\ Size(lsn) \in 1..2
    BY CellsForm DEF PieceKinds
  <1>2. Start(lsn) \in Nat /\ Start(1) = 0
    BY DEF Start
  <1>3. Start(lsn + 1) = Start(lsn) + 2 + Size(lsn)
    BY DEF Start, Size
  <1>4. Place("length", lsn) = Start(lsn) /\ Place("frame", lsn) = Start(lsn) + 2
    BY <1>2 DEF Place, LengthSize
  <1> QED BY <1>1, <1>2, <1>3, <1>4 DEF PlaceAfter

LEMMA IsAtStays ==
  ASSUME NEW s \in Seq(CellSet), NEW t \in Seq(CellSet), Len(s) <= Len(t),
         \A i \in 1..Len(s) : t[i] = s[i],
         NEW kind \in PieceKinds, NEW lsn \in Nat \ {0}, IsAt(s, kind, lsn)
  PROVE  IsAt(t, kind, lsn)
  <1> DEFINE a == Place(kind, lsn)
             b == PlaceAfter(kind, lsn)
  <1>1. a \in Nat /\ b \in Nat /\ b = a + Len(Cells(kind, lsn)) /\ a <= b
    <2>1. Start(lsn) \in Nat
      BY PiecePlaces
    <2>2. a \in Nat
      BY <2>1 DEF Place, LengthSize
    <2>3. Len(Cells(kind, lsn)) \in Nat
      BY CellsForm
    <2> QED BY <2>2, <2>3 DEF PlaceAfter
  <1>2. b <= Len(s) /\ Len(s) \in Nat /\ Len(t) \in Nat
    BY DEF IsAt
  <1> HIDE DEF a, b
  <1>3. SubSeq(t, a + 1, b) = SubSeq(s, a + 1, b)
    <2>1. \A i \in (a + 1)..b : i \in 1..Len(s) /\ i \in 1..Len(t)
      BY <1>1, <1>2
    <2>2. /\ SubSeq(s, a + 1, b) = [i \in 1..(b - a) |-> s[i + a]]
          /\ SubSeq(t, a + 1, b) = [i \in 1..(b - a) |-> t[i + a]]
      BY <1>1, <1>2
    <2>3. \A i \in 1..(b - a) : t[i + a] = s[i + a]
      <3>1. \A i \in 1..(b - a) : i + a \in (a + 1)..b
        BY <1>1
      <3> QED BY <2>1, <3>1
    <2> QED BY <2>2, <2>3, Zenon
  <1>4. b <= Len(t)
    BY <1>1, <1>2
  <1> QED BY <1>3, <1>4 DEF IsAt, a, b

LEMMA IsAtEnd ==
  ASSUME NEW s \in Seq(CellSet), NEW kind \in PieceKinds, NEW lsn \in Nat \ {0},
         Len(s) = Place(kind, lsn)
  PROVE  /\ IsAt(s \o Cells(kind, lsn), kind, lsn)
         /\ Len(s \o Cells(kind, lsn)) = PlaceAfter(kind, lsn)
  <1> DEFINE p == Cells(kind, lsn)
             a == Place(kind, lsn)
             b == PlaceAfter(kind, lsn)
  <1>1. p \in Seq(CellSet) /\ Len(p) \in Nat
    BY CellsForm
  <1>2. a \in Nat /\ b = a + Len(p)
    BY DEF PlaceAfter
  <1> HIDE DEF p, a, b
  <1>3. Len(s \o p) = b /\ SubSeq(s \o p, a + 1, b) = p
    BY <1>1, <1>2, Len(s) = a DEF a
  <1> QED BY <1>2, <1>3 DEF IsAt, p, a, b

LEMMA RecordInitHolds == RecordInit => RecordFileInv
  <1> SUFFICES ASSUME RecordInit PROVE RecordFileInv
    OBVIOUS
  <1>1. WriterTypes
    <2>1. total \in Nat /\ 1 \in 1..total + 1 /\ total \in 0..MaxGenerated
      BY RecordFileAssumption DEF RecordInit
    <2>2. garbage \in Nat
      BY RecordFileAssumption DEF RecordInit, TooLarge, LengthSize
    <2>3. disk \in Seq(CellSet) /\ buffered \in Seq(CellSet)
      BY DEF RecordInit
    <2> QED BY <2>1, <2>2, <2>3 DEF RecordInit, WriterTypes, PieceKinds
  <1>2. FileContents = <<>> /\ FileContents \in Seq(CellSet) /\ Len(FileContents) = 0
    BY DEF RecordInit, FileContents
  <1>3. CellsInOrder(FileContents, FirstRank(piece, next_record))
    BY <1>2 DEF CellsInOrder, Ordered, Below
  <1>4. Place(piece, next_record) = 0 /\ Start(1) = 0
    BY PiecePlaces DEF RecordInit
  <1>5. \A lsn \in 1..total, kind \in PieceKinds : ~Written(kind, lsn)
    BY DEF RecordInit, Written
  <1>6. Exact(FileContents)
    BY <1>2, <1>4, <1>5 DEF Exact
  <1>7. ContentsInv
    BY <1>3, <1>6 DEF ContentsInv, RecordInit
  <1>8. ReaderTypes
    BY DEF ReaderTypes, RecordInit
  <1>9. Replayed
    BY DEF Replayed, RecordInit
  <1>10. ReplayedAll
    BY <1>1, <1>4 DEF ReplayedAll, RecordInit, WriterTypes
  <1> QED BY <1>1, <1>7, <1>8, <1>9, <1>10 DEF RecordFileInv

(* What Advance goes on to, for the three orders above.                    *)
LEMMA AdvanceMoves ==
  ASSUME WriterTypes, Generating, Advance, total' = total
  PROVE  /\ next_record \in 1..total /\ next_record \in Nat \ {0}
         /\ next_record' \in 1..total' + 1 /\ piece' \in PieceKinds
         /\ (piece' = "frame" => next_record' <= total')
         /\ FirstRank(piece, next_record) \in Nat
         /\ FirstRank(piece, next_record) + 2 <= FirstRank(piece', next_record')
         /\ FirstRank(piece', next_record') \in Nat
         /\ Place(piece', next_record') = PlaceAfter(piece, next_record)
         /\ \A lsn \in 1..total, kind \in PieceKinds :
              Written(kind, lsn)' => \/ Written(kind, lsn)
                                     \/ (lsn = next_record /\ kind = piece)
  <1>1. next_record \in 1..total /\ next_record \in Nat \ {0} /\ total \in Nat
    BY RecordFileAssumption DEF WriterTypes, Generating
  <1>2. CASE piece = "length"
    <2>1. piece' = "frame" /\ next_record' = next_record
      BY <1>2 DEF Advance
    <2>2. Place(piece', next_record') = PlaceAfter(piece, next_record)
      BY <1>1, <1>2, <2>1, PiecePlaces
    <2>3. FirstRank(piece, next_record) \in Nat /\ FirstRank(piece', next_record') \in Nat
          /\ FirstRank(piece, next_record) + 2 <= FirstRank(piece', next_record')
      BY <1>1, <1>2, <2>1 DEF FirstRank
    <2>4. ASSUME NEW lsn \in 1..total, NEW kind \in PieceKinds, Written(kind, lsn)'
          PROVE  Written(kind, lsn) \/ (lsn = next_record /\ kind = piece)
      <3>1. lsn < next_record' \/ (lsn = next_record' /\ kind = "length")
        BY <2>4 DEF Written
      <3> QED BY <1>2, <2>1, <3>1 DEF Written
    <2> QED BY <1>1, <1>2, <2>1, <2>2, <2>3, <2>4 DEF PieceKinds
  <1>3. CASE piece = "frame"
    <2>1. piece' = "length" /\ next_record' = next_record + 1
      BY <1>3 DEF Advance
    <2>2. next_record + 1 \in Nat \ {0}
      BY <1>1
    <2>3. Place("length", next_record + 1) = Start(next_record + 1)
      BY <2>2, PiecePlaces
    <2>4. PlaceAfter("frame", next_record) = Start(next_record + 1)
      BY <1>1, PiecePlaces
    <2>5. \A lsn \in 1..total, kind \in PieceKinds :
            Written(kind, lsn)' => \/ Written(kind, lsn)
                                   \/ (lsn = next_record /\ kind = piece)
      BY <1>1, <1>3, <2>1 DEF Written, PieceKinds
    <2>6. FirstRank(piece, next_record) \in Nat /\ FirstRank(piece', next_record') \in Nat
          /\ FirstRank(piece, next_record) + 2 <= FirstRank(piece', next_record')
      BY <1>1, <1>3, <2>1 DEF FirstRank
    <2> QED BY <1>1, <1>3, <2>1, <2>3, <2>4, <2>5, <2>6 DEF PieceKinds
  <1> QED BY <1>2, <1>3 DEF WriterTypes, PieceKinds

(* A piece that is written.                                                *)
LEMMA PieceKeepsContents ==
  ASSUME WriterTypes, ContentsInv, Generating, Advance, UNCHANGED <<total, lost, recording>>,
         FileContents' = FileContents \o Cells(piece, next_record)
  PROVE  ContentsInv'
  <1> DEFINE p == Cells(piece, next_record)
  <1>1. /\ next_record \in 1..total /\ next_record \in Nat \ {0} /\ piece \in PieceKinds
        /\ FirstRank(piece, next_record) \in Nat
        /\ FirstRank(piece, next_record) + 2 <= FirstRank(piece', next_record')
        /\ FirstRank(piece', next_record') \in Nat
        /\ Place(piece', next_record') = PlaceAfter(piece, next_record)
        /\ \A lsn \in 1..total, kind \in PieceKinds :
             Written(kind, lsn)' => \/ Written(kind, lsn)
                                    \/ (lsn = next_record /\ kind = piece)
    BY AdvanceMoves DEF WriterTypes
  <1>2. p \in Seq(CellSet)
    BY <1>1, CellsForm
  <1>3. FileContents \in Seq(CellSet) /\ CellsInOrder(FileContents, FirstRank(piece, next_record))
    BY DEF ContentsInv, CellsInOrder
  <1>4. CellsInOrder(FileContents \o p, FirstRank(piece, next_record) + 2)
    BY <1>1, <1>3, PieceInOrder
  <1> HIDE DEF p
  <1>5. /\ FileContents' \in Seq(CellSet) /\ Len(FileContents) <= Len(FileContents')
        /\ \A i \in 1..Len(FileContents) : FileContents'[i] = FileContents[i]
    BY <1>2, <1>3 DEF p
  <1>6. CellsInOrder(FileContents', FirstRank(piece, next_record) + 2)
    BY <1>4 DEF p
  <1>7. CellsInOrder(FileContents', FirstRank(piece', next_record'))
    <2>1. FirstRank(piece, next_record) + 2 \in Nat /\ Len(FileContents') <= Len(FileContents')
      BY <1>1, <1>5
    <2> QED BY <1>1, <1>5, <1>6, <2>1, OrderedPart
  <1>8. CellsInOrder(FileContents, FirstRank(piece, next_record))'
    BY <1>7 DEF CellsInOrder, Below
  <1>9. ASSUME ~lost PROVE Exact(FileContents)'
    <2>1. Exact(FileContents)
      BY <1>9 DEF ContentsInv
    <2>2. Len(FileContents') = PlaceAfter(piece, next_record)
          /\ IsAt(FileContents', piece, next_record)
      BY <1>1, <1>3, <2>1, IsAtEnd DEF Exact
    <2>3. ASSUME NEW lsn \in 1..total, NEW kind \in PieceKinds, Written(kind, lsn)'
          PROVE  IsAt(FileContents', kind, lsn)
      <3>1. CASE Written(kind, lsn)
        <4>1. IsAt(FileContents, kind, lsn) /\ lsn \in Nat \ {0}
          BY <2>1, <3>1 DEF Exact, WriterTypes
        <4> QED BY <1>3, <1>5, <4>1, IsAtStays
      <3> QED BY <1>1, <2>2, <2>3, <3>1
    <2> QED BY <1>1, <2>2, <2>3 DEF Exact
  <1> QED BY <1>8, <1>9 DEF ContentsInv, Generating

(* A piece that is dropped.                                                *)
LEMMA DropKeepsContents ==
  ASSUME WriterTypes, ContentsInv, Generating, Advance, UNCHANGED <<total, recording>>,
         lost', FileContents' = FileContents
  PROVE  ContentsInv'
  <1>1. /\ FirstRank(piece, next_record) \in Nat
        /\ FirstRank(piece, next_record) + 2 <= FirstRank(piece', next_record')
        /\ FirstRank(piece', next_record') \in Nat
    BY AdvanceMoves
  <1>2. CellsInOrder(FileContents, FirstRank(piece, next_record)) /\ FileContents \in Seq(CellSet)
    BY DEF ContentsInv, CellsInOrder
  <1>3. FirstRank(piece, next_record) <= FirstRank(piece', next_record') /\ Len(FileContents) <= Len(FileContents)
    BY <1>1, <1>2
  <1>4. CellsInOrder(FileContents, FirstRank(piece', next_record'))
    BY <1>1, <1>2, <1>3, OrderedPart
  <1>5. CellsInOrder(FileContents, FirstRank(piece, next_record))'
    BY <1>4 DEF CellsInOrder, Below
  <1> QED BY <1>5 DEF ContentsInv

LEMMA CutKeepsContents ==
  ASSUME WriterTypes, ContentsInv, NEW taken \in 0..Len(buffered), Finish(taken)
  PROVE  WriterTypes' /\ ContentsInv'
  <1> DEFINE part == SubSeq(buffered, 1, taken)
  <1>1. /\ next_record = total + 1 /\ piece = "length" /\ total \in Nat /\ next_record \in Nat
        /\ disk \in Seq(CellSet) /\ buffered \in Seq(CellSet) /\ Len(buffered) \in Nat
    BY RecordFileAssumption DEF WriterTypes, Finish, PieceKinds
  <1>2. /\ part \in Seq(CellSet) /\ Len(part) = taken
        /\ \A i \in 1..Len(part) : part[i] = buffered[i]
    BY <1>1
  <1>3. taken = Len(buffered) => part = buffered
    BY <1>1
  <1> HIDE DEF part
  <1>4. disk' = disk \o part /\ buffered' = <<>>
    BY DEF Finish, FlushBuffer, part
  <1>5. disk' \in Seq(CellSet)
    BY <1>1, <1>2, <1>4
  <1>6. FileContents' = disk \o part
    BY <1>4, <1>5 DEF FileContents
  <1>7. /\ Len(disk \o part) <= Len(FileContents)
        /\ \A i \in 1..Len(disk \o part) : (disk \o part)[i] = FileContents[i]
        /\ disk \o part \in Seq(CellSet)
    BY <1>1, <1>2 DEF FileContents
  <1>8. CellsInOrder(FileContents, FirstRank(piece, next_record)) /\ FirstRank(piece, next_record) \in Nat
    BY <1>1 DEF ContentsInv, FirstRank
  <1>9. FirstRank(piece, next_record) <= FirstRank(piece, next_record)
    BY <1>8
  <1>10. CellsInOrder(disk \o part, FirstRank(piece, next_record))
    BY <1>7, <1>8, <1>9, OrderedPart
  <1>11. CellsInOrder(FileContents, FirstRank(piece, next_record))'
    BY <1>6, <1>10 DEF CellsInOrder, Below, Finish
  <1>12. ASSUME ~lost' PROVE ~lost /\ Exact(FileContents)'
    <2>1. ~lost /\ taken = Len(buffered)
      <3>1. ~lost /\ ~(taken < Len(buffered))
        BY <1>12 DEF Finish
      <3> QED BY <1>1, <3>1
    <2>2. FileContents' = FileContents
      BY <1>3, <1>6, <2>1 DEF FileContents
    <2>3. Exact(FileContents)
      BY <2>1 DEF ContentsInv
    <2>4. \A lsn \in 1..total, kind \in PieceKinds : Written(kind, lsn)' => Written(kind, lsn)
      BY DEF Written, Finish
    <2> QED BY <2>1, <2>2, <2>3, <2>4 DEF Exact, Finish
  <1>13. ContentsInv'
    BY <1>1, <1>4, <1>11, <1>12 DEF ContentsInv, Finish
  <1>14. WriterTypes'
    <2>1. lost' \in BOOLEAN
      BY DEF Finish
    <2>2. buffered' \in Seq(CellSet)
      BY <1>4
    <2> QED BY <1>5, <2>1, <2>2 DEF WriterTypes, Finish
  <1> QED BY <1>13, <1>14

LEMMA WritersKeepContents ==
  ASSUME WriterTypes, ContentsInv,
         \/ WriteBuffered \/ EncodeFails
         \/ \E taken \in 0..Len(buffered) : WriteThrough(taken) \/ Finish(taken)
  PROVE  WriterTypes' /\ ContentsInv'
  <1> DEFINE p == Cells(piece, next_record)
  <1>1. disk \in Seq(CellSet) /\ buffered \in Seq(CellSet) /\ Len(buffered) \in Nat
    BY DEF WriterTypes
  <1>2. next_record \in Nat /\ piece \in PieceKinds
    BY RecordFileAssumption DEF WriterTypes
  <1>3. p \in Seq(CellSet)
    BY <1>2, CellsForm
  <1> HIDE DEF p
  <1>4. (disk \o buffered) \o p = disk \o (buffered \o p)
    <2>1. disk \in Seq(CellSet) /\ buffered \in Seq(CellSet) /\ p \in Seq(CellSet)
      BY <1>1, <1>3
    <2> QED BY ONLY <2>1, ConcatAssociative
  <1>5. CASE WriteBuffered
    <2>1. Generating /\ Advance /\ total' = total /\ disk' = disk /\ buffered' = buffered \o p
          /\ UNCHANGED <<lost, recording, garbage>>
      BY <1>5 DEF WriteBuffered, p
    <2>2. FileContents' = FileContents \o p
      BY <1>4, <2>1 DEF FileContents
    <2>3. ContentsInv'
      BY <2>1, <2>2, PieceKeepsContents DEF p
    <2>4. next_record' \in 1..total' + 1 /\ piece' \in PieceKinds
          /\ (piece' = "frame" => next_record' <= total')
      BY <2>1, AdvanceMoves
    <2> QED BY <1>1, <1>3, <2>1, <2>3, <2>4 DEF WriterTypes
  <1>6. CASE EncodeFails
    <2>1. CellsInOrder(FileContents, FirstRank(piece, next_record))' = CellsInOrder(FileContents, FirstRank(piece, next_record))
      BY <1>6 DEF EncodeFails, CellsInOrder, Below, FileContents
    <2> QED BY <1>6, <2>1, Zenon DEF EncodeFails, WriterTypes, ContentsInv
  <1>7. ASSUME NEW taken \in 0..Len(buffered), WriteThrough(taken)
        PROVE  WriterTypes' /\ ContentsInv'
    <2> DEFINE part == SubSeq(buffered, 1, taken)
               rest == SubSeq(buffered, taken + 1, Len(buffered))
    <2>1. part \in Seq(CellSet) /\ rest \in Seq(CellSet) /\ part \o rest = buffered
      <3>1. /\ 1 \in 1..Len(buffered) + 1 /\ taken \in 1 - 1..Len(buffered)
            /\ Len(buffered) \in taken..Len(buffered)
        BY <1>1
      <3>2. part \o rest = SubSeq(buffered, 1, Len(buffered))
        BY <1>1, <3>1, ConcatAdjacentSubSeq
      <3>3. SubSeq(buffered, 1, Len(buffered)) = buffered
        BY <1>1
      <3>4. part \in Seq(CellSet) /\ rest \in Seq(CellSet)
        BY <1>1
      <3> QED BY <3>2, <3>3, <3>4, Zenon
    <2>2. taken = Len(buffered) => part = buffered
      BY <1>1
    <2> HIDE DEF part, rest
    <2>3. Generating /\ Advance /\ total' = total /\ disk' = disk \o part
          /\ UNCHANGED <<recording, garbage>>
      BY <1>7 DEF WriteThrough, FlushBuffer, part
    <2>4. next_record' \in 1..total' + 1 /\ piece' \in PieceKinds
          /\ (piece' = "frame" => next_record' <= total')
      BY <2>3, AdvanceMoves
    <2>5. disk' \in Seq(CellSet)
      BY <1>1, <2>1, <2>3
    <2>6. CASE taken = Len(buffered)
      <3>1. buffered' = p /\ lost' = lost
        BY <1>7, <2>6 DEF WriteThrough, p
      <3>2. FileContents' = FileContents \o p
        BY <2>2, <2>3, <2>6, <3>1 DEF FileContents
      <3>3. ContentsInv'
        BY <2>3, <3>1, <3>2, PieceKeepsContents DEF p
      <3> QED BY <1>3, <2>3, <2>4, <2>5, <3>1, <3>3 DEF WriterTypes
    <2>7. CASE taken # Len(buffered)
      <3>1. buffered' = rest /\ lost' = TRUE
        BY <1>7, <2>7 DEF WriteThrough, rest
      <3>2. FileContents' = disk \o (part \o rest)
        <4>1. FileContents' = (disk \o part) \o rest
          BY <2>3, <3>1 DEF FileContents
        <4>2. disk \in Seq(CellSet) /\ part \in Seq(CellSet) /\ rest \in Seq(CellSet)
          BY <1>1, <2>1
        <4>3. (disk \o part) \o rest = disk \o (part \o rest)
          BY ONLY <4>2, ConcatAssociative
        <4> QED BY <4>1, <4>3
      <3>3. FileContents' = FileContents
        BY <2>1, <3>2 DEF FileContents
      <3>4. ContentsInv'
        BY <2>3, <3>1, <3>3, DropKeepsContents
      <3> QED BY <2>1, <2>3, <2>4, <2>5, <3>1, <3>4 DEF WriterTypes
    <2> QED BY <2>6, <2>7
  <1> QED BY <1>5, <1>6, <1>7, CutKeepsContents

(* While the command writes, no reader has begun.                          *)
LEMMA WritersKeepReaders ==
  ASSUME RecordFileInv, WriterTypes',
         \/ WriteBuffered \/ EncodeFails
         \/ \E taken \in 0..Len(buffered) : WriteThrough(taken) \/ Finish(taken)
  PROVE  ReaderTypes' /\ Replayed' /\ ReplayedAll'
  <1>1. recording /\ UNCHANGED readervars /\ total' = total
    BY DEF WriteBuffered, EncodeFails, WriteThrough, Finish, Generating
  <1>2. offset = 0 /\ replayed = <<>> /\ counted = 0 /\ ended = "no"
    BY <1>1 DEF RecordFileInv, ReaderTypes
  <1>3. Len(disk') \in Nat /\ total \in Nat /\ Start(1) = 0
    BY RecordFileAssumption, PiecePlaces DEF WriterTypes, RecordFileInv
  <1>4. offset' = 0 /\ replayed' = <<>> /\ counted' = 0 /\ ended' = "no"
    BY <1>1, <1>2 DEF readervars
  <1>5. ReaderTypes'
    BY <1>3, <1>4 DEF ReaderTypes
  <1>6. Replayed'
    BY <1>4 DEF Replayed
  <1>7. ReplayedAll'
    BY <1>1, <1>3, <1>4 DEF ReplayedAll
  <1> QED BY <1>5, <1>6, <1>7

(***************************************************************************)
(* The loop of the readers.                                                *)
(***************************************************************************)

LEMMA WholeFile ==
  ASSUME RecordFileInv, ~recording, ~lost
  PROVE  /\ Len(disk) = Start(total + 1)
         /\ \A lsn \in 1..total, kind \in PieceKinds : IsAt(disk, kind, lsn)
  <1>1. disk \in Seq(CellSet) /\ buffered = <<>> /\ next_record = total + 1 /\ piece = "length"
        /\ total \in Nat
    BY RecordFileAssumption DEF RecordFileInv, WriterTypes, ContentsInv, PieceKinds
  <1>2. FileContents = disk
    BY <1>1, ConcatEmptySeq DEF FileContents
  <1>3. Exact(disk)
    BY <1>2 DEF RecordFileInv, ContentsInv
  <1>4. total + 1 \in Nat \ {0} /\ \A lsn \in 1..total : lsn < next_record
    BY <1>1
  <1>5. Place("length", total + 1) = Start(total + 1)
    BY <1>4, PiecePlaces
  <1>6. Len(disk) = Start(total + 1)
    BY <1>1, <1>3, <1>5 DEF Exact
  <1>7. ASSUME NEW lsn \in 1..total, NEW kind \in PieceKinds PROVE IsAt(disk, kind, lsn)
    <2>1. Written(kind, lsn)
      BY <1>4 DEF Written
    <2> QED BY <1>3, <2>1 DEF Exact
  <1> QED BY <1>6, <1>7

LEMMA DiskInOrder ==
  ASSUME RecordFileInv
  PROVE  disk \in Seq(CellSet) /\ Ordered(disk) /\ \A i \in 1..Len(disk) : disk[i][2] \in 1..total
  <1>1. disk \in Seq(CellSet) /\ buffered \in Seq(CellSet)
    BY DEF RecordFileInv, WriterTypes
  <1>2. CellsInOrder(FileContents, FirstRank(piece, next_record)) /\ FirstRank(piece, next_record) \in Nat
    BY RecordFileAssumption DEF RecordFileInv, ContentsInv, WriterTypes, FirstRank
  <1>3. Len(disk) <= Len(FileContents) /\ \A i \in 1..Len(disk) : disk[i] = FileContents[i]
    BY <1>1 DEF FileContents
  <1>4. FirstRank(piece, next_record) <= FirstRank(piece, next_record)
    BY <1>2
  <1>5. CellsInOrder(disk, FirstRank(piece, next_record))
    BY <1>1, <1>2, <1>3, <1>4, OrderedPart
  <1> QED BY <1>5 DEF CellsInOrder, Below

(* A frame that is there when nothing was lost.                            *)
LEMMA NextFrameIsWhole ==
  ASSUME RecordFileInv, Reading, HasLength, ~lost
  PROVE  /\ counted + 1 \in 1..total
         /\ FrameLength = Size(counted + 1) /\ FrameLength \in 1..2
         /\ FrameEnd = Start(counted + 2) /\ FrameEnd <= Len(disk)
         /\ FrameAt(FrameEnd, FrameLength) = Cells("frame", counted + 1)
  <1> DEFINE n == counted + 1
  <1>1. counted \in Nat /\ total \in Nat /\ disk \in Seq(CellSet) /\ Len(disk) \in Nat
        /\ counted <= total /\ offset = Start(n)
    BY RecordFileAssumption
       DEF RecordFileInv, WriterTypes, ReaderTypes, ReplayedAll
  <1>2. Len(disk) = Start(total + 1)
        /\ \A lsn \in 1..total, kind \in PieceKinds : IsAt(disk, kind, lsn)
    BY WholeFile DEF Reading
  <1>3. n \in 1..total /\ n \in Nat \ {0}
    <2>1. CASE counted = total
      <3>1. Start(n) \in Nat
        BY <1>1, PiecePlaces
      <3> QED BY <1>1, <1>2, <2>1, <3>1 DEF HasLength, LengthSize
    <2> QED BY <1>1, <2>1
  <1>4. /\ Start(n) \in Nat
        /\ Place("length", n) = Start(n) /\ Place("frame", n) = Start(n) + 2
        /\ PlaceAfter("length", n) = Start(n) + 2
        /\ PlaceAfter("frame", n) = Start(n) + 2 + Size(n)
        /\ Start(n + 1) = Start(n) + 2 + Size(n)
    BY <1>3, PiecePlaces
  <1>5. IsAt(disk, "length", n) /\ IsAt(disk, "frame", n)
    BY <1>2, <1>3 DEF PieceKinds
  <1>6. Cells("length", n)[1] = <<"length", n, 1>> /\ Size(n) \in 1..2
    BY <1>3, FirstCell, CellsForm DEF PieceKinds
  <1> HIDE DEF n
  <1>7. SubSeq(disk, offset + 1, offset + LengthSize) = Cells("length", n)
    BY <1>1, <1>4, <1>5 DEF IsAt, LengthSize
  <1>8. FrameLength = Size(n)
    <2>1. Cells("length", n)[1][2] = n
      BY <1>6
    <2> QED BY <1>7, <2>1 DEF FrameLength
  <1>9. FrameEnd = Start(n + 1)
    BY <1>1, <1>4, <1>8 DEF FrameEnd, LengthSize
  <1>10. FrameEnd <= Len(disk)
    BY <1>4, <1>5, <1>9 DEF IsAt
  <1>11. FrameEnd - FrameLength + 1 = Start(n) + 2 + 1 /\ FrameEnd = PlaceAfter("frame", n)
    BY <1>4, <1>6, <1>8, <1>9
  <1>12. FrameAt(FrameEnd, FrameLength) = Cells("frame", n)
    BY <1>4, <1>5, <1>11 DEF FrameAt, IsAt
  <1>13. n + 1 = counted + 2
    BY <1>1 DEF n
  <1> QED BY <1>3, <1>6, <1>8, <1>9, <1>10, <1>12, <1>13 DEF n

(* What a frame that is taken adds.                                        *)
LEMMA TakenRecord ==
  ASSUME RecordFileInv, NEW end \in 0..Len(disk), NEW length \in Nat \ {0},
         length <= end, end - length >= offset
  PROVE  \/ Decode(FrameAt(end, length)) = <<>>
         \/ \E lsn \in Nat, k \in offset + 1..end :
              Decode(FrameAt(end, length)) = <<lsn>> /\ disk[k] = <<"frame", lsn, 1>>
  <1> DEFINE payload == FrameAt(end, length)
             n == payload[1][2]
             found == Decode(payload)
  <1>1. disk \in Seq(CellSet) /\ Len(disk) \in Nat /\ offset \in Nat /\ end \in Nat
    BY DEF RecordFileInv, WriterTypes, ReaderTypes
  <1>2. end - length + 1 \in 1..Len(disk) /\ end - length + 1 \in offset + 1..end
    BY <1>1
  <1>3. payload[1] = disk[end - length + 1]
    BY <1>1, <1>2 DEF FrameAt
  <1>4. disk[end - length + 1] \in CellSet
    BY <1>1, <1>2
  <1>5. n \in Nat
    BY <1>3, <1>4 DEF CellSet
  <1> HIDE DEF payload, n, found
  <1>6. CASE payload = Cells("frame", n)
    <2>1. Cells("frame", n)[1] = <<"frame", n, 1>>
      BY <1>5, FirstCell DEF PieceKinds
    <2>2. disk[end - length + 1] = <<"frame", n, 1>>
      BY <1>3, <1>6, <2>1
    <2>3. found = <<n>>
      BY <1>6 DEF Decode, payload, n, found
    <2> QED BY <1>2, <1>5, <2>2, <2>3 DEF found, payload
  <1>7. CASE payload # Cells("frame", n)
    BY <1>7 DEF Decode, payload, n
  <1> QED BY <1>6, <1>7

(* The writers' part, and the file, do not change while the loop runs.     *)
LEMMA ReadersKeepWriters ==
  ASSUME RecordFileInv, UNCHANGED writervars
  PROVE  WriterTypes' /\ ContentsInv' /\ FileContents' = FileContents
  <1>1. UNCHANGED <<total, next_record, piece, buffered, disk, lost, recording, garbage>>
    BY DEF writervars
  <1>2. FileContents' = FileContents
    BY <1>1 DEF FileContents
  <1>3. WriterTypes'
    BY <1>1 DEF RecordFileInv, WriterTypes
  <1>4. CellsInOrder(FileContents, FirstRank(piece, next_record))' = CellsInOrder(FileContents, FirstRank(piece, next_record))
    BY <1>1, <1>2 DEF CellsInOrder, Below
  <1>5. Exact(FileContents)' = Exact(FileContents)
    BY <1>1, <1>2 DEF Exact, Written
  <1> QED BY <1>1, <1>2, <1>3, <1>4, <1>5 DEF RecordFileInv, ContentsInv

LEMMA LengthsAreNat ==
  ASSUME RecordFileInv, HasLength
  PROVE  /\ offset \in Nat /\ Len(disk) \in Nat /\ offset + LengthSize <= Len(disk)
         /\ FrameLength \in Nat
  <1> DEFINE prefix == SubSeq(disk, offset + 1, offset + LengthSize)
  <1>1. disk \in Seq(CellSet) /\ Len(disk) \in Nat /\ offset \in Nat /\ garbage \in Nat
        /\ offset + 2 <= Len(disk)
    BY DEF RecordFileInv, WriterTypes, ReaderTypes, HasLength, LengthSize
  <1>2. prefix[1] = disk[offset + 1] /\ offset + 1 \in 1..Len(disk)
    BY <1>1 DEF LengthSize
  <1>3. disk[offset + 1] \in CellSet
    BY <1>1, <1>2
  <1>4. prefix[1][2] \in Nat
    BY <1>2, <1>3 DEF CellSet
  <1> HIDE DEF prefix
  <1>5. Size(prefix[1][2]) \in Nat
    BY <1>4 DEF Size
  <1> QED BY <1>1, <1>5 DEF FrameLength, prefix, LengthSize

(* The loop ends.                                                          *)
LEMMA StopKeeps ==
  ASSUME RecordFileInv, NEW how \in {"end", "refused"}, Stop(how), Reading,
         ~lost => how = "end" /\ counted = total
  PROVE  ReaderTypes' /\ Replayed' /\ ReplayedAll'
  <1>1. ended' = how /\ UNCHANGED <<disk, lost, total, recording, offset, replayed, counted>>
    BY DEF Stop, writervars
  <1>2. ~recording
    BY DEF Reading
  <1>3. ReaderTypes'
    BY <1>1, <1>2 DEF RecordFileInv, ReaderTypes
  <1>4. Replayed'
    BY <1>1 DEF RecordFileInv, Replayed
  <1>5. ReplayedAll'
    BY <1>1 DEF RecordFileInv, ReplayedAll
  <1> QED BY <1>3, <1>4, <1>5

LEMMA FileEndsKeeps ==
  ASSUME RecordFileInv, FileEnds
  PROVE  ReaderTypes' /\ Replayed' /\ ReplayedAll'
  <1>1. Reading /\ ~HasLength /\ Stop("end")
    BY DEF FileEnds
  <1>2. ASSUME ~lost PROVE counted = total
    <2>1. counted \in Nat /\ total \in Nat /\ counted <= total /\ offset = Start(counted + 1)
          /\ Len(disk) \in Nat /\ offset \in Nat
      BY <1>2, RecordFileAssumption
         DEF RecordFileInv, WriterTypes, ReaderTypes, ReplayedAll
    <2>2. SUFFICES ASSUME counted # total PROVE FALSE
      OBVIOUS
    <2>3. counted + 1 \in 1..total /\ counted + 1 \in Nat \ {0}
      BY <2>1, <2>2
    <2>4. IsAt(disk, "length", counted + 1)
      BY <1>1, <1>2, <2>3, WholeFile DEF Reading, PieceKinds
    <2>5. PlaceAfter("length", counted + 1) = Start(counted + 1) + 2
      BY <2>3, PiecePlaces
    <2> QED BY <1>1, <2>1, <2>4, <2>5 DEF IsAt, HasLength, LengthSize
  <1> QED BY <1>1, <1>2, StopKeeps

LEMMA RefuseLengthKeeps ==
  ASSUME RecordFileInv, RefuseLength
  PROVE  ReaderTypes' /\ Replayed' /\ ReplayedAll'
  <1>1. Reading /\ HasLength /\ FrameLength >= TooLarge /\ Stop("refused")
    BY DEF RefuseLength
  <1>2. TooLarge \in Nat /\ TooLarge >= 4
    BY RecordFileAssumption DEF TooLarge, LengthSize
  <1>3. lost
    <2>1. ~lost => FrameLength \in 1..2
      BY <1>1, NextFrameIsWhole
    <2> QED BY <1>1, <1>2, <2>1 DEF RecordFileInv, WriterTypes
  <1> QED BY <1>1, <1>3, StopKeeps

LEMMA StopAtTruncatedKeeps ==
  ASSUME RecordFileInv, StopAtTruncated
  PROVE  ReaderTypes' /\ Replayed' /\ ReplayedAll'
  <1>1. Reading /\ HasLength /\ FrameEnd > Len(disk) /\ Stop("end")
    BY DEF StopAtTruncated, AFrame, Truncated
  <1>2. Len(disk) \in Nat /\ FrameEnd \in Nat
    BY <1>1, LengthsAreNat DEF FrameEnd, LengthSize
  <1>3. lost
    <2>1. ~lost => FrameEnd <= Len(disk)
      BY <1>1, NextFrameIsWhole
    <2> QED BY <1>1, <1>2, <2>1 DEF RecordFileInv, WriterTypes
  <1> QED BY <1>1, <1>3, StopKeeps

LEMMA SkipEmptyKeeps ==
  ASSUME RecordFileInv, SkipEmpty
  PROVE  ReaderTypes' /\ Replayed' /\ ReplayedAll'
  <1>1. Reading /\ HasLength /\ FrameLength = 0 /\ offset' = offset + LengthSize
        /\ UNCHANGED <<disk, lost, total, recording, replayed, counted, ended>>
    BY DEF SkipEmpty, writervars
  <1>2. lost
    <2>1. ~lost => FrameLength \in 1..2
      BY <1>1, NextFrameIsWhole
    <2> QED BY <1>1, <2>1 DEF RecordFileInv, WriterTypes
  <1>3. offset' \in 0..Len(disk') /\ offset \in Nat /\ offset' \in Nat /\ offset <= offset'
    BY <1>1, LengthsAreNat DEF LengthSize
  <1>4. ReaderTypes'
    BY <1>1, <1>3 DEF RecordFileInv, ReaderTypes, Reading
  <1>5. Replayed'
    <2>1. \A k \in 1..offset : k \in 1..offset'
      BY <1>3
    <2> QED BY <1>1, <2>1 DEF RecordFileInv, Replayed
  <1> QED BY <1>1, <1>2, <1>4, <1>5 DEF ReplayedAll

LEMMA TakeFrameKeeps ==
  ASSUME RecordFileInv, TakeFrame
  PROVE  ReaderTypes' /\ Replayed' /\ ReplayedAll'
  <1> DEFINE found == Decode(FrameAt(FrameEnd, FrameLength))
  <1>1. /\ Reading /\ HasLength /\ FrameLength \in 1..TooLarge - 1
        /\ ~(FrameEnd > Len(disk)) /\ replayed' = replayed \o found /\ counted' = counted + 1
        /\ offset' = FrameEnd
        /\ UNCHANGED <<disk, lost, total, recording, ended>>
    BY DEF TakeFrame, AFrame, Truncated, writervars
  <1>2. /\ offset \in Nat /\ Len(disk) \in Nat /\ FrameLength \in Nat \ {0}
        /\ FrameEnd \in Nat /\ FrameEnd <= Len(disk) /\ FrameLength <= FrameEnd
        /\ FrameEnd - FrameLength >= offset /\ offset <= FrameEnd /\ FrameEnd \in 0..Len(disk)
    BY <1>1, LengthsAreNat DEF FrameEnd, LengthSize
  <1>3. \/ found = <<>>
        \/ \E lsn \in Nat, k \in offset + 1..FrameEnd :
             found = <<lsn>> /\ disk[k] = <<"frame", lsn, 1>>
    BY <1>2, TakenRecord
  <1> HIDE DEF found
  <1>4. /\ replayed \in Seq(Nat) /\ counted \in Nat /\ Len(replayed) \in Nat
        /\ Len(replayed) <= counted
    BY DEF RecordFileInv, ReaderTypes, Replayed
  <1>5. found \in Seq(Nat) /\ Len(found) \in 0..1
    <2>1. CASE found = <<>>
      BY <2>1
    <2>2. CASE found # <<>>
      <3>1. PICK lsn \in Nat : found = <<lsn>>
        BY <1>3, <2>2
      <3> QED BY <3>1
    <2> QED BY <2>1, <2>2
  <1>6. replayed' \in Seq(Nat) /\ Len(replayed') = Len(replayed) + Len(found)
    BY <1>1, <1>4, <1>5
  <1>7. ReaderTypes'
    BY <1>1, <1>2, <1>4, <1>6 DEF RecordFileInv, ReaderTypes, Reading
  <1>8. Replayed'
    <2>1. CASE found = <<>>
      <3>1. replayed' = replayed
        BY <1>1, <1>4, <2>1
      <3>2. \A k \in 1..offset : k \in 1..offset'
        BY <1>1, <1>2
      <3>3. Len(replayed') <= counted'
        BY <1>1, <1>4, <3>1
      <3>4. \A i \in DOMAIN replayed' : \E k \in 1..offset' : disk'[k] = <<"frame", replayed'[i], 1>>
        BY <1>1, <3>1, <3>2 DEF RecordFileInv, Replayed
      <3>5. \A i, j \in DOMAIN replayed' : i < j => replayed'[i] < replayed'[j]
        BY <3>1 DEF RecordFileInv, Replayed
      <3> QED BY <3>3, <3>4, <3>5 DEF Replayed
    <2>2. CASE found # <<>>
      <3>1. PICK lsn \in Nat, k \in offset + 1..FrameEnd :
              found = <<lsn>> /\ disk[k] = <<"frame", lsn, 1>>
        BY <1>3, <2>2
      <3> DEFINE n == Len(replayed)
      <3>2. /\ Len(replayed') = n + 1 /\ n \in Nat
            /\ \A i \in 1..n : replayed'[i] = replayed[i]
            /\ replayed'[n + 1] = lsn
            /\ DOMAIN replayed' = 1..n + 1 /\ DOMAIN replayed = 1..n
        BY <1>1, <1>4, <1>6, <3>1
      <3>3. \A i \in 1..n : \E m \in 1..offset : disk[m] = <<"frame", replayed[i], 1>>
        BY <3>2 DEF RecordFileInv, Replayed
      <3>4. k \in 1..Len(disk) /\ k \in 1..offset' /\ k \in Nat /\ k > offset
        BY <1>1, <1>2
      <3>5. ASSUME NEW i \in 1..n PROVE replayed[i] < lsn /\ replayed[i] \in Nat
        <4>1. PICK m \in 1..offset : disk[m] = <<"frame", replayed[i], 1>>
          BY <3>3
        <4>2. m \in 1..Len(disk) /\ m < k
          BY <1>2, <3>4
        <4>3. Rank(disk[m]) < Rank(disk[k])
          BY <3>4, <4>2, DiskInOrder DEF Ordered
        <4>4. replayed[i] \in Nat
          BY <1>4, <3>2
        <4>5. Rank(disk[m]) = 8 * replayed[i] + 3
          BY <4>1, <4>4 DEF Rank, FirstRank
        <4>6. Rank(disk[k]) = 8 * lsn + 3
          BY <3>1 DEF Rank, FirstRank
        <4> QED BY <4>3, <4>4, <4>5, <4>6
      <3> HIDE DEF n
      <3>6. ASSUME NEW i \in DOMAIN replayed', NEW j \in DOMAIN replayed', i < j
            PROVE  replayed'[i] < replayed'[j]
        <4>1. i \in 1..n
          BY <3>2, <3>6
        <4>2. CASE j = n + 1
          BY <3>2, <3>5, <4>1, <4>2
        <4>3. CASE j # n + 1
          <5>1. j \in 1..n
            BY <3>2, <4>3
          <5>2. replayed[i] < replayed[j]
            BY <3>2, <3>6, <4>1, <5>1 DEF RecordFileInv, Replayed
          <5> QED BY <3>2, <4>1, <5>1, <5>2
        <4> QED BY <4>2, <4>3
      <3>7. ASSUME NEW i \in DOMAIN replayed'
            PROVE  \E m \in 1..offset' : disk'[m] = <<"frame", replayed'[i], 1>>
        <4>1. CASE i = n + 1
          BY <1>1, <3>1, <3>2, <3>4, <4>1
        <4>2. CASE i # n + 1
          <5>1. i \in 1..n
            BY <3>2, <4>2
          <5>2. PICK m \in 1..offset : disk[m] = <<"frame", replayed[i], 1>>
            BY <3>3, <5>1
          <5>3. m \in 1..offset'
            BY <1>1, <1>2
          <5> QED BY <1>1, <3>2, <5>1, <5>2, <5>3
        <4> QED BY <4>1, <4>2
      <3>8. Len(replayed') <= counted'
        BY <1>1, <1>4, <3>2 DEF n
      <3> QED BY <3>6, <3>7, <3>8 DEF Replayed
    <2> QED BY <2>1, <2>2
  <1>9. ReplayedAll'
    <2> SUFFICES ASSUME ~lost'
                 PROVE  /\ Len(replayed') = counted' /\ counted' <= total'
                        /\ offset' = Start(counted' + 1)
                        /\ ended' # "refused" /\ (ended' = "end" => counted' = total')
      BY DEF ReplayedAll
    <2>1. ~lost
      BY <1>1
    <2>2. counted + 1 \in 1..total /\ FrameEnd = Start(counted + 2)
          /\ FrameAt(FrameEnd, FrameLength) = Cells("frame", counted + 1)
      BY <1>1, <2>1, NextFrameIsWhole
    <2>3. Cells("frame", counted + 1)[1] = <<"frame", counted + 1, 1>>
      BY <1>4, FirstCell DEF PieceKinds
    <2>4. found = <<counted + 1>>
      <3>1. Cells("frame", counted + 1)[1][2] = counted + 1
        BY <2>3
      <3> QED BY <2>2, <3>1 DEF found, Decode
    <2>5. Len(replayed) = counted
      BY <2>1 DEF RecordFileInv, ReplayedAll
    <2>6. Len(replayed') = counted'
      BY <1>1, <1>4, <1>6, <2>4, <2>5
    <2>7. counted' + 1 = counted + 2 /\ counted' <= total'
      <3>1. total \in Nat
        BY RecordFileAssumption DEF RecordFileInv, WriterTypes
      <3> QED BY <1>1, <1>4, <2>2, <3>1
    <2>8. ended' = "no"
      BY <1>1 DEF Reading
    <2> QED BY <1>1, <2>2, <2>6, <2>7, <2>8
  <1> QED BY <1>7, <1>8, <1>9

LEMMA RecordStepKeeps == RecordFileInv /\ [RecordNext]_recordvars => RecordFileInv'
  <1> SUFFICES ASSUME RecordFileInv, [RecordNext]_recordvars PROVE RecordFileInv'
    OBVIOUS
  <1>1. CASE \/ WriteBuffered \/ EncodeFails
             \/ \E taken \in 0..Len(buffered) : WriteThrough(taken) \/ Finish(taken)
    <2>1. WriterTypes' /\ ContentsInv'
      BY <1>1, WritersKeepContents DEF RecordFileInv
    <2>2. ReaderTypes' /\ Replayed' /\ ReplayedAll'
      BY <1>1, <2>1, WritersKeepReaders
    <2> QED BY <2>1, <2>2 DEF RecordFileInv
  <1>2. CASE FileEnds \/ SkipEmpty \/ RefuseLength \/ StopAtTruncated \/ TakeFrame
    <2>1. UNCHANGED writervars
      BY <1>2 DEF FileEnds, SkipEmpty, RefuseLength, StopAtTruncated, TakeFrame, Stop
    <2>2. WriterTypes' /\ ContentsInv'
      BY <2>1, ReadersKeepWriters
    <2>3. ReaderTypes' /\ Replayed' /\ ReplayedAll'
      BY <1>2, FileEndsKeeps, SkipEmptyKeeps, RefuseLengthKeeps, StopAtTruncatedKeeps,
         TakeFrameKeeps
    <2> QED BY <2>2, <2>3 DEF RecordFileInv
  <1>3. CASE UNCHANGED recordvars
    <2>1. UNCHANGED writervars /\ UNCHANGED readervars
      BY <1>3 DEF recordvars
    <2>2. WriterTypes' /\ ContentsInv'
      BY <2>1, ReadersKeepWriters
    <2>3. UNCHANGED <<disk, lost, total, recording, offset, replayed, counted, ended>>
      BY <2>1 DEF writervars, readervars
    <2>4. ReaderTypes'
      BY <2>3 DEF RecordFileInv, ReaderTypes
    <2>5. Replayed'
      BY <2>3 DEF RecordFileInv, Replayed
    <2>6. ReplayedAll'
      BY <2>3 DEF RecordFileInv, ReplayedAll
    <2> QED BY <2>2, <2>4, <2>5, <2>6 DEF RecordFileInv
  <1> QED BY <1>1, <1>2, <1>3 DEF RecordNext

LEMMA ReplayedRecords == RecordFileInv => ReadersAgree
  <1> SUFFICES ASSUME RecordFileInv PROVE ReadersAgree
    OBVIOUS
  <1>1. counted \in Nat /\ Len(replayed) <= counted /\ Len(replayed) \in Nat
    BY DEF RecordFileInv, ReaderTypes, Replayed
  <1>2. ASSUME NEW i \in DOMAIN replayed PROVE replayed[i] \in 1..total
    <2>1. PICK k \in 1..offset : disk[k] = <<"frame", replayed[i], 1>>
      BY DEF RecordFileInv, Replayed
    <2>2. k \in 1..Len(disk)
      BY DEF RecordFileInv, ReaderTypes, WriterTypes
    <2>3. disk[k][2] \in 1..total
      BY <2>2, DiskInOrder
    <2> QED BY <2>1, <2>3
  <1>3. ~lost /\ ended # "no" => ended = "end" /\ Len(replayed) = total /\ counted = total
    BY DEF RecordFileInv, ReplayedAll, ReaderTypes
  <1>4. \A i, j \in DOMAIN replayed : i < j => replayed[i] < replayed[j]
    BY DEF RecordFileInv, Replayed
  <1> QED BY <1>1, <1>2, <1>3, <1>4 DEF ReadersAgree

(* Whatever the disk refuses, the readers of a record file show records of *)
(* the command, once and in order, and all of them when none was lost.     *)
THEOREM RecordFileRead == RecordSpec => []ReadersAgree
  <1>1. RecordSpec => []RecordFileInv
    BY RecordInitHolds, RecordStepKeeps, PTL DEF RecordSpec
  <1> QED BY <1>1, ReplayedRecords, PTL

-----------------------------------------------------------------------------
(* Fields read back under their names across processes, but for vendor      *)
(* names that a process without a table of them was sent; a stream yields  *)
(* whole frames however it is cut; and the readers of a record file agree  *)
(* on it.                                                                  *)
RecordsReadBack == FieldsReadBack /\ FramesAreWhole /\ ReadersAgree

(* SifCodec, RecordFile: so it is for every table of core names, every     *)
(* number of readers, frames and records, every size of a frame and of the *)
(* recorder's buffer, when one process sets fields.                        *)
THEOREM RecordsAreReadBack ==
  ASSUME NEW writer, Writers = {writer}
  PROVE  WireSpec /\ StreamSpec /\ RecordSpec => []RecordsReadBack
  BY WireReadBack, FramesReturned, RecordFileRead, PTL DEF RecordsReadBack

=============================================================================
