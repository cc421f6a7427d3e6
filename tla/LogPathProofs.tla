--------------------------- MODULE LogPathProofs ---------------------------
(***************************************************************************)
(* Proofs about LogPath, for every finite set of producers, every capacity *)
(* of the ring and the audit queue and every number of calls: no record is *)
(* lost or freed twice, and whoever holds a record finds room for it; each *)
(* record accepted meets one fate and the sinks see them in order; and the *)
(* counters add up when the consumer has stopped.                          *)
(***************************************************************************)
EXTENDS LogPath, FiniteSetTheorems, TLAPS

Places == Owning \cup {"idle", "alloc", "accepted"}

\* What the counting of records needs of the types.
Counting ==
  /\ free \in Nat /\ audit \in Nat
  /\ pushed \in Nat /\ popped \in Nat /\ popped <= pushed
  /\ ppc \in [Producers -> Places]
  /\ hold \in [Threads -> Nat]

IInv == Counting /\ RecordsConserved

One(b) == IF b THEN 1 ELSE 0

-----------------------------------------------------------------------------
(* How a step of a thread changes the sets that are counted                *)

\* Owners of records are finitely many, and so are busy threads.
LEMMA CountsAreNumbers ==
  /\ IsFiniteSet(Owners) /\ Cardinality(Owners) \in Nat
  /\ IsFiniteSet(Busy) /\ Cardinality(Busy) \in Nat
  <1>1. IsFiniteSet(Owners)
    BY ThreadsAssumption, FS_Subset DEF Owners
  <1>2. IsFiniteSet(Threads)
    BY ThreadsAssumption, FS_AddElement DEF Threads
  <1>3. IsFiniteSet(Busy)
    BY <1>2, FS_Subset DEF Busy
  <1> QED BY <1>1, <1>3, FS_CardinalityType

\* A producer that moves counts as an owner where it is now, and not where it
\* was.
LEMMA MoveCounts ==
  ASSUME ppc \in [Producers -> Places],
         NEW p \in Producers, NEW to \in Places,
         ppc' = [ppc EXCEPT ![p] = to]
  PROVE  /\ ppc' \in [Producers -> Places]
         /\ Cardinality(Owners)' =
              Cardinality(Owners) + One(to \in Owning) - One(ppc[p] \in Owning)
  <1>1. ppc' \in [Producers -> Places]
    OBVIOUS
  <1>2. CASE to \in Owning /\ ppc[p] \in Owning
    <2>1. Owners' = Owners
      BY <1>2 DEF Owners
    <2> QED BY <1>1, <1>2, <2>1, CountsAreNumbers DEF One
  <1>3. CASE to \in Owning /\ ppc[p] \notin Owning
    <2>1. Owners' = Owners \cup {p} /\ p \notin Owners
      BY <1>3 DEF Owners
    <2>2. Cardinality(Owners)' = Cardinality(Owners) + 1
      BY <2>1, CountsAreNumbers, FS_AddElement
    <2>3. One(to \in Owning) = 1 /\ One(ppc[p] \in Owning) = 0
      BY <1>3 DEF One
    <2> QED BY <1>1, <2>2, <2>3, CountsAreNumbers
  <1>4. CASE to \notin Owning /\ ppc[p] \in Owning
    <2>1. Owners' = Owners \ {p} /\ p \in Owners
      BY <1>4 DEF Owners
    <2>2. Cardinality(Owners)' = Cardinality(Owners) - 1
      BY <2>1, CountsAreNumbers, FS_RemoveElement
    <2>3. One(to \in Owning) = 0 /\ One(ppc[p] \in Owning) = 1
      BY <1>4 DEF One
    <2> QED BY <1>1, <2>2, <2>3, CountsAreNumbers
  <1>5. CASE to \notin Owning /\ ppc[p] \notin Owning
    <2>1. Owners' = Owners
      BY <1>5 DEF Owners
    <2> QED BY <1>1, <1>5, <2>1, CountsAreNumbers DEF One
  <1> QED BY <1>2, <1>3, <1>4, <1>5

\* Nobody moves: the same owners.
LEMMA StayCounts ==
  ASSUME UNCHANGED ppc
  PROVE  Cardinality(Owners)' = Cardinality(Owners)
  <1>1. Owners' = Owners
    BY DEF Owners
  <1> QED BY <1>1

\* No record changes hands: the same threads are busy.
LEMMA IdleCounts ==
  ASSUME UNCHANGED hold
  PROVE  Cardinality(Busy)' = Cardinality(Busy)
  <1>1. Busy' = Busy
    BY DEF Busy
  <1> QED BY <1>1

\* The claim of a record takes it from the ring to the thread.
LEMMA PopCounts ==
  ASSUME Counting, NEW t \in Threads, Pop(t)
  PROVE  /\ hold' \in [Threads -> Nat]
         /\ popped' \in Nat /\ popped' <= pushed
         /\ popped' = popped + 1
         /\ Cardinality(Busy)' = Cardinality(Busy) + 1
  <1>1. /\ hold' \in [Threads -> Nat]
        /\ popped' \in Nat /\ popped' <= pushed /\ popped' = popped + 1
    BY DEF Pop, Counting
  <1>2. Busy' = Busy \cup {t} /\ t \notin Busy
    BY DEF Pop, Busy, Counting
  <1> QED BY <1>1, <1>2, CountsAreNumbers, FS_AddElement

\* The end of the callback takes it from the thread to the pool.
LEMMA ProcessCounts ==
  ASSUME Counting, NEW t \in Threads, NEW f, NEW counts, Process(t, f, counts)
  PROVE  /\ hold' \in [Threads -> Nat]
         /\ free' = free + 1
         /\ Cardinality(Busy)' = Cardinality(Busy) - 1
  <1>1. hold' \in [Threads -> Nat] /\ free' = free + 1
    BY DEF Process, Counting
  <1>2. Busy' = Busy \ {t} /\ t \in Busy
    BY DEF Process, Busy, Counting
  <1> QED BY <1>1, <1>2, CountsAreNumbers, FS_RemoveElement

-----------------------------------------------------------------------------
(* The invariant                                                           *)

\* At the start every record is free.
LEMMA InitEstablishes == Init => IInv
  <1> SUFFICES ASSUME Init PROVE IInv
    OBVIOUS
  <1>1. Counting
    BY CapacityAssumption DEF Init, Counting, PoolRecords, Places
  <1>2. Owners = {} /\ Busy = {}
    BY DEF Init, Owners, Busy, Owning
  <1>3. RecordsConserved
    BY <1>2, FS_EmptySet, CapacityAssumption
       DEF Init, RecordsConserved, PoolRecords
  <1> QED BY <1>1, <1>3 DEF IInv

\* A step of one producer that claims no record from the ring preserves the
\* invariant if the record it takes up or gives away is accounted for.
LEMMA MoveConserves ==
  ASSUME IInv, NEW p \in Producers,
         NEW from \in Places, NEW to \in Places, PGoto(p, from, to),
         UNCHANGED hold,
         free' \in Nat, audit' \in Nat, pushed' \in Nat, UNCHANGED popped,
         pushed <= pushed',
         free' + audit' + pushed' + One(to \in Owning) =
           free + audit + pushed + One(from \in Owning)
  PROVE  IInv'
  <1> USE DEF IInv, Counting
  <1>1. ppc[p] = from /\ ppc' = [ppc EXCEPT ![p] = to]
    BY DEF PGoto
  <1>2. /\ ppc' \in [Producers -> Places]
        /\ Cardinality(Owners)' =
             Cardinality(Owners) + One(to \in Owning) - One(from \in Owning)
    BY <1>1, MoveCounts
  <1>3. Cardinality(Busy)' = Cardinality(Busy)
    BY IdleCounts
  <1>4. One(to \in Owning) \in Nat /\ One(from \in Owning) \in Nat
    BY DEF One
  <1>5. Counting'
    BY <1>2
  <1>6. RecordsConserved'
    BY <1>2, <1>3, <1>4, CountsAreNumbers, CapacityAssumption
       DEF RecordsConserved
  <1> QED BY <1>5, <1>6

\* A producer that goes on with what it owns ...
LEMMA SameOwner ==
  ASSUME IInv, NEW p \in Producers,
         NEW from \in Places, NEW to \in Places, PGoto(p, from, to),
         from \in Owning <=> to \in Owning,
         UNCHANGED <<free, audit, pushed, popped, hold>>
  PROVE  IInv'
  <1>1. /\ free' = free /\ audit' = audit /\ pushed' = pushed
        /\ popped' = popped /\ hold' = hold
    OBVIOUS
  <1>2. free \in Nat /\ audit \in Nat /\ pushed \in Nat
    BY DEF IInv, Counting
  <1>3. One(to \in Owning) = One(from \in Owning) /\ One(to \in Owning) \in Nat
    BY DEF One
  <1>4. /\ free' \in Nat /\ audit' \in Nat /\ pushed' \in Nat
        /\ pushed <= pushed'
    BY <1>1, <1>2
  <1>5. free' + audit' + pushed' + One(to \in Owning) =
          free + audit + pushed + One(from \in Owning)
    BY <1>1, <1>3
  <1> QED BY <1>1, <1>4, <1>5, MoveConserves

\* ... and one that gives it to the pool, the audit pipeline or the ring.
LEMMA GivesUp ==
  ASSUME IInv, NEW p \in Producers,
         NEW from \in Owning, NEW to \in Places \ Owning, PGoto(p, from, to),
         UNCHANGED <<popped, hold>>,
         \/ free' = free + 1 /\ UNCHANGED <<audit, pushed>>
         \/ audit' = audit + 1 /\ UNCHANGED <<free, pushed>>
         \/ pushed' = pushed + 1 /\ UNCHANGED <<free, audit>>
  PROVE  IInv'
  <1>1. free \in Nat /\ audit \in Nat /\ pushed \in Nat
    BY DEF IInv, Counting
  <1>2. One(to \in Owning) = 0 /\ One(from \in Owning) = 1
    BY DEF One
  <1>3. /\ free' \in Nat /\ audit' \in Nat /\ pushed' \in Nat
        /\ pushed <= pushed'
        /\ free' + audit' + pushed' = free + audit + pushed + 1
    BY <1>1
  <1>4. free' + audit' + pushed' + One(to \in Owning) =
          free + audit + pushed + One(from \in Owning)
    BY <1>1, <1>2, <1>3
  <1>5. from \in Places /\ to \in Places /\ UNCHANGED hold /\ UNCHANGED popped
    BY DEF Owning, Places
  <1> QED BY <1>3, <1>4, <1>5, MoveConserves

\* The same for a step in which no producer moves.
LEMMA StayConserves ==
  ASSUME IInv, UNCHANGED <<ppc, hold, pushed, popped>>,
         free' \in Nat, audit' \in Nat, free' + audit' = free + audit
  PROVE  IInv'
  <1>1. ppc' = ppc /\ hold' = hold /\ pushed' = pushed /\ popped' = popped
    OBVIOUS
  <1>2. Cardinality(Owners)' = Cardinality(Owners)
    BY <1>1, StayCounts
  <1>3. Cardinality(Busy)' = Cardinality(Busy)
    BY <1>1, IdleCounts
  <1>4. Counting'
    BY <1>1 DEF IInv, Counting
  <1>5. pushed \in Nat /\ popped \in Nat /\ free \in Nat /\ audit \in Nat
    BY DEF IInv, Counting
  <1>6. RecordsConserved
    BY DEF IInv
  <1>7. RecordsConserved'
    <2>1. free + audit + (Cardinality(Owners) + (pushed - popped)
            + Cardinality(Busy)) = Capacity
      BY <1>5, <1>6, CountsAreNumbers DEF RecordsConserved
    <2>2. free' + audit' + (Cardinality(Owners)' + (pushed' - popped')
            + Cardinality(Busy)') = Capacity
      BY <2>1, <1>1, <1>2, <1>3
    <2>3. /\ Cardinality(Owners)' \in Nat /\ Cardinality(Busy)' \in Nat
          /\ pushed' \in Nat /\ popped' \in Nat
      BY <1>1, <1>2, <1>3, <1>5, CountsAreNumbers
    <2> QED BY <2>2, <2>3 DEF RecordsConserved
  <1> QED BY <1>4, <1>7 DEF IInv

\* A claim preserves it ...
LEMMA PopConserves ==
  ASSUME IInv, NEW t \in Threads, Pop(t), UNCHANGED <<ppc, pushed, free, audit>>
  PROVE  IInv'
  <1> USE DEF IInv
  <1>1. Cardinality(Owners)' = Cardinality(Owners)
    BY StayCounts
  <1>2. /\ hold' \in [Threads -> Nat]
        /\ popped' \in Nat /\ popped' <= pushed
        /\ popped' = popped + 1
        /\ Cardinality(Busy)' = Cardinality(Busy) + 1
    BY PopCounts
  <1>3. Counting'
    BY <1>2 DEF Counting
  <1>4. RecordsConserved'
    BY <1>1, <1>2, CountsAreNumbers, CapacityAssumption
       DEF RecordsConserved, Counting
  <1> QED BY <1>3, <1>4

\* ... and so does the end of a callback.
LEMMA ProcessConserves ==
  ASSUME IInv, NEW t \in Threads, NEW f, NEW counts, Process(t, f, counts),
         UNCHANGED <<ppc, pushed, popped, audit>>
  PROVE  IInv'
  <1> USE DEF IInv
  <1>1. Cardinality(Owners)' = Cardinality(Owners)
    BY StayCounts
  <1>2. /\ hold' \in [Threads -> Nat]
        /\ free' = free + 1
        /\ Cardinality(Busy)' = Cardinality(Busy) - 1
    BY ProcessCounts
  <1>3. Counting'
    BY <1>2 DEF Counting
  <1>4. RecordsConserved'
    BY <1>1, <1>2, CountsAreNumbers, CapacityAssumption
       DEF RecordsConserved, Counting
  <1> QED BY <1>3, <1>4

-----------------------------------------------------------------------------
(* Each action                                                             *)

\* dologger_log up to the push.
LEMMA AdmissionConserves ==
  ASSUME IInv, NEW p \in Producers,
         \/ Log(p) \/ Alloc(p) \/ AllocExhausted(p) \/ EncodingError(p)
         \/ Route(p) \/ AuditAdmits(p) \/ PushAudit(p) \/ AuditRefused(p)
  PROVE  IInv'
  <1> USE DEF Places, Owning
  <1>1. CASE Log(p)
    <2>1. PGoto(p, "idle", "alloc")
          /\ UNCHANGED <<free, audit, pushed, popped, hold>>
      BY <1>1 DEF Log, avars
    <2> QED BY <2>1, SameOwner
  <1>2. CASE Alloc(p)
    <2>1. PGoto(p, "alloc", "fill") /\ free > 0 /\ free' = free - 1
          /\ UNCHANGED <<audit, pushed, popped, hold>>
      BY <1>2 DEF Alloc, Inside, avars
    <2>2. free \in Nat /\ audit \in Nat /\ pushed \in Nat
      BY DEF IInv, Counting
    <2>3. One("fill" \in Owning) = 1 /\ One("alloc" \in Owning) = 0
      BY DEF One
    <2>4. /\ free' \in Nat /\ audit' \in Nat /\ pushed' \in Nat
          /\ pushed <= pushed'
          /\ free' + audit' + pushed' + 1 = free + audit + pushed + 0
      BY <2>1, <2>2
    <2>5. free' + audit' + pushed' + One("fill" \in Owning) =
            free + audit + pushed + One("alloc" \in Owning)
      BY <2>3, <2>4
    <2> QED BY <2>1, <2>4, <2>5, MoveConserves
  <1>3. CASE AllocExhausted(p)
    <2>1. PGoto(p, "alloc", "idle")
          /\ UNCHANGED <<free, audit, pushed, popped, hold>>
      BY <1>3 DEF AllocExhausted, Return, avars
    <2> QED BY <2>1, SameOwner
  <1>4. CASE EncodingError(p)
    <2>1. PGoto(p, "fill", "idle") /\ free' = free + 1
          /\ UNCHANGED <<audit, pushed, popped, hold>>
      BY <1>4 DEF EncodingError, Return, avars
    <2> QED BY <2>1, GivesUp
  <1>5. CASE Route(p)
    <2>1. PGoto(p, "fill", "push") \/ PGoto(p, "fill", "audit")
      BY <1>5 DEF Route
    <2>2. UNCHANGED <<free, audit, pushed, popped, hold>>
      BY <1>5 DEF Route, Inside, avars
    <2> QED BY <2>1, <2>2, SameOwner
  <1>6. CASE AuditAdmits(p)
    <2>1. PGoto(p, "audit", "admitted")
          /\ UNCHANGED <<free, audit, pushed, popped, hold>>
      BY <1>6 DEF AuditAdmits, Inside, avars
    <2> QED BY <2>1, SameOwner
  <1>7. CASE PushAudit(p)
    <2>1. PGoto(p, "admitted", "accepted") /\ audit' = audit + 1
          /\ UNCHANGED <<free, pushed, popped, hold>>
      BY <1>7 DEF PushAudit
    <2> QED BY <2>1, GivesUp
  <1>8. CASE AuditRefused(p)
    <2>1. PGoto(p, "audit", "idle") \/ PGoto(p, "admitted", "idle")
      BY <1>8 DEF AuditRefused, Return
    <2>2. free' = free + 1 /\ UNCHANGED <<audit, pushed, popped, hold>>
      BY <1>8 DEF AuditRefused, Return, avars
    <2> QED BY <2>1, <2>2, GivesUp
  <1> QED BY <1>1, <1>2, <1>3, <1>4, <1>5, <1>6, <1>7, <1>8

\* The push and what follows it.
LEMMA SubmissionConserves ==
  ASSUME IInv, NEW p \in Producers,
         \/ LoadConsumer(p) \/ Push(p) \/ PushFull(p) \/ CountAccepted(p)
         \/ Drop(p) \/ HelpDeclined(p) \/ HelpWanted(p) \/ HelpLock(p)
         \/ HelpDone(p)
  PROVE  IInv'
  <1> USE DEF Places, Owning
  <1>1. CASE LoadConsumer(p)
    <2>1. \E from \in {"push", "push_again", "help"} :
            \E to \in {"push_seen", "again_seen", "help_seen"} :
              PGoto(p, from, to)
      BY <1>1 DEF LoadConsumer
    <2>2. UNCHANGED <<free, audit, pushed, popped, hold>>
      BY <1>1 DEF LoadConsumer, Inside, avars
    <2> QED BY <2>1, <2>2, SameOwner
  <1>2. CASE Push(p)
    <2>1. \/ PGoto(p, "push_seen", "accepted")
          \/ PGoto(p, "again_seen", "accepted")
      BY <1>2 DEF Push
    <2>2. pushed' = pushed + 1 /\ UNCHANGED <<free, audit, popped, hold>>
      BY <1>2 DEF Push, avars
    <2> QED BY <2>1, <2>2, GivesUp
  <1>3. CASE PushFull(p)
    <2>1. \E from \in {"push_seen", "again_seen"} : \E to \in {"help", "drop"} :
            PGoto(p, from, to)
      BY <1>3 DEF PushFull
    <2>2. UNCHANGED <<free, audit, pushed, popped, hold>>
      BY <1>3 DEF PushFull, Inside, avars
    <2> QED BY <2>1, <2>2, SameOwner
  <1>4. CASE CountAccepted(p)
    <2>1. PGoto(p, "accepted", "idle")
          /\ UNCHANGED <<free, audit, pushed, popped, hold>>
      BY <1>4 DEF CountAccepted, Return, avars
    <2> QED BY <2>1, SameOwner
  <1>5. CASE Drop(p)
    <2>1. PGoto(p, "drop", "idle") /\ free' = free + 1
          /\ UNCHANGED <<audit, pushed, popped, hold>>
      BY <1>5 DEF Drop, Return, avars
    <2> QED BY <2>1, GivesUp
  <1>6. CASE HelpDeclined(p)
    <2>1. PGoto(p, "help_seen", "drop")
          /\ UNCHANGED <<free, audit, pushed, popped, hold>>
      BY <1>6 DEF HelpDeclined, Inside, avars
    <2> QED BY <2>1, SameOwner
  <1>7. CASE HelpWanted(p)
    <2>1. PGoto(p, "help_seen", "lock")
          /\ UNCHANGED <<free, audit, pushed, popped, hold>>
      BY <1>7 DEF HelpWanted, Inside, avars
    <2> QED BY <2>1, SameOwner
  <1>8. CASE HelpLock(p)
    <2>1. PGoto(p, "lock", "helping")
          /\ UNCHANGED <<free, audit, pushed, popped, hold>>
      BY <1>8 DEF HelpLock, avars
    <2> QED BY <2>1, SameOwner
  <1>9. CASE HelpDone(p)
    <2>1. PGoto(p, "helping", "push_again") \/ PGoto(p, "helping", "drop")
      BY <1>9 DEF HelpDone
    <2>2. UNCHANGED <<free, audit, pushed, popped, hold>>
      BY <1>9 DEF HelpDone, avars
    <2> QED BY <2>1, <2>2, SameOwner
  <1> QED BY <1>1, <1>2, <1>3, <1>4, <1>5, <1>6, <1>7, <1>8, <1>9

\* A helper drains.
LEMMA HelpingConserves ==
  ASSUME IInv, NEW p \in Producers, HelpPop(p) \/ HelpProcess(p)
  PROVE  IInv'
  <1>1. p \in Threads
    BY DEF Threads
  <1>2. CASE HelpPop(p)
    <2>1. Pop(p) /\ UNCHANGED <<ppc, pushed, free, audit>>
      BY <1>2 DEF HelpPop, pvars, avars
    <2> QED BY <1>1, <2>1, PopConserves
  <1>3. CASE HelpProcess(p)
    <2>1. \/ Process(p, "filtered", {"dropped"})
          \/ Process(p, "helped", {"processed"})
      BY <1>3 DEF HelpProcess
    <2>2. UNCHANGED <<ppc, pushed, popped, audit>>
      BY <1>3 DEF HelpProcess, pvars, avars
    <2> QED BY <1>1, <2>1, <2>2, ProcessConserves
  <1> QED BY <1>2, <1>3

\* The consumer drains, and does everything else.
LEMMA ConsumeConserves ==
  ASSUME IInv, Consume
  PROVE  IInv'
  <1>1. Consumer \in Threads
    BY DEF Threads
  <1>2. CASE ConsumerPop
    <2>1. Pop(Consumer) /\ UNCHANGED <<ppc, pushed, free, audit>>
      BY <1>2 DEF ConsumerPop, pvars, avars
    <2> QED BY <1>1, <2>1, PopConserves
  <1>3. CASE StageDrops
    <2>1. \/ Process(Consumer, "filtered", {"dropped"})
          \/ Process(Consumer, "filtered", {"dropped", "errors"})
      BY <1>3 DEF StageDrops
    <2>2. UNCHANGED <<ppc, pushed, popped, audit>>
      BY <1>3 DEF StageDrops, pvars, avars
    <2> QED BY <1>1, <2>1, <2>2, ProcessConserves
  <1>4. CASE StageAccepts
    <2>1. Process(Consumer, "waiting", {"processed"})
          /\ UNCHANGED <<ppc, pushed, popped, audit>>
      BY <1>4 DEF StageAccepts, pvars, avars
    <2> QED BY <1>1, <2>1, ProcessConserves
  <1>5. CASE CheckShutdown \/ DrainDone \/ Write \/ BatchDone
    <2>1. UNCHANGED <<ppc, hold, pushed, popped>> /\ UNCHANGED <<free, audit>>
      BY <1>5 DEF CheckShutdown, DrainDone, Write, BatchDone, pvars, avars
    <2> QED BY <2>1, StayConserves DEF IInv, Counting
  <1> QED BY <1>2, <1>3, <1>4, <1>5 DEF Consume

\* No step of the log path loses a record.
LEMMA StepConserves == IInv /\ [Next]_vars => IInv'
  <1> SUFFICES ASSUME IInv, [Next]_vars PROVE IInv'
    OBVIOUS
  <1>1. ASSUME NEW p \in Producers, Log(p) \/ LogStep(p) PROVE IInv'
    BY <1>1, AdmissionConserves, SubmissionConserves, HelpingConserves
       DEF LogStep
  <1>2. CASE Consume
    BY <1>2, ConsumeConserves
  <1>3. CASE AuditTake \/ AuditFails \/ Shutdown
    <2>1. UNCHANGED <<ppc, hold, pushed, popped>>
      BY <1>3 DEF AuditTake, AuditFails, Shutdown, pvars
    <2>2. /\ free' \in Nat /\ audit' \in Nat
          /\ free' + audit' = free + audit
      BY <1>3 DEF AuditTake, AuditFails, Shutdown, avars, IInv, Counting
    <2> QED BY <2>1, <2>2, StayConserves
  <1>4. CASE UNCHANGED vars
    <2>1. UNCHANGED <<ppc, hold, pushed, popped>> /\ UNCHANGED <<free, audit>>
      BY <1>4 DEF vars, pvars, avars
    <2> QED BY <2>1, StayConserves DEF IInv, Counting
  <1> QED BY <1>1, <1>2, <1>3, <1>4 DEF Next

\* In every reachable state each record of the pool is free, with its caller,
\* in a queue or with the thread that processes it (RecordsConserved): no
\* path through dologger_log, try_help or consumer_loop loses one.
THEOREM RecordsAreConserved == Spec => []RecordsConserved
  <1>1. IInv => RecordsConserved
    BY DEF IInv
  <1> QED BY <1>1, InitEstablishes, StepConserves, PTL DEF Spec

\* The pool of Engine::init has as many records as the ring has slots: while
\* a producer holds a record the ring has room for it (FullIsSpurious).
THEOREM FullRingIsSpurious == Spec => []FullIsSpurious
  <1>1. IInv => FullIsSpurious
    <2> SUFFICES ASSUME IInv, Owners # {} PROVE pushed - popped < Capacity
      BY DEF FullIsSpurious
    <2>1. Cardinality(Owners) # 0
      BY CountsAreNumbers, FS_EmptySet
    <2> QED BY <2>1, CountsAreNumbers, CapacityAssumption
            DEF IInv, Counting, RecordsConserved
  <1> QED BY <1>1, InitEstablishes, StepConserves, PTL DEF Spec

-----------------------------------------------------------------------------
(* Each record meets one fate and the sinks see them in order.  Beyond the *)
(* counting, the mapping needs to know who has each record that was popped *)
(* and has no fate yet: the thread whose callback runs on it, or pending.  *)

Fates  == Settled \cup {"waiting"}
Latest == IF out = <<>> THEN 0 ELSE Last(out)

FateTypes ==
  /\ pushed \in Nat /\ popped \in Nat /\ popped <= pushed
  /\ fate \in Seq(Fates) /\ Len(fate) = pushed
  /\ hold \in [Threads -> 0 .. popped]
  /\ pending \in Seq(Nat)
  /\ out \in Seq(Nat)

\* A record is in one pair of hands, and nobody settles it before that.
InOneHand ==
  /\ \A i \in popped + 1 .. pushed : fate[i] = "waiting"
  /\ \A t \in Threads : hold[t] # 0 => fate[hold[t]] = "waiting"
  /\ \A t, u \in Threads : hold[t] # 0 /\ hold[t] = hold[u] => t = u
  /\ \A j \in 1 .. Len(pending) :
       /\ pending[j] \in 1 .. popped
       /\ fate[pending[j]] = "waiting"
       /\ \A t \in Threads : hold[t] # pending[j]

\* What was written, what is pending and what the consumer looks at follow
\* each other in the order of acceptance.
InOrder ==
  /\ Latest <= popped
  /\ hold[Consumer] # 0 => Latest < hold[Consumer]
  /\ \A j \in 1 .. Len(pending) :
       /\ Latest < pending[j]
       /\ hold[Consumer] # 0 => pending[j] < hold[Consumer]
       /\ \A k \in 1 .. Len(pending) : j < k => pending[j] < pending[k]

FateInv == FateTypes /\ InOneHand /\ InOrder

ConsumerIsAThread ==
  /\ Consumer \in Threads
  /\ \A p \in Producers : p \in Threads /\ p # Consumer

\* The consumer is none of the producers.
LEMMA TheConsumer == ConsumerIsAThread
  BY ThreadsAssumption DEF ConsumerIsAThread, Threads

LEMMA LatestIsANumber == FateTypes => Latest \in Nat
  BY DEF FateTypes, Latest, Last

\* At the start nothing was accepted.
LEMMA InitFate == Init => FateInv
  BY TheConsumer
     DEF Init, FateInv, FateTypes, InOneHand, InOrder, Latest,
         ConsumerIsAThread

\* A step that leaves the records and the cursors alone.
LEMMA QuietFate ==
  ASSUME FateInv, UNCHANGED <<pushed, popped, fate, hold, pending, out>>
  PROVE  FateInv'
  BY DEF FateInv, FateTypes, InOneHand, InOrder, Latest

\* A record is accepted: it waits in the ring.
LEMMA PushFate ==
  ASSUME FateInv, pushed' = pushed + 1, fate' = Append(fate, "waiting"),
         UNCHANGED <<popped, hold, pending, out>>
  PROVE  FateInv'
  <1>1. FateTypes'
    BY DEF FateInv, FateTypes, Fates
  <1>2. /\ \A i \in 1 .. pushed : fate'[i] = fate[i]
        /\ fate'[pushed + 1] = "waiting"
    BY DEF FateInv, FateTypes
  <1>3. InOneHand'
    BY <1>1, <1>2, TheConsumer
       DEF FateInv, FateTypes, InOneHand, ConsumerIsAThread
  <1>4. InOrder'
    BY DEF FateInv, FateTypes, InOrder, Latest
  <1> QED BY <1>1, <1>3, <1>4 DEF FateInv

\* A thread claims the oldest record of the ring.
LEMMA PopFate ==
  ASSUME FateInv, NEW t \in Threads, Pop(t),
         UNCHANGED <<pushed, fate, pending, out>>
  PROVE  FateInv'
  <1>1. FateTypes'
    BY DEF FateInv, FateTypes, Pop
  <1>2. Latest' = Latest
    BY DEF Latest
  <1>3. InOneHand'
    BY <1>1 DEF FateInv, FateTypes, InOneHand, Pop
  <1>4. InOrder'
    BY <1>1, <1>2, TheConsumer, LatestIsANumber
       DEF FateInv, FateTypes, InOrder, InOneHand, Pop, ConsumerIsAThread
  <1> QED BY <1>1, <1>3, <1>4 DEF FateInv

\* The callback settles the record it runs on.
LEMMA SettleFate ==
  ASSUME FateInv, NEW t \in Threads, NEW f \in Settled, NEW counts,
         Process(t, f, counts),
         UNCHANGED <<pushed, popped, pending, out>>
  PROVE  /\ FateInv'
         /\ hold[t] \in 1 .. Len(fate) /\ fate[hold[t]] = "waiting"
         /\ fate' = [fate EXCEPT ![hold[t]] = f]
  <1>0. hold[t] \in 1 .. pushed /\ fate[hold[t]] = "waiting"
        /\ fate' = [fate EXCEPT ![hold[t]] = f]
        /\ hold' = [hold EXCEPT ![t] = 0]
    BY DEF FateInv, FateTypes, InOneHand, Process
  <1>1. FateTypes'
    BY <1>0 DEF FateInv, FateTypes, Fates
  <1>2. Latest' = Latest
    BY DEF Latest
  <1>3. InOneHand'
    BY <1>0, <1>1 DEF FateInv, FateTypes, InOneHand
  <1>4. InOrder'
    BY <1>0, <1>1, <1>2, TheConsumer
       DEF FateInv, FateTypes, InOrder, ConsumerIsAThread
  <1> QED BY <1>0, <1>1, <1>3, <1>4 DEF FateInv, FateTypes

\* The consumer keeps the record it has processed, after those it kept before.
LEMMA AcceptFate ==
  ASSUME FateInv, StageAccepts
  PROVE  FateInv' /\ fate' = fate /\ pending' = Append(pending, hold[Consumer])
         /\ hold[Consumer] # 0
  <1> DEFINE h == hold[Consumer]
  <1>0. /\ h \in 1 .. popped /\ fate[h] = "waiting"
        /\ fate' = [fate EXCEPT ![h] = "waiting"]
        /\ hold' = [hold EXCEPT ![Consumer] = 0]
        /\ pending' = Append(pending, h)
        /\ UNCHANGED <<pushed, popped, out>>
    BY TheConsumer
       DEF FateInv, FateTypes, InOneHand, Process, StageAccepts,
           ConsumerIsAThread
  <1>1. fate' = fate
    BY <1>0 DEF FateInv, FateTypes
  <1>2. FateTypes'
    <2>1. hold' \in [Threads -> 0 .. popped]
      <3>1. hold \in [Threads -> 0 .. popped] /\ popped \in Nat
        BY DEF FateInv, FateTypes
      <3>2. hold' = [hold EXCEPT ![Consumer] = 0]
        BY <1>0
      <3> QED BY <3>1, <3>2, TheConsumer DEF ConsumerIsAThread
    <2>2. pending' \in Seq(Nat)
      BY <1>0 DEF FateInv, FateTypes
    <2> QED BY <1>0, <1>1, <2>1, <2>2 DEF FateInv, FateTypes
  <1>3. Latest' = Latest
    BY <1>0 DEF Latest
  <1>4. /\ Len(pending') = Len(pending) + 1 /\ Len(pending) \in Nat
        /\ pending'[Len(pending) + 1] = h
        /\ \A j \in 1 .. Len(pending) : pending'[j] = pending[j]
    BY <1>0 DEF FateInv, FateTypes
  <1>5. /\ hold'[Consumer] = 0
        /\ \A u \in Threads : hold'[u] # 0 => u # Consumer /\ hold'[u] = hold[u]
    BY <1>0, TheConsumer DEF ConsumerIsAThread, FateInv, FateTypes
  <1> HIDE DEF h
  <1>6. InOneHand'
    <2>1. \A u \in Threads : hold'[u] # h
      BY <1>0, <1>5, TheConsumer DEF h, FateInv, InOneHand, ConsumerIsAThread
    <2>2. \A j \in 1 .. Len(pending') :
       /\ pending'[j] \in 1 .. popped
       /\ fate[pending'[j]] = "waiting"
       /\ \A u \in Threads : hold'[u] # pending'[j]
      <3> TAKE j \in 1 .. Len(pending')
      <3>1. CASE j \in 1 .. Len(pending)
        BY <3>1, <1>4, <1>5 DEF FateInv, InOneHand, FateTypes
      <3>2. CASE j = Len(pending) + 1
        BY <3>2, <2>1, <1>4, <1>0
      <3> QED BY <3>1, <3>2, <1>4
    <2> QED BY <1>0, <1>1, <1>5, <2>2 DEF FateInv, InOneHand
  <1>7. InOrder'
    <2>1. /\ Latest <= popped /\ Latest < h
          /\ \A j \in 1 .. Len(pending) : Latest < pending[j] /\ pending[j] < h
          /\ \A j, k \in 1 .. Len(pending) : j < k => pending[j] < pending[k]
      BY <1>0 DEF h, FateInv, InOrder
    <2> QED BY <1>0, <1>3, <1>4, <1>5, <2>1 DEF InOrder
  <1> QED BY <1>0, <1>1, <1>2, <1>6, <1>7 DEF FateInv, h

\* The consumer writes the oldest of the records it kept.
LEMMA WriteFate ==
  ASSUME FateInv, Write
  PROVE  /\ FateInv'
         /\ Head(pending) \in 1 .. Len(fate) /\ fate[Head(pending)] = "waiting"
         /\ Latest < Head(pending) /\ Latest' = Head(pending)
         /\ \E f \in {"written", "lost"} : fate' = [fate EXCEPT ![Head(pending)] = f]
  <1> DEFINE h == Head(pending)
  <1>0. /\ pending # <<>> /\ pending' = Tail(pending) /\ out' = Append(out, h)
        /\ UNCHANGED <<pushed, popped, hold>>
        /\ \E f \in {"written", "lost"} : fate' = [fate EXCEPT ![h] = f]
    BY DEF Write
  <1>1. Len(pending) \in Nat /\ Len(pending) > 0 /\ h = pending[1]
    BY <1>0 DEF FateInv, FateTypes
  <1>2. /\ h \in 1 .. popped /\ fate[h] = "waiting" /\ Latest < h
        /\ \A u \in Threads : hold[u] # h
        /\ \A k \in 2 .. Len(pending) : h < pending[k]
        /\ hold[Consumer] # 0 => h < hold[Consumer]
    BY <1>1 DEF FateInv, InOneHand, InOrder
  <1>3. Latest' = h
    <2> HIDE DEF h
    <2>1. out \in Seq(Nat) /\ h \in Nat
      BY <1>2 DEF FateInv, FateTypes
    <2>2. out' # <<>> /\ out'[Len(out')] = h
      BY <1>0, <2>1
    <2> QED BY <2>2 DEF Latest, Last
  <1>4. /\ Len(pending') = Len(pending) - 1
        /\ \A j \in 1 .. Len(pending') :
             j + 1 \in 2 .. Len(pending) /\ pending'[j] = pending[j + 1]
    BY <1>0, <1>1 DEF FateInv, FateTypes
  <1>5. FateTypes'
    BY <1>0, <1>1, <1>2 DEF FateInv, FateTypes, Fates, Settled
  <1> HIDE DEF h
  <1>6. \A i \in 1 .. pushed : i # h => fate'[i] = fate[i]
    BY <1>0 DEF FateInv, FateTypes
  <1>7. InOneHand'
    <2>1. \A j \in 1 .. Len(pending') :
       /\ pending'[j] \in 1 .. popped
       /\ fate'[pending'[j]] = "waiting"
       /\ \A u \in Threads : hold'[u] # pending'[j]
      <3> TAKE j \in 1 .. Len(pending')
      <3>1. PICK k \in 2 .. Len(pending) : pending'[j] = pending[k]
        BY <1>4
      <3>2. /\ pending[k] \in 1 .. popped /\ fate[pending[k]] = "waiting"
            /\ (\A u \in Threads : hold[u] # pending[k])
            /\ h < pending[k]
        BY <1>1, <1>2, <3>1 DEF FateInv, InOneHand
      <3>3. /\ pending[k] \in 1 .. pushed /\ pending[k] # h
            /\ \A u \in Threads : hold'[u] = hold[u]
        BY <1>0, <1>2, <3>2 DEF FateInv, FateTypes
      <3>4. fate'[pending[k]] = "waiting"
        BY <1>6, <3>2, <3>3
      <3> QED BY <3>1, <3>2, <3>3, <3>4
    <2>2. ASSUME NEW u \in Threads, hold'[u] # 0 PROVE fate'[hold'[u]] = "waiting"
      <3>1. /\ hold[u] = hold'[u] /\ hold[u] \in 1 .. pushed
            /\ fate[hold[u]] = "waiting" /\ hold[u] # h
        BY <1>0, <1>2, <2>2 DEF FateInv, FateTypes, InOneHand
      <3> QED BY <1>6, <3>1
    <2>3. \A i \in popped + 1 .. pushed : fate'[i] = "waiting"
      BY <1>2, <1>6 DEF FateInv, FateTypes, InOneHand
    <2> QED BY <1>0, <2>1, <2>2, <2>3 DEF FateInv, InOneHand
  <1>8. InOrder'
    <2>1. \A j, k \in 1 .. Len(pending') : j < k => pending'[j] < pending'[k]
      BY <1>1, <1>4 DEF FateInv, InOrder
    <2>2. \A j \in 1 .. Len(pending') :
            h < pending'[j] /\ (hold[Consumer] # 0 => pending'[j] < hold[Consumer])
      BY <1>1, <1>2, <1>4 DEF FateInv, InOrder
    <2> QED BY <1>0, <1>2, <1>3, <2>1, <2>2 DEF InOrder
  <1>9. /\ Len(fate) = pushed /\ pushed \in Nat /\ popped \in Nat
        /\ popped <= pushed
    BY DEF FateInv, FateTypes
  <1>10. FateInv' /\ h \in 1 .. Len(fate)
    BY <1>2, <1>5, <1>7, <1>8, <1>9 DEF FateInv
  <1> QED BY <1>0, <1>2, <1>3, <1>10 DEF h

\* A step that leaves the records alone is no step of the delivery.
LEMMA QuietDelivers ==
  ASSUME FateInv, UNCHANGED <<pushed, popped, fate, hold, pending, out>>
  PROVE  FateInv' /\ [Delivery!Next]_(Delivery!vars)
  BY QuietFate DEF Delivery!vars

\* A claim is none either; the end of a callback settles the record.
LEMMA DrainDelivers ==
  ASSUME FateInv, NEW t \in Threads, UNCHANGED <<pushed, pending, out>>,
         \/ Pop(t) /\ UNCHANGED fate
         \/ /\ UNCHANGED popped
            /\ \E f \in {"filtered", "helped"} : \E counts : Process(t, f, counts)
  PROVE  FateInv' /\ [Delivery!Next]_(Delivery!vars)
  <1>1. CASE Pop(t) /\ UNCHANGED fate
    BY <1>1, PopFate DEF Delivery!vars
  <1>2. ASSUME NEW f \in {"filtered", "helped"}, NEW counts, Process(t, f, counts),
               UNCHANGED popped
        PROVE  FateInv' /\ [Delivery!Next]_(Delivery!vars)
    <2>1. /\ FateInv'
          /\ hold[t] \in 1 .. Len(fate) /\ fate[hold[t]] = "waiting"
          /\ fate' = [fate EXCEPT ![hold[t]] = f]
      BY <1>2, SettleFate DEF Settled
    <2>2. hold[t] \in DOMAIN fate
      BY <2>1 DEF FateInv, FateTypes
    <2>3. Delivery!Settle(hold[t])
      BY <1>2, <2>1 DEF Delivery!Settle
    <2> QED BY <2>1, <2>2, <2>3 DEF Delivery!Next
  <1> QED BY <1>1, <1>2

\* dologger_log and try_help.
LEMMA ProducersDeliver ==
  ASSUME FateInv, NEW p \in Producers, Log(p) \/ LogStep(p)
  PROVE  FateInv' /\ [Delivery!Next]_(Delivery!vars)
  <1>1. p \in Threads
    BY DEF Threads
  <1>2. CASE \/ Log(p) \/ Alloc(p) \/ AllocExhausted(p) \/ EncodingError(p)
             \/ Route(p) \/ AuditAdmits(p) \/ PushAudit(p) \/ AuditRefused(p)
             \/ LoadConsumer(p) \/ PushFull(p) \/ CountAccepted(p) \/ Drop(p)
             \/ HelpDeclined(p) \/ HelpWanted(p) \/ HelpLock(p) \/ HelpDone(p)
    <2>1. UNCHANGED <<pushed, popped, fate, hold, pending, out>>
      BY <1>2
         DEF Log, Alloc, AllocExhausted, EncodingError, Route, AuditAdmits,
             PushAudit, AuditRefused, LoadConsumer, PushFull, CountAccepted,
             Drop, HelpDeclined, HelpWanted, HelpLock, HelpDone, Return,
             Inside, cvars
    <2> QED BY <2>1, QuietDelivers
  <1>3. CASE Push(p)
    <2>1. /\ pushed' = pushed + 1 /\ fate' = Append(fate, "waiting")
          /\ UNCHANGED <<popped, hold, pending, out>>
      BY <1>3 DEF Push, cvars
    <2>2. FateInv'
      BY <2>1, PushFate
    <2>3. Delivery!Accept
      BY <2>1 DEF Delivery!Accept
    <2> QED BY <2>2, <2>3 DEF Delivery!Next
  <1>4. CASE HelpPop(p) \/ HelpProcess(p)
    BY <1>1, <1>4, DrainDelivers DEF HelpPop, HelpProcess, cvars
  <1> QED BY <1>2, <1>3, <1>4 DEF LogStep

\* consumer_loop.
LEMMA ConsumerDelivers ==
  ASSUME FateInv, Consume
  PROVE  FateInv' /\ [Delivery!Next]_(Delivery!vars)
  <1>1. Consumer \in Threads
    BY DEF Threads
  <1>2. CASE CheckShutdown \/ DrainDone \/ BatchDone
    <2>1. UNCHANGED <<pushed, popped, fate, hold, pending, out>>
      BY <1>2 DEF CheckShutdown, DrainDone, BatchDone
    <2> QED BY <2>1, QuietDelivers
  <1>3. CASE ConsumerPop
    BY <1>1, <1>3, DrainDelivers DEF ConsumerPop, cvars
  <1>4. CASE StageDrops
    <2>1. \E counts : Process(Consumer, "filtered", counts)
      BY <1>4 DEF StageDrops
    <2> QED BY <1>1, <1>4, <2>1, DrainDelivers DEF StageDrops, cvars
  <1>5. CASE StageAccepts
    BY <1>5, AcceptFate DEF StageAccepts, Delivery!vars
  <1>6. CASE Write
    <2>1. /\ FateInv'
          /\ Head(pending) \in 1 .. Len(fate) /\ fate[Head(pending)] = "waiting"
          /\ Latest < Head(pending) /\ Latest' = Head(pending)
          /\ \E f \in {"written", "lost"} : fate' = [fate EXCEPT ![Head(pending)] = f]
      BY <1>6, WriteFate
    <2>2. Delivery!Write(Head(pending))
      BY <2>1 DEF Delivery!Write, Latest
    <2>3. Head(pending) \in DOMAIN fate
      BY <2>1 DEF FateInv, FateTypes
    <2> QED BY <2>1, <2>2, <2>3 DEF Delivery!Next
  <1> QED BY <1>2, <1>3, <1>4, <1>5, <1>6 DEF Consume

\* Every step is one of the delivery, or none.
LEMMA StepsDeliver ==
  FateInv /\ [Next]_vars => FateInv' /\ [Delivery!Next]_(Delivery!vars)
  <1> SUFFICES ASSUME FateInv, [Next]_vars
               PROVE  FateInv' /\ [Delivery!Next]_(Delivery!vars)
    OBVIOUS
  <1>1. CASE Consume
    BY <1>1, ConsumerDelivers
  <1>2. CASE AuditTake \/ AuditFails \/ Shutdown \/ UNCHANGED vars
    <2>1. UNCHANGED <<pushed, popped, fate, hold, pending, out>>
      BY <1>2 DEF AuditTake, AuditFails, Shutdown, vars, cvars
    <2> QED BY <2>1, QuietDelivers
  <1> QED BY <1>1, <1>2, ProducersDeliver DEF Next

(* For any number of producers, any sizes of the ring and the audit queue: *)
(* each record that the ring accepts meets one fate, once, and those that  *)
(* the consumer hands to the configured sinks come in the order of         *)
(* acceptance, whatever helpers process in between.                        *)
THEOREM RecordsAreDelivered == Spec => ImplementsLogDelivery
  <1>1. Init => Delivery!Init
    BY DEF Init, Delivery!Init
  <1> QED
    BY <1>1, InitFate, StepsDeliver, PTL
       DEF Spec, ImplementsLogDelivery, Delivery!Spec

-----------------------------------------------------------------------------
(* The counters add up.  While the engine runs they are behind by what the *)
(* open batches hold and by the calls under way; a record that was popped  *)
(* is settled, pending, or in the hands of a thread.                       *)

Tallies  == {"processed", "dropped", "errors"}
Counters == Tallies \cup {"accepted"}

InCall      == {p \in Producers : ppc[p] # "idle"}
HelperBatch == IF lock = Nobody THEN NoBatch ELSE batch[lock]
Total(c)    == stats[c] + batch[Consumer][c] + HelperBatch[c]

CountTypes ==
  /\ calls \in [Producers -> Nat]
  /\ stats \in [Counters -> Nat]
  /\ returned \in [Codes -> Nat]
  /\ batch \in [Threads -> [Tallies -> Nat]]

\* Only the helper with the mutex and the consumer have a batch.
LockInv ==
  /\ lock # Nobody => lock \in Producers /\ ppc[lock] = "helping"
  /\ \A p \in Producers : ppc[p] = "helping" => lock = p
  /\ \A t \in Threads \ {Consumer, lock} : batch[t] = NoBatch

\* The consumer stops when nobody can push any more and the ring is empty.
StopInv ==
  /\ shutdown => \A p \in Producers : ppc[p] = "idle"
  /\ final => shutdown
  /\ cpc = "stopped" => final /\ pending = <<>> /\ batch[Consumer] = NoBatch
  /\ final /\ cpc \in {"write", "stopped"} => popped = pushed
  /\ hold[Consumer] # 0 => cpc = "drain"
  /\ \A p \in Producers : hold[p] # 0 => ppc[p] = "helping"

\* A record that was popped has its fate, or somebody still has it.
NoneForgotten ==
  \A i \in 1 .. popped :
    \/ fate[i] # "waiting"
    \/ \E t \in Threads : hold[t] = i
    \/ \E j \in 1 .. Len(pending) : pending[j] = i

CallsCounted ==
  /\ IsFiniteSet(Begun)
  /\ Cardinality(Begun) =
       returned.ok + returned.out_of_memory + returned.encoding
         + returned.audit + returned.buffer_full + Cardinality(InCall)
  /\ stats.accepted = returned.ok

FatesCounted ==
  /\ Total("processed") = Number({"written", "lost", "helped"}) + Len(pending)
  /\ Total("dropped") = returned.buffer_full + Number({"filtered"})
  /\ stats.errors >= returned.out_of_memory + returned.audit + Number({"lost"})

CountInv ==
  /\ IInv /\ FateInv /\ CountTypes /\ LockInv /\ StopInv
  /\ NoneForgotten /\ CallsCounted /\ FatesCounted

-----------------------------------------------------------------------------
\* A record accepted changes no number of settled records.
LEMMA NumberAppended ==
  ASSUME FateInv, fate' = Append(fate, "waiting"), NEW S \in SUBSET Settled
  PROVE  Number(S)' = Number(S)
  <1>1. "waiting" \notin S
    BY DEF Settled
  <1>2. {i \in DOMAIN fate : fate[i] \in S}' = {i \in DOMAIN fate : fate[i] \in S}
    <2>1. /\ DOMAIN fate = 1 .. Len(fate) /\ DOMAIN fate' = 1 .. Len(fate) + 1
          /\ Len(fate) \in Nat
          /\ \A i \in 1 .. Len(fate) : fate'[i] = fate[i]
          /\ fate'[Len(fate) + 1] = "waiting"
      BY DEF FateInv, FateTypes
    <2> QED BY <1>1, <2>1
  <1> QED BY <1>2 DEF Number

\* Records are finitely many.
LEMMA NumberIsANumber ==
  ASSUME FateInv, NEW S
  PROVE  /\ IsFiniteSet({i \in DOMAIN fate : fate[i] \in S})
         /\ Number(S) \in Nat
  <1>1. DOMAIN fate = 1 .. Len(fate) /\ Len(fate) \in Nat
    BY DEF FateInv, FateTypes
  <1>2. IsFiniteSet(1 .. Len(fate))
    BY <1>1, FS_Interval
  <1>3. IsFiniteSet({i \in DOMAIN fate : fate[i] \in S})
    BY <1>1, <1>2, FS_Subset
  <1> QED BY <1>3, FS_CardinalityType DEF Number

\* A record settled counts under its fate.
LEMMA NumberSettled ==
  ASSUME FateInv, NEW i \in 1 .. Len(fate), fate[i] = "waiting",
         NEW f \in Settled, fate' = [fate EXCEPT ![i] = f],
         NEW S \in SUBSET Settled
  PROVE  Number(S)' = Number(S) + One(f \in S)
  <1> DEFINE N == {j \in DOMAIN fate : fate[j] \in S}
             M == {j \in DOMAIN fate' : fate'[j] \in S}
  <1>1. "waiting" \notin S /\ i \in DOMAIN fate /\ DOMAIN fate' = DOMAIN fate
    BY DEF Settled, FateInv, FateTypes
  <1>2. IsFiniteSet(N) /\ Number(S) = Cardinality(N) /\ Number(S) \in Nat
    BY NumberIsANumber DEF Number
  <1>3. Number(S)' = Cardinality(M)
    BY DEF Number
  <1>4. CASE f \in S
    <2>1. M = N \cup {i} /\ i \notin N
      BY <1>1, <1>4
    <2>2. One(f \in S) = 1
      BY <1>4 DEF One
    <2> HIDE DEF N, M
    <2>3. Cardinality(M) = Cardinality(N) + 1
      BY <1>2, <2>1, FS_AddElement
    <2> QED BY <1>2, <1>3, <2>2, <2>3
  <1>5. CASE f \notin S
    <2>1. M = N
      BY <1>1, <1>5
    <2>2. One(f \in S) = 0
      BY <1>5 DEF One
    <2> HIDE DEF N, M
    <2> QED BY <1>2, <1>3, <2>1, <2>2
  <1> QED BY <1>4, <1>5

-----------------------------------------------------------------------------
\* A producer moves, and no other.
Moves(p, from, to) ==
  /\ ppc[p] = from /\ ppc'[p] = to
  /\ \A q \in Producers \ {p} : ppc'[q] = ppc[q]

LEMMA GotoMoves ==
  ASSUME CountInv, NEW p \in Producers
  PROVE  \A from, to : PGoto(p, from, to) => Moves(p, from, to)
  BY DEF CountInv, IInv, Counting, PGoto, Moves

\* The parts of the invariant that are not about numbers.
LEMMA TypesStep ==
  ASSUME CountInv, [Next]_vars
  PROVE  CountTypes'
  <1> USE DEF CountInv, CountTypes
  <1>1. ASSUME NEW t \in Threads, NEW f, NEW counts, Process(t, f, counts)
        PROVE  batch' \in [Threads -> [Tallies -> Nat]]
    <2>1. [c \in DOMAIN batch[t] |->
             IF c \in counts THEN batch[t][c] + 1 ELSE batch[t][c]]
            \in [Tallies -> Nat]
      OBVIOUS
    <2> QED BY <1>1, <2>1 DEF Process
  <1>2. ASSUME NEW t \in Threads, Counted(t)
        PROVE  /\ batch' \in [Threads -> [Tallies -> Nat]]
               /\ stats' \in [Counters -> Nat]
    <2>1. NoBatch \in [Tallies -> Nat]
      BY DEF NoBatch, Tallies
    <2>2. \A c \in Tallies : batch[t][c] \in Nat
      OBVIOUS
    <2> QED BY <1>2, <2>1, <2>2 DEF Counted
  <1>3. ASSUME NEW p \in Producers, NEW from, NEW code \in Codes, NEW counter,
               Return(p, from, code, counter)
        PROVE  CountTypes'
    BY <1>3 DEF Return
  <1>4. ASSUME NEW p \in Producers, Log(p) \/ LogStep(p) PROVE CountTypes'
    <2>1. p \in Threads
      BY DEF Threads
    <2>2. CASE \/ Log(p) \/ Alloc(p) \/ Route(p) \/ AuditAdmits(p)
               \/ PushAudit(p) \/ Push(p)
               \/ LoadConsumer(p) \/ PushFull(p) \/ HelpDeclined(p)
               \/ HelpWanted(p) \/ HelpLock(p) \/ HelpPop(p)
      BY <2>2
         DEF Log, Alloc, Route, AuditAdmits, PushAudit, Push, LoadConsumer,
             PushFull, HelpDeclined, HelpWanted, HelpLock, HelpPop, Inside,
             pvars
    <2>3. CASE \/ AllocExhausted(p) \/ EncodingError(p) \/ AuditRefused(p)
               \/ CountAccepted(p) \/ Drop(p)
      BY <2>3, <1>3
         DEF AllocExhausted, EncodingError, AuditRefused, CountAccepted, Drop,
             Codes
    <2>4. CASE HelpProcess(p)
      BY <2>1, <2>4, <1>1 DEF HelpProcess, pvars, Counters, Tallies
    <2>5. CASE HelpDone(p)
      BY <2>1, <2>5, <1>2 DEF HelpDone
    <2> QED BY <1>4, <2>2, <2>3, <2>4, <2>5 DEF LogStep
  <1>5. CASE Consume
    <2>1. Consumer \in Threads
      BY DEF Threads
    <2>2. CASE CheckShutdown \/ ConsumerPop \/ DrainDone
      BY <2>2 DEF CheckShutdown, ConsumerPop, DrainDone, pvars
    <2>3. CASE StageDrops \/ StageAccepts
      BY <2>1, <2>3, <1>1 DEF StageDrops, StageAccepts, pvars
    <2>4. CASE Write
      <3>1. stats' \in [Counters -> Nat]
        BY <2>4 DEF Write, Counters, Tallies
      <3>2. UNCHANGED <<calls, returned, batch>>
        BY <2>4 DEF Write, pvars
      <3> QED BY <3>1, <3>2
    <2>5. CASE BatchDone
      BY <2>1, <2>5, <1>2 DEF BatchDone, pvars
    <2> QED BY <1>5, <2>2, <2>3, <2>4, <2>5 DEF Consume
  <1>6. CASE AuditTake \/ AuditFails \/ Shutdown \/ UNCHANGED vars
    BY <1>6 DEF AuditTake, AuditFails, Shutdown, vars, pvars
  <1> QED BY <1>4, <1>5, <1>6 DEF Next

\* The helper that has the mutex is the only one with a batch.
LEMMA LockStep ==
  ASSUME CountInv, [Next]_vars
  PROVE  LockInv'
  <1> USE DEF CountInv, LockInv
  <1>2. ASSUME NEW p \in Producers, Log(p) \/ LogStep(p) PROVE LockInv'
    <2>1. p \in Threads
      BY DEF Threads
    <2>2. CASE \/ Log(p) \/ Alloc(p) \/ Route(p) \/ AuditAdmits(p)
               \/ PushAudit(p) \/ Push(p)
               \/ LoadConsumer(p) \/ PushFull(p) \/ HelpDeclined(p)
               \/ HelpWanted(p) \/ HelpPop(p)
      <3>1. UNCHANGED <<lock, batch>>
        BY <2>2
           DEF Log, Alloc, Route, AuditAdmits, PushAudit, Push, LoadConsumer,
               PushFull, HelpDeclined, HelpWanted, HelpPop, Inside, pvars
      <3>2. \/ UNCHANGED ppc
            \/ \E from, to : PGoto(p, from, to) /\ from # "helping" /\ to # "helping"
        BY <2>2
           DEF Log, Alloc, Route, AuditAdmits, PushAudit, Push, LoadConsumer,
               PushFull, HelpDeclined, HelpWanted, HelpPop, pvars
      <3> QED BY <3>1, <3>2, GotoMoves DEF Moves
    <2>3. CASE \/ AllocExhausted(p) \/ EncodingError(p) \/ AuditRefused(p)
               \/ CountAccepted(p) \/ Drop(p)
      <3>1. /\ UNCHANGED <<lock, batch>>
            /\ \E from : PGoto(p, from, "idle") /\ from # "helping"
        BY <2>3
           DEF AllocExhausted, EncodingError, AuditRefused, CountAccepted,
               Drop, Return
      <3> QED BY <3>1, GotoMoves DEF Moves
    <2>4. CASE HelpProcess(p)
      <3>1. lock = p /\ UNCHANGED <<ppc, lock>>
        BY <2>4 DEF HelpProcess, pvars
      <3>2. \A u \in Threads \ {p} : batch'[u] = batch[u]
        BY <2>4 DEF HelpProcess, Process, CountTypes
      <3> QED BY <3>1, <3>2
    <2>5. CASE HelpDone(p)
      <3>1. /\ \E to : PGoto(p, "helping", to) /\ to # "helping"
            /\ lock' = Nobody
        BY <2>5 DEF HelpDone
      <3>2. batch' = [batch EXCEPT ![p] = NoBatch]
        BY <2>5 DEF HelpDone, Counted
      <3>3. \A q \in Producers : ppc'[q] # "helping"
        BY <3>1, GotoMoves DEF Moves
      <3> QED BY <2>1, <3>1, <3>2, <3>3, GotoMoves DEF Moves, CountTypes
    <2>6. CASE HelpLock(p)
      <3>1. /\ lock = Nobody /\ lock' = p /\ PGoto(p, "lock", "helping")
            /\ UNCHANGED batch
        BY <2>6 DEF HelpLock
      <3>2. \A q \in Producers : ppc[q] # "helping"
        BY <3>1, ThreadsAssumption
      <3> QED BY <2>1, <3>1, <3>2, GotoMoves, ThreadsAssumption
                 DEF Moves, Threads
    <2> QED BY <1>2, <2>2, <2>3, <2>4, <2>5, <2>6 DEF LogStep
  <1>3. CASE Consume
    <2>1. CASE CheckShutdown \/ ConsumerPop \/ DrainDone \/ Write
      BY <2>1 DEF CheckShutdown, ConsumerPop, DrainDone, Write, pvars
    <2>2. CASE StageDrops \/ StageAccepts
      <3>1. UNCHANGED <<ppc, lock>>
        BY <2>2 DEF StageDrops, StageAccepts, pvars
      <3>2. \A u \in Threads \ {Consumer} : batch'[u] = batch[u]
        BY <2>2 DEF StageDrops, StageAccepts, Process, CountTypes
      <3> QED BY <3>1, <3>2
    <2>3. CASE BatchDone
      BY <2>3 DEF BatchDone, Counted, pvars
    <2> QED BY <1>3, <2>1, <2>2, <2>3 DEF Consume
  <1>4. CASE AuditTake \/ AuditFails \/ Shutdown \/ UNCHANGED vars
    BY <1>4 DEF AuditTake, AuditFails, Shutdown, vars, pvars
  <1> QED BY <1>2, <1>3, <1>4 DEF Next

\* The consumer stops only when no call is under way and the ring is empty.
LEMMA StopStep ==
  ASSUME CountInv, [Next]_vars
  PROVE  StopInv'
  <1> USE DEF CountInv, StopInv
  <1>1. ConsumerIsAThread /\ FateInv'
    BY TheConsumer, StepsDeliver
  <1>2. ASSUME NEW p \in Producers, Log(p) \/ LogStep(p) PROVE StopInv'
    <2>1. p \in Threads /\ p # Consumer
      BY <1>1 DEF ConsumerIsAThread
    <2>2. CASE \/ Log(p) \/ Alloc(p) \/ Route(p) \/ AuditAdmits(p)
               \/ PushAudit(p)
               \/ LoadConsumer(p) \/ PushFull(p) \/ HelpDeclined(p)
               \/ HelpWanted(p) \/ HelpLock(p)
      <3>1. UNCHANGED <<cpc, final, pending, shutdown, hold, batch, pushed, popped>>
        BY <2>2
           DEF Log, Alloc, Route, AuditAdmits, PushAudit, LoadConsumer,
               PushFull, HelpDeclined, HelpWanted, HelpLock, Inside, cvars
      <3>2. /\ \E from, to : PGoto(p, from, to) /\ from # "helping"
            /\ ~shutdown \/ ppc[p] # "idle"
        BY <2>2
           DEF Log, Alloc, Route, AuditAdmits, PushAudit, LoadConsumer,
               PushFull, HelpDeclined, HelpWanted, HelpLock, PGoto
      <3> QED BY <3>1, <3>2, GotoMoves DEF Moves
    <2>3. CASE \/ AllocExhausted(p) \/ EncodingError(p) \/ AuditRefused(p)
               \/ CountAccepted(p) \/ Drop(p)
      <3>1. UNCHANGED <<cpc, final, pending, shutdown, hold, batch, pushed, popped>>
        BY <2>3
           DEF AllocExhausted, EncodingError, AuditRefused, CountAccepted,
               Drop, Return, cvars
      <3>2. \E from : PGoto(p, from, "idle") /\ from # "helping" /\ from # "idle"
        BY <2>3
           DEF AllocExhausted, EncodingError, AuditRefused, CountAccepted,
               Drop, Return
      <3> QED BY <3>1, <3>2, GotoMoves DEF Moves
    <2>4. CASE Push(p)
      BY <2>4 DEF Push, PGoto, cvars
    <2>5. CASE HelpPop(p)
      BY <2>1, <2>5 DEF HelpPop, Pop, pvars, cvars, FateInv, FateTypes
    <2>6. CASE HelpProcess(p)
      <3>1. UNCHANGED <<cpc, final, pending, shutdown, pushed, popped, ppc>>
        BY <2>6 DEF HelpProcess, pvars, cvars
      <3>2. /\ hold' = [hold EXCEPT ![p] = 0]
            /\ \A u \in Threads \ {p} : batch'[u] = batch[u]
        BY <2>6 DEF HelpProcess, Process, CountTypes
      <3>3. ppc[p] = "helping"
        BY <2>6 DEF HelpProcess
      <3> QED BY <1>1, <2>1, <3>1, <3>2, <3>3
                 DEF ConsumerIsAThread, FateInv, FateTypes
    <2>7. CASE HelpDone(p)
      BY <2>1, <2>7 DEF HelpDone, Counted, PGoto, cvars, CountTypes
    <2> QED BY <1>2, <2>2, <2>3, <2>4, <2>5, <2>6, <2>7 DEF LogStep
  <1>3. CASE Consume
    <2>1. CASE CheckShutdown \/ DrainDone
      BY <2>1 DEF CheckShutdown, DrainDone, CGoto, pvars
    <2>2. CASE StageDrops \/ StageAccepts
      BY <2>2, <1>1
         DEF StageDrops, StageAccepts, Process, pvars, cvars, FateInv,
             FateTypes, ConsumerIsAThread
    <2>3. CASE BatchDone
      BY <2>3, <1>1
         DEF BatchDone, Counted, CGoto, pvars, CountTypes, ConsumerIsAThread
    <2>4. CASE ConsumerPop
      BY <2>4, <1>1
         DEF ConsumerPop, Pop, pvars, cvars, FateInv, FateTypes,
             ConsumerIsAThread
    <2>5. CASE Write
      BY <2>5 DEF Write, pvars
    <2> QED BY <1>3, <2>1, <2>2, <2>3, <2>4, <2>5 DEF Consume
  <1>4. CASE AuditTake \/ AuditFails \/ Shutdown \/ UNCHANGED vars
    BY <1>4 DEF AuditTake, AuditFails, Shutdown, vars, pvars, cvars
  <1> QED BY <1>2, <1>3, <1>4 DEF Next

\* A record that is popped is in somebody's hands until it has its fate.
LEMMA HandsStep ==
  ASSUME CountInv, [Next]_vars
  PROVE  NoneForgotten'
  <1>1. FateInv /\ FateInv' /\ NoneForgotten
    BY StepsDeliver DEF CountInv
  <1>2. CASE UNCHANGED <<pushed, popped, fate, hold, pending>>
    BY <1>1, <1>2 DEF NoneForgotten
  <1>3. ASSUME NEW t \in Threads, Pop(t), UNCHANGED <<fate, pending>>
        PROVE  NoneForgotten'
    <2>1. /\ popped \in Nat /\ popped' = popped + 1
          /\ hold[t] = 0 /\ hold'[t] = popped + 1
          /\ \A u \in Threads \ {t} : hold'[u] = hold[u]
      BY <1>1, <1>3 DEF Pop, FateInv, FateTypes
    <2> SUFFICES ASSUME NEW i \in 1 .. popped', fate[i] = "waiting"
                 PROVE  \/ \E u \in Threads : hold'[u] = i
                        \/ \E j \in 1 .. Len(pending) : pending[j] = i
      BY <1>3 DEF NoneForgotten
    <2>2. CASE i = popped + 1
      BY <2>1, <2>2
    <2>3. CASE i \in 1 .. popped
      <3>1. CASE \E u \in Threads : hold[u] = i
        BY <2>1, <2>3, <3>1
      <3> QED BY <1>1, <2>3, <3>1 DEF NoneForgotten
    <2> QED BY <2>1, <2>2, <2>3
  <1>4. ASSUME NEW t \in Threads, NEW f \in Settled, NEW counts,
               Process(t, f, counts),
               UNCHANGED <<pushed, popped, pending, out>>
        PROVE  NoneForgotten'
    <2>1. /\ hold[t] \in 1 .. Len(fate)
          /\ fate' = [fate EXCEPT ![hold[t]] = f]
          /\ \A u \in Threads \ {t} : hold'[u] = hold[u]
      BY <1>1, <1>4, SettleFate DEF Process, FateInv, FateTypes
    <2>2. f # "waiting"
      BY DEF Settled
    <2>3. popped \in Nat /\ popped <= Len(fate)
      BY <1>1 DEF FateInv, FateTypes
    <2>4. fate'[hold[t]] # "waiting"
          /\ \A i \in 1 .. popped : i # hold[t] => fate'[i] = fate[i]
      BY <2>1, <2>2, <2>3, <1>1 DEF FateInv, FateTypes
    <2>5. ASSUME NEW i \in 1 .. popped PROVE
             \/ fate'[i] # "waiting"
             \/ \E u \in Threads : hold'[u] = i
             \/ \E j \in 1 .. Len(pending) : pending[j] = i
      <3>1. CASE i = hold[t]
        BY <3>1, <2>4
      <3>2. CASE \E u \in Threads : hold[u] = i /\ i # hold[t]
        BY <2>1, <3>2
      <3> QED BY <1>1, <2>4, <3>1, <3>2 DEF NoneForgotten
    <2> QED BY <1>4, <2>5 DEF NoneForgotten
  <1>5. CASE StageAccepts
    <2>1. /\ fate' = fate /\ UNCHANGED popped
          /\ pending' = Append(pending, hold[Consumer])
          /\ \A u \in Threads \ {Consumer} : hold'[u] = hold[u]
      BY <1>1, <1>5, AcceptFate DEF StageAccepts, Process, FateInv, FateTypes
    <2>2. /\ Len(pending) \in Nat /\ Len(pending') = Len(pending) + 1
          /\ pending'[Len(pending) + 1] = hold[Consumer]
          /\ \A j \in 1 .. Len(pending) : pending'[j] = pending[j]
      BY <1>1, <2>1, TheConsumer DEF FateInv, FateTypes, ConsumerIsAThread
    <2>3. ASSUME NEW i \in 1 .. popped PROVE
             \/ fate[i] # "waiting"
             \/ \E u \in Threads : hold'[u] = i
             \/ \E j \in 1 .. Len(pending') : pending'[j] = i
      <3>1. CASE \E u \in Threads : hold[u] = i
        BY <2>1, <2>2, <3>1
      <3>2. CASE \E j \in 1 .. Len(pending) : pending[j] = i
        BY <2>2, <3>2
      <3> QED BY <1>1, <3>1, <3>2 DEF NoneForgotten
    <2> QED BY <2>1, <2>3 DEF NoneForgotten
  <1>6. CASE Write
    <2>1. /\ UNCHANGED <<hold, popped>> /\ pending # <<>>
          /\ pending' = Tail(pending)
          /\ \E f \in {"written", "lost"} : fate' = [fate EXCEPT ![Head(pending)] = f]
          /\ Head(pending) \in 1 .. Len(fate)
      BY <1>1, <1>6, WriteFate DEF Write
    <2>2. /\ Len(pending) \in Nat \ {0} /\ Len(pending') = Len(pending) - 1
          /\ Head(pending) = pending[1]
          /\ \A j \in 1 .. Len(pending') : pending'[j] = pending[j + 1]
      BY <1>1, <2>1 DEF FateInv, FateTypes
    <2>3. popped \in Nat /\ popped <= Len(fate)
      BY <1>1 DEF FateInv, FateTypes
    <2>4. fate'[Head(pending)] # "waiting"
          /\ \A i \in 1 .. popped : i # Head(pending) => fate'[i] = fate[i]
      BY <2>1, <2>3, <1>1 DEF FateInv, FateTypes
    <2>5. ASSUME NEW i \in 1 .. popped PROVE
             \/ fate'[i] # "waiting"
             \/ \E u \in Threads : hold[u] = i
             \/ \E j \in 1 .. Len(pending') : pending'[j] = i
      <3>1. CASE i = Head(pending)
        BY <3>1, <2>4
      <3>2. ASSUME i # Head(pending), NEW j \in 1 .. Len(pending), pending[j] = i
            PROVE  \E k \in 1 .. Len(pending') : pending'[k] = i
        <4>1. j - 1 \in 1 .. Len(pending') /\ j = (j - 1) + 1
          BY <2>2, <3>2
        <4> QED BY <2>2, <3>2, <4>1
      <3> QED BY <1>1, <2>4, <3>1, <3>2 DEF NoneForgotten
    <2> QED BY <2>1, <2>5 DEF NoneForgotten
  <1>7. ASSUME NEW p \in Producers, Log(p) \/ LogStep(p) PROVE NoneForgotten'
    <2>1. p \in Threads
      BY DEF Threads
    <2>2. CASE \/ Log(p) \/ Alloc(p) \/ AllocExhausted(p) \/ EncodingError(p)
             \/ Route(p) \/ AuditAdmits(p) \/ PushAudit(p) \/ AuditRefused(p)
             \/ LoadConsumer(p) \/ PushFull(p) \/ CountAccepted(p) \/ Drop(p)
             \/ HelpDeclined(p) \/ HelpWanted(p) \/ HelpLock(p) \/ HelpDone(p)
      <3>1. UNCHANGED <<pushed, popped, fate, hold, pending>>
        BY <2>2
           DEF Log, Alloc, AllocExhausted, EncodingError, Route, AuditAdmits,
               PushAudit, AuditRefused, LoadConsumer, PushFull, CountAccepted,
               Drop, HelpDeclined, HelpWanted, HelpLock, HelpDone, Return,
               Inside, cvars
      <3> QED BY <1>2, <3>1
    <2>3. CASE Push(p)
      <3>1. /\ UNCHANGED <<popped, hold, pending>>
            /\ fate' = Append(fate, "waiting")
        BY <2>3 DEF Push, cvars
      <3>2. \A i \in 1 .. popped : fate'[i] = fate[i]
        BY <1>1, <3>1 DEF FateInv, FateTypes
      <3> QED BY <1>1, <3>1, <3>2 DEF NoneForgotten
    <2>4. CASE HelpPop(p)
      BY <2>1, <2>4, <1>3 DEF HelpPop, cvars
    <2>5. CASE HelpProcess(p)
      <3>1. \E f \in {"filtered", "helped"} : \E counts : Process(p, f, counts)
        BY <2>5 DEF HelpProcess
      <3>2. UNCHANGED <<pushed, popped, pending, out>>
        BY <2>5 DEF HelpProcess, cvars
      <3> QED BY <2>1, <3>1, <3>2, <1>4 DEF Settled
    <2> QED BY <1>7, <2>2, <2>3, <2>4, <2>5 DEF LogStep
  <1>8. CASE Consume
    <2>1. Consumer \in Threads
      BY DEF Threads
    <2>2. CASE CheckShutdown \/ DrainDone \/ BatchDone
      <3>1. UNCHANGED <<pushed, popped, fate, hold, pending>>
        BY <2>2 DEF CheckShutdown, DrainDone, BatchDone
      <3> QED BY <1>2, <3>1
    <2>3. CASE ConsumerPop
      BY <2>1, <2>3, <1>3 DEF ConsumerPop, cvars
    <2>4. CASE StageDrops
      <3>1. \E counts : Process(Consumer, "filtered", counts)
        BY <2>4 DEF StageDrops
      <3>2. UNCHANGED <<pushed, popped, pending, out>>
        BY <2>4 DEF StageDrops, cvars
      <3> QED BY <2>1, <3>1, <3>2, <1>4 DEF Settled
    <2> QED BY <1>5, <1>6, <1>8, <2>2, <2>3, <2>4 DEF Consume
  <1>9. CASE AuditTake \/ AuditFails \/ Shutdown \/ UNCHANGED vars
    <2>1. UNCHANGED <<pushed, popped, fate, hold, pending>>
      BY <1>9 DEF AuditTake, AuditFails, Shutdown, vars, cvars
    <2> QED BY <1>2, <2>1
  <1> QED BY <1>7, <1>8, <1>9 DEF Next

-----------------------------------------------------------------------------
(* The counting                                                            *)

\* Entering dologger_log counts the producer as in a call, leaving it does not.
LEMMA InCallMoves ==
  ASSUME CountInv, NEW p \in Producers, NEW from, NEW to, Moves(p, from, to)
  PROVE  /\ Cardinality(InCall) \in Nat
         /\ Cardinality(InCall)' =
              Cardinality(InCall) + One(to # "idle") - One(from # "idle")
  <1>1. IsFiniteSet(InCall) /\ Cardinality(InCall) \in Nat
    <2>1. IsFiniteSet(InCall)
      BY ThreadsAssumption, FS_Subset DEF InCall
    <2> QED BY <2>1, FS_CardinalityType
  <1>2. CASE to # "idle" /\ from # "idle"
    <2>1. InCall' = InCall
      BY <1>2 DEF InCall, Moves
    <2> QED BY <1>1, <1>2, <2>1 DEF One
  <1>3. CASE to # "idle" /\ from = "idle"
    <2>1. InCall' = InCall \cup {p} /\ p \notin InCall
      BY <1>3 DEF InCall, Moves
    <2>2. Cardinality(InCall)' = Cardinality(InCall) + 1
      BY <1>1, <2>1, FS_AddElement
    <2>3. One(to # "idle") = 1 /\ One(from # "idle") = 0
      BY <1>3 DEF One
    <2> QED BY <1>1, <2>2, <2>3
  <1>4. CASE to = "idle" /\ from # "idle"
    <2>1. InCall' = InCall \ {p} /\ p \in InCall
      BY <1>4 DEF InCall, Moves
    <2>2. Cardinality(InCall)' = Cardinality(InCall) - 1
      BY <1>1, <2>1, FS_RemoveElement
    <2>3. One(to # "idle") = 0 /\ One(from # "idle") = 1
      BY <1>4 DEF One
    <2> QED BY <1>1, <2>2, <2>3
  <1>5. CASE to = "idle" /\ from = "idle"
    <2>1. InCall' = InCall
      BY <1>5 DEF InCall, Moves
    <2> QED BY <1>1, <1>5, <2>1 DEF One
  <1> QED BY <1>2, <1>3, <1>4, <1>5

\* Every call begun is under way or has returned a code.
LEMMA CallsStep ==
  ASSUME CountInv, [Next]_vars
  PROVE  CallsCounted'
  <1>1. CallsCounted /\ CountTypes
    BY DEF CountInv
  <1>2. CASE UNCHANGED <<calls, returned, stats, ppc>>
    BY <1>1, <1>2 DEF CallsCounted, Begun, InCall
  <1>3. CASE /\ UNCHANGED <<calls, returned, ppc>>
             /\ stats'.accepted = stats.accepted
    BY <1>1, <1>3 DEF CallsCounted, Begun, InCall
  <1>4. ASSUME NEW p \in Producers, NEW from, NEW to, PGoto(p, from, to),
               from # "idle", to # "idle", UNCHANGED <<calls, returned>>,
               stats'.accepted = stats.accepted
        PROVE  CallsCounted'
    <2>1. /\ Cardinality(InCall) \in Nat
          /\ Cardinality(InCall)' = Cardinality(InCall)
      BY <1>4, GotoMoves, InCallMoves DEF One
    <2>2. Begun' = Begun
      BY <1>4 DEF Begun
    <2> QED BY <1>1, <1>4, <2>1, <2>2 DEF CallsCounted
  <1>5. ASSUME NEW p \in Producers, NEW from, NEW code \in Codes, NEW counter,
               Return(p, from, code, counter), from # "idle",
               code = "ok" <=> counter = "accepted"
        PROVE  CallsCounted'
    <2>1. /\ Cardinality(InCall) \in Nat
          /\ Cardinality(InCall)' = Cardinality(InCall) - 1
      BY <1>5, GotoMoves, InCallMoves DEF One, Return
    <2>2. Begun' = Begun
      BY <1>5 DEF Begun, Return
    <2>3. /\ returned' = [returned EXCEPT ![code] = @ + 1]
          /\ stats'.accepted = IF counter = "accepted" THEN stats.accepted + 1
                                                       ELSE stats.accepted
      BY <1>1, <1>5 DEF Return, CountTypes, Counters
    <2>4. /\ returned.ok \in Nat /\ returned.out_of_memory \in Nat
          /\ returned.encoding \in Nat
          /\ returned.audit \in Nat /\ returned.buffer_full \in Nat
          /\ returned'.ok = returned.ok + One(code = "ok")
          /\ returned'.out_of_memory = returned.out_of_memory + One(code = "out_of_memory")
          /\ returned'.encoding = returned.encoding + One(code = "encoding")
          /\ returned'.audit = returned.audit + One(code = "audit")
          /\ returned'.buffer_full = returned.buffer_full + One(code = "buffer_full")
      BY <1>1, <2>3 DEF CountTypes, Codes, One
    <2>5. One(code = "ok") + One(code = "out_of_memory") + One(code = "encoding")
            + One(code = "audit") + One(code = "buffer_full") = 1
      BY <1>5 DEF One, Codes
    <2>6. \A b : One(b) \in Nat
      BY DEF One
    <2>7. returned'.ok + returned'.out_of_memory + returned'.encoding
            + returned'.audit + returned'.buffer_full
          = returned.ok + returned.out_of_memory + returned.encoding
              + returned.audit + returned.buffer_full + 1
      BY <2>4, <2>5, <2>6
    <2>8. stats'.accepted = returned'.ok
      BY <1>1, <1>5, <2>3, <2>4 DEF CallsCounted, One
    <2> QED BY <1>1, <2>1, <2>2, <2>4, <2>7, <2>8 DEF CallsCounted
  <1>6. ASSUME NEW p \in Producers, Log(p) PROVE CallsCounted'
    <2>1. /\ Cardinality(InCall) \in Nat
          /\ Cardinality(InCall)' = Cardinality(InCall) + 1
      BY <1>6, GotoMoves, InCallMoves DEF One, Log
    <2>2. calls' = [calls EXCEPT ![p] = @ + 1] /\ UNCHANGED <<returned, stats>>
      BY <1>6 DEF Log
    <2>3. /\ Begun' = Begun \cup {<<p, calls[p] + 1>>}
          /\ <<p, calls[p] + 1>> \notin Begun
      <3>1. \A q \in Producers : {q} \X (1 .. calls'[q]) =
              IF q = p THEN ({q} \X (1 .. calls[q])) \cup {<<p, calls[p] + 1>>}
                       ELSE {q} \X (1 .. calls[q])
        BY <1>1, <2>2 DEF CountTypes
      <3>2. \A q \in Producers : <<p, calls[p] + 1>> \notin {q} \X (1 .. calls[q])
        BY <1>1 DEF CountTypes
      <3> QED BY <3>1, <3>2 DEF Begun
    <2>4. IsFiniteSet(Begun') /\ Cardinality(Begun') = Cardinality(Begun) + 1
      BY <1>1, <2>3, FS_AddElement DEF CallsCounted
    <2>5. Cardinality(Begun) \in Nat
      BY <1>1, FS_CardinalityType DEF CallsCounted
    <2>6. /\ returned.ok \in Nat /\ returned.out_of_memory \in Nat
          /\ returned.encoding \in Nat
          /\ returned.audit \in Nat /\ returned.buffer_full \in Nat
      BY <1>1 DEF CountTypes, Codes
    <2>7. Cardinality(Begun) = returned.ok + returned.out_of_memory + returned.encoding
            + returned.audit + returned.buffer_full + Cardinality(InCall)
          /\ stats.accepted = returned.ok
      BY <1>1 DEF CallsCounted
    <2> HIDE <1>1
    <2>8. Cardinality(Begun)' = returned.ok + returned.out_of_memory + returned.encoding
            + returned.audit + returned.buffer_full + Cardinality(InCall)'
      BY <2>1, <2>4, <2>5, <2>6, <2>7
    <2> QED BY <2>2, <2>4, <2>7, <2>8 DEF CallsCounted
  <1>7. ASSUME NEW p \in Producers, LogStep(p) PROVE CallsCounted'
    <2>1. CASE \/ Alloc(p) \/ Route(p) \/ AuditAdmits(p) \/ PushAudit(p)
               \/ LoadConsumer(p) \/ Push(p) \/ PushFull(p)
               \/ HelpDeclined(p) \/ HelpWanted(p) \/ HelpLock(p)
      <3>1. UNCHANGED <<calls, returned, stats>>
        BY <2>1
           DEF Alloc, Route, AuditAdmits, PushAudit, LoadConsumer, Push,
               PushFull, HelpDeclined, HelpWanted, HelpLock, Inside
      <3>2. \E from, to : PGoto(p, from, to) /\ from # "idle" /\ to # "idle"
        BY <2>1
           DEF Alloc, Route, AuditAdmits, PushAudit, LoadConsumer, Push,
               PushFull, HelpDeclined, HelpWanted, HelpLock
      <3> QED BY <1>4, <3>1, <3>2
    <2>2. CASE HelpDone(p)
      <3>1. UNCHANGED <<calls, returned>> /\ stats'.accepted = stats.accepted
        BY <1>1, <2>2
           DEF HelpDone, Counted, CountTypes, Counters, Tallies, Threads
      <3>2. \E from, to : PGoto(p, from, to) /\ from # "idle" /\ to # "idle"
        BY <2>2 DEF HelpDone
      <3> QED BY <1>4, <3>1, <3>2
    <2>3. CASE HelpPop(p) \/ HelpProcess(p)
      <3>1. /\ UNCHANGED <<calls, returned, ppc>>
            /\ stats'.accepted = stats.accepted
        BY <1>1, <2>3
           DEF HelpPop, HelpProcess, CountTypes, Counters, Tallies, pvars
      <3> QED BY <1>3, <3>1
    <2>4. CASE \/ AllocExhausted(p) \/ EncodingError(p) \/ AuditRefused(p)
               \/ CountAccepted(p) \/ Drop(p)
      <3>1. \E from, code, counter :
              /\ Return(p, from, code, counter) /\ code \in Codes
              /\ from # "idle"
              /\ code = "ok" <=> counter = "accepted"
        BY <2>4
           DEF AllocExhausted, EncodingError, AuditRefused, CountAccepted,
               Drop, Codes
      <3> QED BY <1>5, <3>1
    <2> QED BY <1>7, <2>1, <2>2, <2>3, <2>4 DEF LogStep
  <1>8. CASE Consume
    <2>1. UNCHANGED <<calls, returned, ppc>>
      BY <1>8
         DEF Consume, CheckShutdown, ConsumerPop, StageDrops, StageAccepts,
             DrainDone, Write, BatchDone, pvars
    <2>2. stats'.accepted = stats.accepted
      <3>1. CASE BatchDone
        <4>1. Consumer \in Threads
          BY DEF Threads
        <4>2. DOMAIN batch[Consumer] = Tallies /\ DOMAIN stats = Counters
          BY <1>1, <4>1 DEF CountTypes
        <4> QED BY <3>1, <4>2 DEF BatchDone, Counted, Counters, Tallies
      <3>2. CASE Write
        BY <1>1, <3>2 DEF Write, CountTypes, Counters, Tallies
      <3>3. CASE \/ CheckShutdown \/ ConsumerPop \/ StageDrops \/ StageAccepts
                 \/ DrainDone
        BY <3>3
           DEF CheckShutdown, ConsumerPop, StageDrops, StageAccepts, DrainDone
      <3> QED BY <1>8, <3>1, <3>2, <3>3 DEF Consume
    <2> QED BY <1>3, <2>1, <2>2
  <1>9. CASE AuditTake \/ AuditFails \/ Shutdown \/ UNCHANGED vars
    <2>1. UNCHANGED <<calls, returned, stats, ppc>>
      BY <1>9 DEF AuditTake, AuditFails, Shutdown, vars, pvars
    <2> QED BY <1>2, <2>1
  <1> QED BY <1>6, <1>7, <1>8, <1>9 DEF Next

Processed == Number({"written", "lost", "helped"})
Filtered  == Number({"filtered"})
Lost      == Number({"lost"})

\* The same for the three numbers that the counters are compared with.
LEMMA SettledCounts ==
  ASSUME FateInv, NEW i \in 1 .. Len(fate), fate[i] = "waiting",
         NEW f \in Settled, fate' = [fate EXCEPT ![i] = f]
  PROVE  /\ Processed \in Nat /\ Processed' = Processed + One(f # "filtered")
         /\ Filtered \in Nat /\ Filtered' = Filtered + One(f = "filtered")
         /\ Lost \in Nat /\ Lost' = Lost + One(f = "lost")
  <1>1. /\ Processed \in Nat /\ Filtered \in Nat /\ Lost \in Nat
    BY NumberIsANumber DEF Processed, Filtered, Lost
  <1>2. /\ {"written", "lost", "helped"} \in SUBSET Settled
        /\ {"filtered"} \in SUBSET Settled
        /\ {"lost"} \in SUBSET Settled
    BY DEF Settled
  <1>3. /\ Processed' = Processed + One(f \in {"written", "lost", "helped"})
        /\ Filtered' = Filtered + One(f \in {"filtered"})
        /\ Lost' = Lost + One(f \in {"lost"})
    BY <1>2, NumberSettled DEF Processed, Filtered, Lost
  <1>4. /\ One(f \in {"written", "lost", "helped"}) = One(f # "filtered")
        /\ One(f \in {"filtered"}) = One(f = "filtered")
        /\ One(f \in {"lost"}) = One(f = "lost")
    BY DEF One, Settled
  <1> QED BY <1>1, <1>3, <1>4

\* A term that is added to both sides of the sum of a counter.
LEMMA BothSidesMove ==
  ASSUME NEW s \in Nat, NEW b \in Nat, NEW h \in Nat, NEW r \in Nat,
         NEW l \in Nat, NEW more \in Nat, s + b + h = r + l
  PROVE  /\ s + b + (h + more) = (r + more) + l
         /\ s + (b + more) + h = r + (l + more)
  OBVIOUS

\* The callback counts in the batch of its thread.
LEMMA ProcessTallies ==
  ASSUME CountTypes, NEW t \in Threads, NEW f, NEW counts, Process(t, f, counts)
  PROVE  /\ \A c \in Tallies : batch'[t][c] = batch[t][c] + One(c \in counts)
         /\ \A u \in Threads \ {t} : batch'[u] = batch[u]
  BY DEF CountTypes, Process, One

\* record_batch moves a batch to the counters.
LEMMA CountedTallies ==
  ASSUME CountTypes, NEW t \in Threads, Counted(t)
  PROVE  /\ \A c \in Tallies : /\ batch'[t][c] = 0
                               /\ stats'[c] = stats[c] + batch[t][c]
         /\ \A u \in Threads \ {t} : batch'[u] = batch[u]
  <1>1. DOMAIN batch[t] = Tallies /\ DOMAIN stats = Counters
    BY DEF CountTypes
  <1>2. \A c \in Tallies : stats'[c] = stats[c] + batch[t][c]
    BY <1>1 DEF Counted, Counters
  <1>3. /\ batch' = [batch EXCEPT ![t] = NoBatch]
        /\ \A c \in Tallies : NoBatch[c] = 0
    BY DEF Counted, NoBatch, Tallies
  <1> QED BY <1>2, <1>3 DEF CountTypes

\* The totals are numbers, and those of the helper are of the one that has
\* the mutex.
LEMMA TotalsAreNumbers ==
  ASSUME CountInv
  PROVE  \A c \in Tallies : /\ stats[c] \in Nat
                            /\ batch[Consumer][c] \in Nat
                            /\ HelperBatch[c] \in Nat
  <1>1. Consumer \in Threads /\ (lock # Nobody => lock \in Threads)
    BY DEF CountInv, LockInv, Threads
  <1>2. \A c \in Tallies : NoBatch[c] = 0
    BY DEF NoBatch, Tallies
  <1> QED BY <1>1, <1>2 DEF CountInv, CountTypes, Counters, HelperBatch

\* What the counters and the open batches say is what became of the records.
LEMMA FatesStep ==
  ASSUME CountInv, [Next]_vars
  PROVE  FatesCounted'
  <1>1. /\ FateInv /\ FateInv' /\ CountTypes
        /\ \A c \in Tallies : /\ stats[c] \in Nat
                              /\ batch[Consumer][c] \in Nat
                              /\ HelperBatch[c] \in Nat
        /\ {"processed", "dropped", "errors"} = Tallies
        /\ \A c \in Codes : returned[c] \in Nat
    BY StepsDeliver, TotalsAreNumbers DEF CountInv, CountTypes, Tallies
  <1>2. /\ stats.processed + batch[Consumer].processed + HelperBatch.processed
             = Processed + Len(pending)
        /\ stats.dropped + batch[Consumer].dropped + HelperBatch.dropped
             = returned.buffer_full + Filtered
        /\ stats.errors >= returned.out_of_memory + returned.audit + Lost
    BY DEF CountInv, FatesCounted, Processed, Filtered, Lost, Total
  <1>3. /\ Processed \in Nat /\ Filtered \in Nat /\ Lost \in Nat
        /\ Len(pending) \in Nat
    <2>1. Len(pending) \in Nat
      BY <1>1 DEF FateInv, FateTypes
    <2> QED BY <1>1, <2>1, NumberIsANumber DEF Processed, Filtered, Lost
  <1>0. /\ stats.processed \in Nat /\ stats.dropped \in Nat
        /\ stats.errors \in Nat
        /\ batch[Consumer].processed \in Nat /\ HelperBatch.processed \in Nat
        /\ batch[Consumer].dropped \in Nat /\ HelperBatch.dropped \in Nat
        /\ batch[Consumer].errors \in Nat /\ HelperBatch.errors \in Nat
        /\ returned.buffer_full \in Nat /\ returned.out_of_memory \in Nat
        /\ returned.audit \in Nat
    BY <1>1 DEF Codes
  <1>p. /\ stats.processed \in Nat /\ batch[Consumer].processed \in Nat
        /\ HelperBatch.processed \in Nat /\ Processed \in Nat
        /\ Len(pending) \in Nat
        /\ stats.processed + batch[Consumer].processed + HelperBatch.processed
             = Processed + Len(pending)
    BY <1>0, <1>2, <1>3
  <1>d. /\ stats.dropped \in Nat /\ batch[Consumer].dropped \in Nat
        /\ HelperBatch.dropped \in Nat /\ returned.buffer_full \in Nat
        /\ Filtered \in Nat
        /\ stats.dropped + batch[Consumer].dropped + HelperBatch.dropped
             = returned.buffer_full + Filtered
    BY <1>0, <1>2, <1>3
  <1>e. /\ stats.errors \in Nat /\ batch[Consumer].errors \in Nat
        /\ HelperBatch.errors \in Nat /\ Lost \in Nat
        /\ returned.out_of_memory \in Nat /\ returned.audit \in Nat
        /\ stats.errors >= returned.out_of_memory + returned.audit + Lost
    BY <1>0, <1>2, <1>3
  <1> DEFINE Goal ==
        /\ stats'.processed + batch'[Consumer].processed + HelperBatch'.processed
             = Processed' + Len(pending')
        /\ stats'.dropped + batch'[Consumer].dropped + HelperBatch'.dropped
             = returned'.buffer_full + Filtered'
        /\ stats'.errors >= returned'.out_of_memory + returned'.audit + Lost'
  <1>4. SUFFICES Goal
    BY DEF FatesCounted, Processed, Filtered, Lost, Total
  <1>5. CASE UNCHANGED <<stats, returned, batch, lock, fate, pending>>
    BY <1>2, <1>5 DEF HelperBatch, Processed, Filtered, Lost, Number
  <1>6. ASSUME NEW p \in Producers, NEW from, NEW code \in Codes, NEW counter,
               Return(p, from, code, counter),
               code = "buffer_full" <=> counter = "dropped",
               code \in {"out_of_memory", "audit"} <=> counter = "errors",
               counter # "processed"
        PROVE  Goal
    <2>1. UNCHANGED <<batch, lock, fate, pending>>
      BY <1>6 DEF Return, cvars
    <2>2. /\ returned' = [returned EXCEPT ![code] = @ + 1]
          /\ \A c \in Tallies :
               stats'[c] = IF c = counter THEN stats[c] + 1 ELSE stats[c]
      BY <1>1, <1>6 DEF Return, CountTypes, Counters
    <2>3. /\ stats'.processed = stats.processed
          /\ stats'.dropped = stats.dropped + One(code = "buffer_full")
          /\ stats'.errors = stats.errors + One(code \in {"out_of_memory", "audit"})
      BY <1>1, <1>6, <2>2 DEF One, Tallies
    <2>4. /\ returned'.buffer_full = returned.buffer_full + One(code = "buffer_full")
          /\ returned'.out_of_memory = returned.out_of_memory + One(code = "out_of_memory")
          /\ returned'.audit = returned.audit + One(code = "audit")
      BY <1>1, <2>2 DEF One, CountTypes, Codes
    <2>5. One(code \in {"out_of_memory", "audit"}) =
             One(code = "out_of_memory") + One(code = "audit")
      BY DEF One
    <2>8. /\ One(code = "out_of_memory") \in Nat /\ One(code = "audit") \in Nat
          /\ One(code = "buffer_full") \in Nat
      BY DEF One
    <2>6. UNCHANGED <<Processed, Filtered, Lost, HelperBatch>>
      BY <2>1 DEF Processed, Filtered, Lost, Number, HelperBatch
    <2>7. /\ returned.buffer_full \in Nat /\ returned.out_of_memory \in Nat
          /\ returned.audit \in Nat
      BY <1>1 DEF Codes
    <2>a. stats'.processed + batch'[Consumer].processed + HelperBatch'.processed
              = Processed' + Len(pending')
      BY <1>p, <2>1, <2>3, <2>4, <2>5, <2>6, <2>7
    <2>b. stats'.dropped + batch'[Consumer].dropped + HelperBatch'.dropped
              = returned'.buffer_full + Filtered'
      BY <1>d, <2>1, <2>3, <2>4, <2>6, <2>8
    <2>c. stats'.errors >= returned'.out_of_memory + returned'.audit + Lost'
      <3>1. stats'.errors =
               stats.errors + (One(code = "out_of_memory") + One(code = "audit"))
        BY <2>3, <2>5
      <3> QED BY <1>e, <2>4, <2>6, <2>8, <3>1
    <2> QED BY <2>a, <2>b, <2>c
  <1>7. ASSUME NEW p \in Producers, Push(p) PROVE Goal
    <2>1. /\ UNCHANGED <<stats, returned, batch, lock, pending>>
          /\ fate' = Append(fate, "waiting")
      BY <1>7 DEF Push, cvars
    <2>2. UNCHANGED <<Processed, Filtered, Lost>>
      <3>1. /\ {"written", "lost", "helped"} \in SUBSET Settled
            /\ {"filtered"} \in SUBSET Settled
            /\ {"lost"} \in SUBSET Settled
        BY DEF Settled
      <3> QED BY <1>1, <2>1, <3>1, NumberAppended DEF Processed, Filtered, Lost
    <2> QED BY <1>2, <2>1, <2>2 DEF HelperBatch
  <1>8. ASSUME NEW p \in Producers, HelpLock(p) PROVE Goal
    <2>1. /\ UNCHANGED <<stats, returned, batch, fate, pending>>
          /\ lock = Nobody /\ lock' = p
      BY <1>8 DEF HelpLock, cvars
    <2>2. batch[p] = NoBatch /\ p # Nobody
      BY <2>1, ThreadsAssumption DEF CountInv, LockInv, Threads
    <2>3. UNCHANGED <<Processed, Filtered, Lost, HelperBatch>>
      BY <2>1, <2>2 DEF Processed, Filtered, Lost, Number, HelperBatch
    <2> QED BY <1>2, <2>1, <2>3
  <1>9. ASSUME NEW p \in Producers, HelpProcess(p) PROVE Goal
    <2>1. lock = p /\ lock' = p /\ p \in Threads /\ p # Consumer /\ p # Nobody
      BY <1>9, ThreadsAssumption
         DEF HelpProcess, pvars, CountInv, LockInv, Threads
    <2>2. PICK f \in {"filtered", "helped"} :
            Process(p, f, IF f = "filtered" THEN {"dropped"} ELSE {"processed"})
      BY <1>9 DEF HelpProcess
    <2>3. /\ UNCHANGED <<returned, pending, pushed, popped, out>>
          /\ stats' = stats \/ stats' = [stats EXCEPT !.errors = @ + 1]
      BY <1>9 DEF HelpProcess, cvars
    <2>4. /\ Processed' = Processed + One(f # "filtered")
          /\ Filtered' = Filtered + One(f = "filtered")
          /\ Lost' = Lost
      <3>1. /\ hold[p] \in 1 .. Len(fate) /\ fate[hold[p]] = "waiting"
            /\ f \in Settled
            /\ fate' = [fate EXCEPT ![hold[p]] = f]
        BY <1>1, <2>1, <2>2, <2>3, SettleFate DEF Settled
      <3>2. /\ Processed' = Processed + One(f # "filtered")
            /\ Filtered' = Filtered + One(f = "filtered")
            /\ Lost' = Lost + One(f = "lost")
        BY <1>1, <3>1, SettledCounts
      <3>3. One(f = "lost") = 0
        BY DEF One
      <3> QED BY <1>3, <3>2, <3>3
    <2>5. /\ HelperBatch'["processed"] = HelperBatch["processed"] + One(f # "filtered")
          /\ HelperBatch'["dropped"] = HelperBatch["dropped"] + One(f = "filtered")
          /\ batch'[Consumer] = batch[Consumer]
      <3>1. HelperBatch = batch[p] /\ HelperBatch' = batch'[p]
        BY <2>1 DEF HelperBatch
      <3> QED BY <1>1, <2>1, <2>2, <3>1, ProcessTallies, TheConsumer
                 DEF One, ConsumerIsAThread
    <2>6. /\ stats'.processed = stats.processed
          /\ stats'.dropped = stats.dropped
          /\ stats'.errors >= stats.errors
      BY <1>1, <2>3 DEF CountTypes, Counters, Tallies
    <2>7. \A b : One(b) \in Nat
      BY DEF One
    <2>8. /\ returned.out_of_memory \in Nat /\ returned.audit \in Nat
          /\ stats'.errors \in Int
      BY <1>1, <2>3 DEF Codes, CountTypes, Counters, Tallies
    <2>a. stats'.processed + batch'[Consumer].processed + HelperBatch'.processed
              = Processed' + Len(pending')
      <3>1. /\ stats'.processed = stats.processed /\ Len(pending') = Len(pending)
            /\ batch'[Consumer].processed = batch[Consumer].processed
        BY <2>3, <2>5, <2>6
      <3>2. PICK one \in Nat : one = One(f # "filtered")
        BY <2>7
      <3>3. /\ HelperBatch'.processed = HelperBatch.processed + one
            /\ Processed' = Processed + one
        BY <2>4, <2>5, <3>2
      <3>4. stats.processed + batch[Consumer].processed
                + (HelperBatch.processed + one)
              = (Processed + one) + Len(pending)
        BY <1>p, BothSidesMove
      <3> QED BY <3>1, <3>3, <3>4
    <2>b. stats'.dropped + batch'[Consumer].dropped + HelperBatch'.dropped
              = returned'.buffer_full + Filtered'
      <3>1. /\ stats'.dropped = stats.dropped
            /\ returned'.buffer_full = returned.buffer_full
            /\ batch'[Consumer].dropped = batch[Consumer].dropped
            /\ HelperBatch'.dropped = HelperBatch.dropped + One(f = "filtered")
            /\ Filtered' = Filtered + One(f = "filtered")
            /\ One(f = "filtered") \in Nat
        BY <2>3, <2>4, <2>5, <2>6, <2>7
      <3> QED BY <1>d, <3>1
    <2>c. stats'.errors >= returned'.out_of_memory + returned'.audit + Lost'
      BY <1>e, <2>3, <2>4, <2>5, <2>6, <2>7, <2>8
    <2> QED BY <2>a, <2>b, <2>c
  <1>10. ASSUME NEW p \in Producers, HelpDone(p) PROVE Goal
    <2>1. /\ lock = p /\ lock' = Nobody /\ p \in Threads /\ p # Consumer
          /\ p # Nobody
          /\ Counted(p) /\ UNCHANGED <<returned, fate, pending>>
      BY <1>10, ThreadsAssumption
         DEF HelpDone, PGoto, cvars, CountInv, LockInv, Threads
    <2>2. /\ \A c \in Tallies : HelperBatch[c] = batch[p][c] /\ HelperBatch'[c] = 0
          /\ batch'[Consumer] = batch[Consumer]
          /\ \A c \in Tallies : stats'[c] = stats[c] + HelperBatch[c]
      BY <1>1, <2>1, CountedTallies, TheConsumer
         DEF HelperBatch, NoBatch, Tallies, ConsumerIsAThread
    <2>3. UNCHANGED <<Processed, Filtered, Lost>>
      BY <2>1 DEF Processed, Filtered, Lost, Number
    <2>4. /\ returned.out_of_memory \in Nat /\ returned.audit \in Nat
      BY <1>1 DEF Codes
    <2>a. stats'.processed + batch'[Consumer].processed + HelperBatch'.processed
              = Processed' + Len(pending')
      BY <1>p, <2>1, <2>2, <2>3, <2>4 DEF Tallies
    <2>b. stats'.dropped + batch'[Consumer].dropped + HelperBatch'.dropped
              = returned'.buffer_full + Filtered'
      BY <1>d, <2>1, <2>2, <2>3, <2>4 DEF Tallies
    <2>c. stats'.errors >= returned'.out_of_memory + returned'.audit + Lost'
      BY <1>e, <2>1, <2>2, <2>3, <2>4 DEF Tallies
    <2> QED BY <2>a, <2>b, <2>c
  <1>11. ASSUME StageDrops \/ StageAccepts PROVE Goal
    <2>1. /\ Consumer \in Threads
          /\ UNCHANGED <<lock, returned, stats, pushed, popped, out>>
      BY <1>11 DEF StageDrops, StageAccepts, pvars, Threads
    <2>2. UNCHANGED HelperBatch
      <3>1. lock # Nobody => lock \in Threads \ {Consumer}
        BY TheConsumer DEF CountInv, LockInv, ConsumerIsAThread
      <3>2. \A u \in Threads \ {Consumer} : batch'[u] = batch[u]
        BY <1>1, <1>11, <2>1, ProcessTallies DEF StageDrops, StageAccepts
      <3> QED BY <2>1, <3>1, <3>2 DEF HelperBatch
    <2>3. CASE StageDrops
      <3>1. PICK counts \in {{"dropped"}, {"dropped", "errors"}} :
              Process(Consumer, "filtered", counts)
        BY <2>3 DEF StageDrops
      <3>2. UNCHANGED pending
        BY <2>3 DEF StageDrops, cvars
      <3>3. Processed' = Processed /\ Filtered' = Filtered + 1 /\ Lost' = Lost
        <4>1. /\ hold[Consumer] \in 1 .. Len(fate)
              /\ fate[hold[Consumer]] = "waiting" /\ "filtered" \in Settled
              /\ fate' = [fate EXCEPT ![hold[Consumer]] = "filtered"]
          BY <1>1, <2>1, <3>1, <3>2, SettleFate DEF Settled
        <4>2. /\ Processed' = Processed + One("filtered" # "filtered")
              /\ Filtered' = Filtered + One("filtered" = "filtered")
              /\ Lost' = Lost + One("filtered" = "lost")
          BY <1>1, <4>1, SettledCounts
        <4> QED BY <1>3, <4>2 DEF One
      <3>4. batch'[Consumer]["processed"] = batch[Consumer]["processed"]
            /\ batch'[Consumer]["dropped"] = batch[Consumer]["dropped"] + 1
        BY <1>1, <2>1, <3>1, ProcessTallies DEF One
      <3>a. stats'.processed + batch'[Consumer].processed + HelperBatch'.processed
                = Processed' + Len(pending')
        BY <1>p, <2>1, <2>2, <3>2, <3>3, <3>4
      <3>b. stats'.dropped + batch'[Consumer].dropped + HelperBatch'.dropped
                = returned'.buffer_full + Filtered'
        <4>1. /\ stats'.dropped = stats.dropped
              /\ returned'.buffer_full = returned.buffer_full
              /\ batch'[Consumer].dropped = batch[Consumer].dropped + 1
              /\ HelperBatch'.dropped = HelperBatch.dropped
              /\ Filtered' = Filtered + 1
          BY <2>1, <2>2, <3>3, <3>4
        <4> QED BY <1>d, <4>1
      <3>c. stats'.errors >= returned'.out_of_memory + returned'.audit + Lost'
        BY <1>e, <2>1, <2>2, <3>2, <3>3, <3>4
      <3> QED BY <3>a, <3>b, <3>c
    <2>4. CASE StageAccepts
      <3>1. Process(Consumer, "waiting", {"processed"})
        BY <2>4 DEF StageAccepts
      <3>2. fate' = fate /\ pending' = Append(pending, hold[Consumer])
        BY <1>1, <2>4, AcceptFate
      <3>3. /\ UNCHANGED <<Processed, Filtered, Lost>>
            /\ Len(pending') = Len(pending) + 1
        BY <1>1, <2>1, <3>2
           DEF Processed, Filtered, Lost, Number, FateInv, FateTypes
      <3>4. batch'[Consumer]["processed"] = batch[Consumer]["processed"] + 1
            /\ batch'[Consumer]["dropped"] = batch[Consumer]["dropped"]
        BY <1>1, <2>1, <3>1, ProcessTallies DEF One
      <3>a. stats'.processed + batch'[Consumer].processed + HelperBatch'.processed
                = Processed' + Len(pending')
        <4>1. /\ stats'.processed = stats.processed
              /\ batch'[Consumer].processed = batch[Consumer].processed + 1
              /\ HelperBatch'.processed = HelperBatch.processed
              /\ Processed' = Processed /\ Len(pending') = Len(pending) + 1
          BY <2>1, <2>2, <3>3, <3>4
        <4> DEFINE s == stats.processed  b == batch[Consumer].processed
                   h == HelperBatch.processed  r == Processed  l == Len(pending)
        <4>2. s \in Nat /\ b \in Nat /\ h \in Nat /\ r \in Nat /\ l \in Nat
          BY <1>p
        <4>3. s + b + h = r + l
          BY <1>p
        <4>4. /\ stats'.processed = s /\ batch'[Consumer].processed = b + 1
              /\ HelperBatch'.processed = h /\ Processed' = r
              /\ Len(pending') = l + 1
          BY <4>1
        <4> HIDE DEF s, b, h, r, l
        <4>5. s + (b + 1) + h = r + (l + 1)
          BY <4>2, <4>3
        <4> QED BY <4>4, <4>5
      <3>b. stats'.dropped + batch'[Consumer].dropped + HelperBatch'.dropped
                = returned'.buffer_full + Filtered'
        <4>1. /\ stats'.dropped = stats.dropped
              /\ returned'.buffer_full = returned.buffer_full
              /\ batch'[Consumer].dropped = batch[Consumer].dropped
              /\ HelperBatch'.dropped = HelperBatch.dropped /\ Filtered' = Filtered
          BY <2>1, <2>2, <3>3, <3>4
        <4> QED BY <1>d, <4>1
      <3>c. stats'.errors >= returned'.out_of_memory + returned'.audit + Lost'
        BY <1>e, <2>1, <2>2, <3>3, <3>4
      <3> QED BY <3>a, <3>b, <3>c
    <2> QED BY <1>11, <2>3, <2>4
  <1>12. ASSUME Write PROVE Goal
    <2>1. /\ UNCHANGED <<lock, returned, batch>> /\ pending # <<>>
          /\ pending' = Tail(pending)
      BY <1>12 DEF Write, pvars
    <2>2. PICK f \in {"written", "lost"} :
            /\ fate' = [fate EXCEPT ![Head(pending)] = f]
            /\ IF f = "lost" THEN stats' = [stats EXCEPT !.errors = @ + 1]
                             ELSE stats' = stats
      BY <1>12 DEF Write
    <2>3. Head(pending) \in 1 .. Len(fate) /\ fate[Head(pending)] = "waiting"
      BY <1>1, <1>12, WriteFate
    <2>4. /\ Processed' = Processed + 1 /\ Filtered' = Filtered
          /\ Lost' = Lost + One(f = "lost")
      <3>1. f \in Settled
        BY <2>2 DEF Settled
      <3>2. /\ Processed' = Processed + One(f # "filtered")
            /\ Filtered' = Filtered + One(f = "filtered")
            /\ Lost' = Lost + One(f = "lost")
        BY <1>1, <2>2, <2>3, <3>1, SettledCounts
      <3>3. One(f # "filtered") = 1 /\ One(f = "filtered") = 0
        BY DEF One
      <3> QED BY <1>3, <3>2, <3>3
    <2>5. Len(pending') = Len(pending) - 1
      BY <1>1, <2>1 DEF FateInv, FateTypes
    <2>6. /\ stats'.processed = stats.processed
          /\ stats'.dropped = stats.dropped
          /\ stats'.errors = stats.errors + One(f = "lost")
      BY <1>1, <2>2 DEF CountTypes, Counters, Tallies, One
    <2>7. UNCHANGED HelperBatch
      BY <2>1 DEF HelperBatch
    <2>8. /\ returned.out_of_memory \in Nat /\ returned.audit \in Nat
          /\ One(f = "lost") \in Nat
      BY <1>1 DEF Codes, One
    <2>a. stats'.processed + batch'[Consumer].processed + HelperBatch'.processed
              = Processed' + Len(pending')
      <3>1. /\ stats'.processed = stats.processed
            /\ batch'[Consumer].processed = batch[Consumer].processed
            /\ HelperBatch'.processed = HelperBatch.processed
            /\ Processed' = Processed + 1 /\ Len(pending') = Len(pending) - 1
        BY <2>1, <2>4, <2>5, <2>6, <2>7
      <3> QED BY <1>p, <3>1
    <2>b. stats'.dropped + batch'[Consumer].dropped + HelperBatch'.dropped
              = returned'.buffer_full + Filtered'
      <3>1. /\ stats'.dropped = stats.dropped
            /\ returned'.buffer_full = returned.buffer_full
            /\ batch'[Consumer].dropped = batch[Consumer].dropped
            /\ HelperBatch'.dropped = HelperBatch.dropped /\ Filtered' = Filtered
        BY <2>1, <2>4, <2>5, <2>6, <2>7
      <3> QED BY <1>d, <3>1
    <2>c. stats'.errors >= returned'.out_of_memory + returned'.audit + Lost'
      <3>1. /\ stats'.errors = stats.errors + One(f = "lost")
            /\ returned'.out_of_memory = returned.out_of_memory
            /\ returned'.audit = returned.audit
            /\ Lost' = Lost + One(f = "lost") /\ One(f = "lost") \in Nat
        BY <2>1, <2>4, <2>6, <2>8
      <3> QED BY <1>e, <3>1
    <2> QED BY <2>a, <2>b, <2>c
  <1>13. ASSUME BatchDone PROVE Goal
    <2>1. /\ Consumer \in Threads /\ Counted(Consumer)
          /\ UNCHANGED <<lock, returned, fate, pending>>
      BY <1>13 DEF BatchDone, pvars, Threads
    <2>2. /\ \A c \in Tallies : /\ batch'[Consumer][c] = 0
                                /\ stats'[c] = stats[c] + batch[Consumer][c]
          /\ \A u \in Threads \ {Consumer} : batch'[u] = batch[u]
      BY <1>1, <2>1, CountedTallies
    <2>3. UNCHANGED HelperBatch
      BY <2>1, <2>2, TheConsumer
         DEF HelperBatch, CountInv, LockInv, ConsumerIsAThread
    <2>4. UNCHANGED <<Processed, Filtered, Lost>>
      BY <2>1 DEF Processed, Filtered, Lost, Number
    <2>5. /\ returned.out_of_memory \in Nat /\ returned.audit \in Nat
      BY <1>1 DEF Codes
    <2>a. stats'.processed + batch'[Consumer].processed + HelperBatch'.processed
              = Processed' + Len(pending')
      BY <1>p, <2>1, <2>2, <2>3, <2>4, <2>5 DEF Tallies
    <2>b. stats'.dropped + batch'[Consumer].dropped + HelperBatch'.dropped
              = returned'.buffer_full + Filtered'
      BY <1>d, <2>1, <2>2, <2>3, <2>4, <2>5 DEF Tallies
    <2>c. stats'.errors >= returned'.out_of_memory + returned'.audit + Lost'
      BY <1>e, <2>1, <2>2, <2>3, <2>4, <2>5 DEF Tallies
    <2> QED BY <2>a, <2>b, <2>c
  <1>14. ASSUME NEW p \in Producers, Log(p) \/ LogStep(p) PROVE Goal
    <2>1. CASE \/ Log(p) \/ Alloc(p) \/ Route(p) \/ AuditAdmits(p)
               \/ PushAudit(p)
               \/ LoadConsumer(p) \/ PushFull(p)
               \/ HelpDeclined(p) \/ HelpWanted(p) \/ HelpPop(p)
      <3>1. UNCHANGED <<stats, returned, batch, lock, fate, pending>>
        BY <2>1
           DEF Log, Alloc, Route, AuditAdmits, PushAudit, LoadConsumer,
               PushFull, HelpDeclined, HelpWanted, HelpPop, Inside, pvars,
               cvars
      <3> QED BY <1>5, <3>1
    <2>2. CASE \/ AllocExhausted(p) \/ EncodingError(p) \/ AuditRefused(p)
               \/ CountAccepted(p) \/ Drop(p)
      <3>1. \E from, code, counter :
              /\ Return(p, from, code, counter) /\ code \in Codes
              /\ code = "buffer_full" <=> counter = "dropped"
              /\ code \in {"out_of_memory", "audit"} <=> counter = "errors"
              /\ counter # "processed"
        BY <2>2
           DEF AllocExhausted, EncodingError, AuditRefused, CountAccepted,
               Drop, Codes
      <3> QED BY <1>6, <3>1
    <2> QED BY <1>7, <1>8, <1>9, <1>10, <1>14, <2>1, <2>2 DEF LogStep
  <1>15. CASE Consume
    <2>1. CASE CheckShutdown \/ ConsumerPop \/ DrainDone
      <3>1. UNCHANGED <<stats, returned, batch, lock, fate, pending>>
        BY <2>1 DEF CheckShutdown, ConsumerPop, DrainDone, pvars, cvars
      <3> QED BY <1>5, <3>1
    <2> QED BY <1>11, <1>12, <1>13, <1>15, <2>1 DEF Consume
  <1>16. CASE AuditTake \/ AuditFails \/ Shutdown \/ UNCHANGED vars
    <2>1. UNCHANGED <<stats, returned, batch, lock, fate, pending>>
      BY <1>16 DEF AuditTake, AuditFails, Shutdown, vars, pvars, cvars
    <2> QED BY <1>5, <2>1
  <1> HIDE DEF Goal
  <1>17. Goal
    BY <1>14, <1>15, <1>16 DEF Next
  <1> QED BY <1>17

\* At the start everything is zero.
LEMMA InitCounts == Init => CountInv
  <1> SUFFICES ASSUME Init PROVE CountInv
    OBVIOUS
  <1>1. IInv /\ FateInv
    BY InitEstablishes, InitFate
  <1>2. CountTypes
    BY DEF Init, CountTypes, NoBatch, Tallies, Counters, Codes
  <1>3. LockInv /\ StopInv /\ NoneForgotten
    BY TheConsumer, ThreadsAssumption
       DEF Init, LockInv, StopInv, NoneForgotten, ConsumerIsAThread
  <1>4. CallsCounted
    <2>1. InCall = {} /\ Begun = {}
      BY DEF Init, InCall, Begun
    <2> QED BY <2>1, FS_EmptySet DEF Init, CallsCounted, Codes
  <1>5. FatesCounted
    <2>1. \A S : {i \in DOMAIN fate : fate[i] \in S} = {}
      BY DEF Init
    <2>2. \A S : Number(S) = 0
      BY <2>1, FS_EmptySet DEF Number
    <2>3. Len(pending) = 0 /\ HelperBatch = NoBatch /\ batch[Consumer] = NoBatch
      BY TheConsumer DEF Init, HelperBatch, ConsumerIsAThread
    <2> QED BY <2>2, <2>3 DEF Init, FatesCounted, Total, NoBatch, Codes
  <1> QED BY <1>1, <1>2, <1>3, <1>4, <1>5 DEF CountInv

\* Every step preserves the invariant.
LEMMA StepCounts == CountInv /\ [Next]_vars => CountInv'
  <1> SUFFICES ASSUME CountInv, [Next]_vars PROVE CountInv'
    OBVIOUS
  <1>1. IInv' /\ FateInv'
    BY StepConserves, StepsDeliver DEF CountInv
  <1>2. CountTypes' /\ LockInv' /\ StopInv' /\ NoneForgotten'
    BY TypesStep, LockStep, StopStep, HandsStep
  <1>3. CallsCounted' /\ FatesCounted'
    BY CallsStep, FatesStep
  <1> QED BY <1>1, <1>2, <1>3 DEF CountInv

\* When the consumer has stopped nothing is in anybody's hands.
LEMMA StoppedBalances ==
  ASSUME CountInv
  PROVE  CountersBalance
  <1> SUFFICES ASSUME cpc = "stopped" PROVE CountersBalance
    BY DEF CountersBalance
  <1>1. /\ pending = <<>> /\ batch[Consumer] = NoBatch /\ popped = pushed
        /\ \A p \in Producers : ppc[p] = "idle"
        /\ \A t \in Threads : hold[t] = 0
    BY DEF CountInv, StopInv, FateInv, FateTypes, Threads
  <1>2. InCall = {} /\ Cardinality(InCall) = 0
    <2>1. InCall = {}
      BY <1>1 DEF InCall
    <2> QED BY <2>1, FS_EmptySet
  <1>3. HelperBatch = NoBatch
    BY <1>1 DEF CountInv, LockInv, HelperBatch
  <1>5. /\ stats.processed \in Nat /\ stats.dropped \in Nat
        /\ stats.errors \in Nat
        /\ NoBatch.processed = 0 /\ NoBatch.dropped = 0
        /\ returned.ok \in Nat /\ returned.out_of_memory \in Nat
        /\ returned.encoding \in Nat
        /\ returned.audit \in Nat /\ returned.buffer_full \in Nat
    BY DEF CountInv, CountTypes, Counters, Tallies, Codes, NoBatch
  <1>6. /\ Cardinality(Begun) =
             returned.ok + returned.out_of_memory + returned.encoding
               + returned.audit + returned.buffer_full
        /\ stats.accepted = returned.ok
    BY <1>2, <1>5 DEF CountInv, CallsCounted
  <1>7. /\ stats.processed = Number({"written", "lost", "helped"})
        /\ stats.dropped = returned.buffer_full + Number({"filtered"})
        /\ stats.errors >= returned.out_of_memory + returned.audit + Number({"lost"})
    <2>1. /\ Total("processed") = stats.processed
          /\ Total("dropped") = stats.dropped
          /\ Len(pending) = 0
      BY <1>1, <1>3, <1>5 DEF Total
    <2>2. Number({"written", "lost", "helped"}) \in Nat
      BY NumberIsANumber DEF CountInv
    <2> QED BY <2>1, <2>2 DEF CountInv, FatesCounted
  <1>8. Number(Settled) = pushed
    <2>1. /\ DOMAIN fate = 1 .. pushed /\ pushed \in Nat
          /\ \A i \in 1 .. pushed : fate[i] \in Fates
      BY DEF CountInv, FateInv, FateTypes
    <2>2. \A i \in 1 .. pushed : fate[i] # "waiting"
      BY <1>1, <2>1 DEF CountInv, NoneForgotten
    <2>3. {i \in DOMAIN fate : fate[i] \in Settled} = 1 .. pushed
      BY <2>1, <2>2 DEF Fates
    <2>4. Cardinality(1 .. pushed) = pushed
      BY <2>1, FS_Interval
    <2> QED BY <2>3, <2>4 DEF Number
  <1> QED BY <1>6, <1>7, <1>8 DEF CountersBalance

(* For any producers, sizes and number of calls: once the consumer has     *)
(* stopped, the counters of the control plane agree with what callers were *)
(* told and with what became of the records (ControlPlaneStats).           *)
THEOREM CountersAddUp == Spec => []CountersBalance
  <1>1. CountInv => CountersBalance
    BY StoppedBalances
  <1> QED BY <1>1, InitCounts, StepCounts, PTL DEF Spec

=============================================================================
