------------------------------ MODULE LogPath ------------------------------
(***************************************************************************)
(* A record's way through the engine: dologger_log (core/src/ffi.rs) takes *)
(* a record from the pool and pushes it to the ring, or to the audit queue;*)
(* the consumer thread (core/src/pipeline/scheduler.rs) drains the ring in *)
(* batches, runs the stages (stages.rs) and writes to the configured sinks;*)
(* a producer that finds the ring full may drain a few records to the      *)
(* console itself (CooperativeHelping in core/src/lib.rs).                 *)
(*                                                                         *)
(* The pool is a number of free records and the ring a queue: RecordPool   *)
(* and RingBuffer refine these.  What a caller observes of the ring's      *)
(* cursors is kept: they are loaded one after the other, so that a full    *)
(* ring may be seen that is not full.  The i-th record pushed is named i.  *)
(* Batch limits are abstracted: a drain may end after any record.  The     *)
(* engine runs the pipeline without an I/O pool; the shared-memory mirror  *)
(* is absent here, and the audit pipeline is a queue (see AuditPipeline).  *)
(***************************************************************************)
EXTENDS Integers, FiniteSets, SequencesExt

CONSTANTS
  Producers,      \* threads that call dologger_log
  Consumer,       \* the pipeline's thread
  Capacity,       \* config.ring_buffer_size: of the ring and of the pool
  AuditCapacity,  \* of the audit queue; 0: enable_audit is off
  HelpAt,         \* fill, in records, from which try_help helps (90%)
  MaxCalls,       \* bound: MaxCalls[p] calls of dologger_log by p
  Nobody          \* the helping sink's mutex is free

ASSUME CapacityAssumption == Capacity \in Nat \ {0}
ASSUME AuditAssumption    == AuditCapacity \in Nat
ASSUME HelpAssumption     == HelpAt \in 1 .. Capacity
ASSUME CallsAssumption    == MaxCalls \in [Producers -> Nat]
ASSUME ThreadsAssumption  == /\ IsFiniteSet(Producers)
                             /\ Consumer \notin Producers
                             /\ Nobody \notin Producers

Threads == Producers \cup {Consumer}
Codes   == {"ok", "out_of_memory", "encoding", "audit", "buffer_full"}
NoBatch == [processed |-> 0, dropped |-> 0, errors |-> 0]

VARIABLES
  helping,    \* coop_helping is there; if it is, plugins are not
  free,       \* records on the pool's free stack
  pushed,     \* producer_sequence of the ring
  popped,     \* consumer_sequence of the ring
  audit,      \* records in the audit queue
  audit_state,\* of the audit consumer: "runs", "failed" or "gone"
  ppc,        \* where each producer is in dologger_log
  calls,      \* calls it has begun
  seen,       \* consumer_sequence as it loaded it
  lock,       \* who holds the mutex of the helping sink
  cpc,        \* where the consumer is in consumer_loop
  final,      \* its drain is the last one
  pending,    \* pending_writes
  hold,       \* the record whose drain callback a thread runs, 0 if none
  batch,      \* what a thread has counted in its current drain
  shutdown,   \* Pipeline::shutdown has been called
  fate,       \* what became of each record pushed
  out,        \* what the configured sinks were handed, in order
  stats,      \* ControlPlaneStats
  returned    \* how many calls returned each code

pvars == <<ppc, calls, seen, lock>>
cvars == <<cpc, final, pending, shutdown>>
avars == <<audit, audit_state, helping>>
vars  == <<free, pushed, popped, pvars, cvars, avars, hold, batch, fate, out,
           stats, returned>>

PoolRecords_Mutant_Spare == Capacity + 1

\* Engine::init gives the pool the capacity of the ring.
PoolRecords == Capacity

Init ==
  /\ helping \in BOOLEAN
  /\ free = PoolRecords
  /\ pushed = 0
  /\ popped = 0
  /\ audit = 0
  /\ audit_state = "runs"
  /\ ppc = [p \in Producers |-> "idle"]
  /\ calls = [p \in Producers |-> 0]
  /\ seen = [p \in Producers |-> 0]
  /\ lock = Nobody
  /\ cpc = "loop"
  /\ final = FALSE
  /\ pending = <<>>
  /\ hold = [t \in Threads |-> 0]
  /\ batch = [t \in Threads |-> NoBatch]
  /\ shutdown = FALSE
  /\ fate = <<>>
  /\ out = <<>>
  /\ stats = [accepted |-> 0, processed |-> 0, dropped |-> 0, errors |-> 0]
  /\ returned = [c \in Codes |-> 0]

PGoto(p, from, to) ==
  /\ ppc[p] = from
  /\ ppc' = [ppc EXCEPT ![p] = to]

CGoto(from, to) ==
  /\ cpc = from
  /\ cpc' = to

\* The counter of that name goes up and the call returns the code.
Return(p, from, code, counter) ==
  /\ PGoto(p, from, "idle")
  /\ seen' = [seen EXCEPT ![p] = 0]
  /\ returned' = [returned EXCEPT ![code] = @ + 1]
  /\ stats' = [c \in DOMAIN stats |->
                 IF c = counter THEN stats[c] + 1 ELSE stats[c]]
  /\ UNCHANGED <<pushed, popped, calls, lock, cvars, avars, hold, batch, fate,
                 out>>

Inside == <<pushed, popped, calls, lock, cvars, avars, hold, batch, fate, out,
            stats, returned>>

-----------------------------------------------------------------------------
(* dologger_log                                                            *)

Log(p) ==
  /\ calls[p] < MaxCalls[p]
  /\ ~shutdown
  /\ PGoto(p, "idle", "alloc")
  /\ calls' = [calls EXCEPT ![p] = @ + 1]
  /\ UNCHANGED <<free, pushed, popped, seen, lock, cvars, avars, hold, batch,
                 fate, out, stats, returned>>

Alloc(p) ==
  /\ free > 0
  /\ PGoto(p, "alloc", "fill")
  /\ free' = free - 1
  /\ UNCHANGED <<seen, Inside>>

AllocExhausted(p) ==
  /\ free = 0
  /\ Return(p, "alloc", "out_of_memory", "errors")
  /\ UNCHANGED free

\* The message or the file name is not UTF-8: nothing is counted.
EncodingError_Mutant_NotFreed(p) ==
  /\ Return(p, "fill", "encoding", "none")
  /\ UNCHANGED free

EncodingError(p) ==
  /\ Return(p, "fill", "encoding", "none")
  /\ free' = free + 1

\* An AUDIT record goes to the audit pipeline, any other to the ring.
Route(p) ==
  /\ \/ PGoto(p, "fill", "push")
     \/ PGoto(p, "fill", "audit")
  /\ UNCHANGED <<free, seen, Inside>>

\* push_audit sees that the pipeline has not failed, ...
AuditAdmits(p) ==
  /\ AuditCapacity > 0 /\ audit_state = "runs"
  /\ PGoto(p, "audit", "admitted")
  /\ UNCHANGED <<free, seen, Inside>>

\* ... waits for room ...
PushAudit(p) ==
  /\ audit < AuditCapacity
  /\ PGoto(p, "admitted", "accepted")
  /\ audit' = audit + 1
  /\ UNCHANGED <<free, pushed, popped, calls, seen, lock, cvars, audit_state,
                 helping, hold, batch, fate, out, stats, returned>>

\* ... or fails, with the pipeline or for want of one.
AuditRefused(p) ==
  /\ \/ /\ AuditCapacity = 0 \/ audit_state # "runs"
        /\ Return(p, "audit", "audit", "errors")
     \/ /\ audit = AuditCapacity /\ audit_state # "runs"
        /\ Return(p, "admitted", "audit", "errors")
  /\ free' = free + 1

\* RingBuffer::try_push and len load consumer_sequence first ...
LoadConsumer(p) ==
  /\ \E from \in {"push", "push_again", "help"} :
       PGoto(p, from, CASE from = "push"       -> "push_seen"
                        [] from = "push_again" -> "again_seen"
                        [] from = "help"       -> "help_seen")
  /\ seen' = [seen EXCEPT ![p] = popped]
  /\ UNCHANGED <<free, Inside>>

\* ... and then producer_sequence.
Apparent(p) == pushed - seen[p]

Push(p) ==
  /\ Apparent(p) < Capacity
  /\ \E from \in {"push_seen", "again_seen"} : PGoto(p, from, "accepted")
  /\ pushed' = pushed + 1
  /\ fate' = Append(fate, "waiting")
  /\ UNCHANGED <<free, popped, calls, seen, lock, cvars, avars, hold, batch,
                 out, stats, returned>>

PushFull(p) ==
  /\ Apparent(p) >= Capacity
  /\ \E from \in {"push_seen", "again_seen"} :
       PGoto(p, from, IF helping /\ from = "push_seen" THEN "help" ELSE "drop")
  /\ UNCHANGED <<free, seen, Inside>>

CountAccepted(p) ==
  /\ Return(p, "accepted", "ok", "accepted")
  /\ UNCHANGED free

Drop_Mutant_Uncounted(p) ==
  /\ Return(p, "drop", "buffer_full", "none")
  /\ free' = free + 1

Drop(p) ==
  /\ Return(p, "drop", "buffer_full", "dropped")
  /\ free' = free + 1

-----------------------------------------------------------------------------
(* CooperativeHelping::try_help                                            *)

HelpDeclined(p) ==
  /\ Apparent(p) < HelpAt
  /\ PGoto(p, "help_seen", "drop")
  /\ UNCHANGED <<free, seen, Inside>>

HelpWanted(p) ==
  /\ Apparent(p) >= HelpAt
  /\ PGoto(p, "help_seen", "lock")
  /\ UNCHANGED <<free, seen, Inside>>

HelpLock(p) ==
  /\ lock = Nobody
  /\ PGoto(p, "lock", "helping")
  /\ lock' = p
  /\ UNCHANGED <<free, pushed, popped, calls, seen, cvars, avars, hold, batch,
                 fate, out, stats, returned>>

\* A drain claims the oldest record of the ring.
Pop(t) ==
  /\ hold[t] = 0
  /\ popped < pushed
  /\ popped' = popped + 1
  /\ hold' = [hold EXCEPT ![t] = popped + 1]

\* The callback ends: the record has met fate f, or waits to be written, and
\* goes back to the pool.
Process(t, f, counts) ==
  /\ hold[t] # 0
  /\ hold' = [hold EXCEPT ![t] = 0]
  /\ fate' = [fate EXCEPT ![hold[t]] = f]
  /\ free' = free + 1
  /\ batch' = [batch EXCEPT
                 ![t] = [c \in DOMAIN @ |->
                           IF c \in counts THEN @[c] + 1 ELSE @[c]]]

HelpPop(p) ==
  /\ ppc[p] = "helping"
  /\ Pop(p)
  /\ UNCHANGED <<free, pushed, pvars, cvars, avars, batch, fate, out, stats,
                 returned>>

\* The helper applies the level and the rate limit and writes to the console;
\* an error of the console is counted at once.
HelpProcess(p) ==
  /\ ppc[p] = "helping"
  /\ \/ Process(p, "filtered", {"dropped"}) /\ UNCHANGED stats
     \/ Process(p, "helped", {"processed"}) /\ UNCHANGED stats
     \/ /\ Process(p, "helped", {"processed"})
        /\ stats' = [stats EXCEPT !.errors = @ + 1]
  /\ UNCHANGED <<pushed, popped, pvars, cvars, avars, out, returned>>

\* record_batch
Counted(t) ==
  /\ stats' = [c \in DOMAIN stats |->
                 IF c \in DOMAIN batch[t] THEN stats[c] + batch[t][c]
                                          ELSE stats[c]]
  /\ batch' = [batch EXCEPT ![t] = NoBatch]

Drained(t) == batch[t].processed + batch[t].dropped

HelpDone_Mutant_UntilHelped(p) ==
  /\ hold[p] = 0
  /\ Drained(p) > 0
  /\ PGoto(p, "helping", "push_again")
  /\ lock' = Nobody
  /\ Counted(p)
  /\ UNCHANGED <<free, pushed, popped, calls, seen, cvars, avars, hold, fate,
                 out, returned>>

\* drain_helping ends at any record.  A helper that drained something tries its
\* own push again.
HelpDone(p) ==
  /\ hold[p] = 0
  /\ PGoto(p, "helping", IF Drained(p) > 0 THEN "push_again" ELSE "drop")
  /\ lock' = Nobody
  /\ Counted(p)
  /\ UNCHANGED <<free, pushed, popped, calls, seen, cvars, avars, hold, fate,
                 out, returned>>

-----------------------------------------------------------------------------
(* consumer_loop                                                           *)

CheckShutdown ==
  /\ CGoto("loop", "drain")
  /\ final' = shutdown
  /\ UNCHANGED <<free, pushed, popped, pvars, pending, shutdown, avars, hold,
                 batch, fate, out, stats, returned>>

ConsumerPop ==
  /\ cpc = "drain"
  /\ Pop(Consumer)
  /\ UNCHANGED <<free, pushed, pvars, cvars, avars, batch, fate, out, stats,
                 returned>>

\* run_pipeline drops the record, or a plugin aborts it.
StageDrops ==
  /\ \/ Process(Consumer, "filtered", {"dropped"})
     \/ ~helping /\ Process(Consumer, "filtered", {"dropped", "errors"})
  /\ UNCHANGED <<pushed, popped, pvars, cvars, avars, out, stats, returned>>

\* run_pipeline accepts it: it is formatted and will be written when the
\* whole batch has been drained.
StageAccepts_Mutant_Reversed ==
  /\ Process(Consumer, "waiting", {"processed"})
  /\ pending' = <<hold[Consumer]>> \o pending
  /\ UNCHANGED <<pushed, popped, pvars, cpc, final, shutdown, avars, out,
                 stats, returned>>

StageAccepts ==
  /\ Process(Consumer, "waiting", {"processed"})
  /\ pending' = Append(pending, hold[Consumer])
  /\ UNCHANGED <<pushed, popped, pvars, cpc, final, shutdown, avars, out,
                 stats, returned>>

DrainDone_Mutant_OneBatch ==
  /\ hold[Consumer] = 0
  /\ CGoto("drain", "write")
  /\ UNCHANGED <<free, pushed, popped, pvars, final, pending, shutdown, avars,
                 hold, batch, fate, out, stats, returned>>

\* A drain goes on until the ring is empty or it has its batch; the last one
\* has no batch limit.
DrainDone ==
  /\ hold[Consumer] = 0
  /\ popped = pushed \/ (~final /\ Drained(Consumer) > 0)
  /\ CGoto("drain", "write")
  /\ UNCHANGED <<free, pushed, popped, pvars, final, pending, shutdown, avars,
                 hold, batch, fate, out, stats, returned>>

\* dispatch_write of the oldest pending record; an error is counted and the
\* record is gone.
Write ==
  /\ cpc = "write"
  /\ pending # <<>>
  /\ pending' = Tail(pending)
  /\ out' = Append(out, Head(pending))
  /\ \/ /\ fate' = [fate EXCEPT ![Head(pending)] = "written"]
        /\ UNCHANGED stats
     \/ /\ fate' = [fate EXCEPT ![Head(pending)] = "lost"]
        /\ stats' = [stats EXCEPT !.errors = @ + 1]
  /\ UNCHANGED <<free, pushed, popped, pvars, cpc, final, shutdown, avars,
                 hold, batch, returned>>

BatchDone_Mutant_KeepsLooping ==
  /\ pending = <<>>
  /\ CGoto("write", "loop")
  /\ Counted(Consumer)
  /\ UNCHANGED <<free, pushed, popped, pvars, final, pending, shutdown, avars,
                 hold, fate, out, returned>>

BatchDone ==
  /\ pending = <<>>
  /\ CGoto("write", IF final THEN "stopped" ELSE "loop")
  /\ Counted(Consumer)
  /\ UNCHANGED <<free, pushed, popped, pvars, final, pending, shutdown, avars,
                 hold, fate, out, returned>>

-----------------------------------------------------------------------------
(* The audit pipeline, and the end                                         *)

AuditTake ==
  /\ audit_state # "gone"
  /\ audit > 0
  /\ audit' = audit - 1
  /\ free' = free + 1
  /\ UNCHANGED <<pushed, popped, pvars, cvars, audit_state, helping, hold,
                 batch, fate, out, stats, returned>>

\* A failure ends the audit consumer, after one last drain.
AuditFails ==
  /\ AuditCapacity > 0
  /\ \/ audit_state = "runs" /\ audit_state' = "failed"
     \/ audit_state = "failed" /\ audit = 0 /\ audit_state' = "gone"
  /\ UNCHANGED <<free, pushed, popped, pvars, cvars, audit, helping, hold,
                 batch, fate, out, stats, returned>>

\* Engine::shutdown takes &mut self and dologger_shutdown destroys the
\* handle: no call is under way.  The audit pipeline is shut down first, and
\* drains its queue if its consumer is still there.
Shutdown ==
  /\ ~shutdown
  /\ \A p \in Producers : ppc[p] = "idle"
  /\ audit = 0 \/ audit_state = "gone"
  /\ shutdown' = TRUE
  /\ UNCHANGED <<free, pushed, popped, pvars, cpc, final, pending, avars, hold,
                 batch, fate, out, stats, returned>>

-----------------------------------------------------------------------------

LogStep(p) ==
  \/ Alloc(p) \/ AllocExhausted(p) \/ EncodingError(p) \/ Route(p)
  \/ AuditAdmits(p) \/ PushAudit(p) \/ AuditRefused(p)
  \/ LoadConsumer(p) \/ Push(p) \/ PushFull(p)
  \/ CountAccepted(p) \/ Drop(p)
  \/ HelpDeclined(p) \/ HelpWanted(p) \/ HelpLock(p)
  \/ HelpPop(p) \/ HelpProcess(p) \/ HelpDone(p)

Consume ==
  \/ CheckShutdown \/ ConsumerPop \/ StageDrops \/ StageAccepts
  \/ DrainDone \/ Write \/ BatchDone

Next ==
  \/ \E p \in Producers : Log(p) \/ LogStep(p)
  \/ Consume
  \/ AuditTake \/ AuditFails \/ Shutdown

Spec == Init /\ [][Next]_vars

\* Threads are scheduled.
Fairness ==
  /\ \A p \in Producers : WF_vars(LogStep(p))
  /\ WF_vars(Consume)
  /\ WF_vars(AuditTake)

FairSpec == Spec /\ Fairness

-----------------------------------------------------------------------------
(* Properties                                                              *)

Owning == {"fill", "audit", "admitted", "push", "push_seen", "help",
           "help_seen", "lock", "helping", "push_again", "again_seen", "drop"}

TypeOK ==
  /\ helping \in BOOLEAN
  /\ free \in 0 .. Capacity
  /\ pushed \in Nat /\ popped \in 0 .. pushed
  /\ audit \in 0 .. AuditCapacity
  /\ audit_state \in {"runs", "failed", "gone"}
  /\ ppc \in [Producers -> Owning \cup {"idle", "alloc", "accepted"}]
  /\ calls \in [Producers -> Nat]
  /\ \A p \in Producers : calls[p] <= MaxCalls[p]
  /\ seen \in [Producers -> 0 .. popped]
  /\ lock \in Producers \cup {Nobody}
  /\ cpc \in {"loop", "drain", "write", "stopped"}
  /\ final \in BOOLEAN
  /\ pending \in Seq(1 .. popped)
  /\ hold \in [Threads -> 0 .. popped]
  /\ batch \in [Threads -> [processed : Nat, dropped : Nat, errors : Nat]]
  /\ shutdown \in BOOLEAN
  /\ Len(fate) = pushed
  /\ out \in Seq(1 .. popped)
  /\ stats \in [{"accepted", "processed", "dropped", "errors"} -> Nat]
  /\ returned \in [Codes -> Nat]

Owners == {p \in Producers : ppc[p] \in Owning}
Busy   == {t \in Threads : hold[t] # 0}

\* Every record of the pool is in one place: free, with the caller of
\* dologger_log, in a ring, or with the thread that processes it.  No path
\* through dologger_log, try_help or the consumer loses one or frees it twice.
RecordsConserved ==
  free + Cardinality(Owners) + (pushed - popped) + Cardinality(Busy) + audit
    = Capacity

\* The pool has no more records than the ring has slots, so that a record that
\* is being pushed always has room: a ring reported as full (BUFFER_FULL, and
\* the only trigger of cooperative helping) never is; the pool runs out first.
FullIsSpurious == Owners # {} => pushed - popped < Capacity

\* The calls of dologger_log begun: <<p, n>> is the n-th of producer p.
Begun == UNION {{p} \X (1 .. calls[p]) : p \in Producers}

Settled == {"written", "lost", "filtered", "helped"}
Number(fates) == Cardinality({i \in DOMAIN fate : fate[i] \in fates})

\* Once the consumer has stopped the counters of the control plane tell the
\* truth: calls, return codes and the fates of the records all add up.
CountersBalance ==
  cpc = "stopped" =>
    /\ Cardinality(Begun) =
         returned.ok + returned.out_of_memory + returned.encoding
           + returned.audit + returned.buffer_full
    /\ stats.accepted = returned.ok
    /\ stats.processed = Number({"written", "lost", "helped"})
    /\ stats.dropped = returned.buffer_full + Number({"filtered"})
    /\ stats.errors >=
         returned.out_of_memory + returned.audit + Number({"lost"})
    /\ Number(Settled) = pushed

\* Each record accepted meets one fate, once, and the configured sinks are
\* handed records in the order in which the ring accepted them, even when
\* helpers process others in between.
Delivery == INSTANCE LogDelivery WITH
  written <- IF out = <<>> THEN 0 ELSE Last(out)

ImplementsLogDelivery == Delivery!Spec

\* dologger_log returns: neither a full audit queue nor a helper that finds
\* nothing left to drain blocks the caller for ever.
EveryCallReturns == \A p \in Producers : ppc[p] # "idle" ~> ppc[p] = "idle"

LastRecord == SumFunction(MaxCalls)   \* bounds the run, not the code

\* Every record accepted is written, helped, or dropped by a stage in the end,
\* also when the engine shuts down meanwhile.
EveryRecordSettles ==
  \A i \in 1 .. LastRecord :
    pushed >= i ~> Len(fate) >= i /\ fate[i] \in Settled

\* Pipeline::shutdown returns: the consumer drains the ring and ends.
ShutdownCompletes == shutdown ~> cpc = "stopped"

\* At 90% occupancy producers help drain the ring before they push or fail:
\* a call that is turned away for want of records did not find the ring that
\* full.
HelpsBeforeFailing ==
  [][\A p \in Producers :
       helping /\ AllocExhausted(p) => pushed - popped < HelpAt]_vars

=============================================================================
