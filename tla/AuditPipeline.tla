--------------------------- MODULE AuditPipeline ---------------------------
(***************************************************************************)
(* The isolated AUDIT pipeline of core/src/security/audit.rs: producers    *)
(* that block in push_audit, and the one consumer thread, which writes     *)
(* every record to the WORM file (WormSink), to the security file          *)
(* (core/src/sink/security.rs) and to the signature sidecar, and stops     *)
(* the pipeline at the first persistence error.                            *)
(*                                                                         *)
(* The ring is a bounded queue here: RingBuffer shows that it implements   *)
(* BoundedFifo.  Batch limits are abstracted: a drain may end after any    *)
(* record.  The external anchor, hashing and signing have no effect on     *)
(* what is persisted and are left out, as is the record pool (RecordPool). *)
(***************************************************************************)
EXTENDS WormSink, SequenceTheorems, TLAPS

CONSTANTS
  Producers,      \* threads that call push_audit
  RingCapacity,   \* slots of the audit ring
  MaxPushes,      \* bound: calls of push_audit by each producer
  Signed          \* signature_enabled: there is a sidecar

ASSUME RingCapacityAssumption == RingCapacity \in Nat \ {0}
ASSUME MaxPushesAssumption    == MaxPushes \in Nat
ASSUME SignedAssumption       == Signed \in BOOLEAN

Items == Producers \X (1 .. MaxPushes)

ASSUME NoneAssumption == None \notin Items

VARIABLES
  ring,        \* the audit ring
  shutdown,    \* AtomicBool shutdown
  failed,      \* AtomicBool failed
  ppc,         \* where each producer is in push_audit
  pushes,      \* calls each producer has begun
  cpc,         \* where the consumer is
  final,       \* it has left its loop: the drain is the last one
  item,        \* the record it is processing
  prev_lsn,    \* LSN of the last record persisted everywhere
  prev_hash,   \* link to that record
  security,    \* the security file
  sidecar      \* the signature sidecar

qvars == <<ring, shutdown, failed, ppc, pushes>>
cvars == <<cpc, final, item, prev_lsn, prev_hash>>
fvars == <<security, sidecar>>
vars  == <<wvars, qvars, cvars, fvars>>

Line(n) == [lsn |-> n, layer |-> "buffer"]

Init ==
  /\ WormInit
  /\ ring = <<>>
  /\ shutdown = FALSE
  /\ failed = FALSE
  /\ ppc = [p \in Producers |-> "idle"]
  /\ pushes = [p \in Producers |-> 0]
  /\ cpc = "loop"
  /\ final = FALSE
  /\ item = None
  /\ prev_lsn = 0
  /\ prev_hash = <<None, 0>>   \* derived from the hash [0u8; 32] and LSN 0
  /\ security = <<>>
  /\ sidecar = <<>>

PGoto(p, from, to) ==
  /\ ppc[p] = from
  /\ ppc' = [ppc EXCEPT ![p] = to]

CGoto(from, to) ==
  /\ cpc = from
  /\ cpc' = to

-----------------------------------------------------------------------------
(* push_audit and shutdown                                                 *)

Stopping == shutdown \/ failed

\* The flags are looked at once before the first attempt ...
PushAudit(p) ==
  /\ pushes[p] < MaxPushes
  /\ PGoto(p, "idle", IF Stopping THEN "idle" ELSE "try")
  /\ pushes' = [pushes EXCEPT ![p] = @ + 1]
  /\ UNCHANGED <<wvars, ring, shutdown, failed, cvars, fvars>>

TryPush(p) ==
  /\ Len(ring) < RingCapacity
  /\ PGoto(p, "try", "idle")
  /\ ring' = Append(ring, <<p, pushes[p]>>)
  /\ UNCHANGED <<wvars, shutdown, failed, pushes, cvars, fvars>>

\* try_push compares two cursors read one after the other (RingBuffer), so
\* that it may report a full ring that has room again or never was full.
TryPushFull(p) ==
  /\ PGoto(p, "try", "full")
  /\ UNCHANGED <<wvars, ring, shutdown, failed, pushes, cvars, fvars>>

\* ... and again after every attempt that found the ring full.
GiveUpOrSpin_Mutant_SpinOnly(p) ==
  /\ PGoto(p, "full", "try")
  /\ UNCHANGED <<wvars, ring, shutdown, failed, pushes, cvars, fvars>>

GiveUpOrSpin(p) ==
  /\ PGoto(p, "full", IF Stopping THEN "idle" ELSE "try")
  /\ UNCHANGED <<wvars, ring, shutdown, failed, pushes, cvars, fvars>>

\* AuditPipeline::shutdown takes &mut self: no push_audit is under way.
Shutdown ==
  /\ ~shutdown
  /\ \A p \in Producers : ppc[p] = "idle"
  /\ shutdown' = TRUE
  /\ UNCHANGED <<wvars, ring, failed, ppc, pushes, cvars, fvars>>

-----------------------------------------------------------------------------
(* audit_consumer_loop                                                     *)

CheckShutdown_Mutant_FailureOnly ==
  /\ CGoto("loop", "drain")
  /\ final' = failed
  /\ UNCHANGED <<wvars, qvars, item, prev_lsn, prev_hash, fvars>>

CheckShutdown ==
  /\ CGoto("loop", "drain")
  /\ final' = shutdown
  /\ UNCHANGED <<wvars, qvars, item, prev_lsn, prev_hash, fvars>>

DrainEmpty ==
  /\ ring = <<>>
  /\ CGoto("drain", IF final THEN "close_sidecar" ELSE "loop")
  /\ UNCHANGED <<wvars, qvars, final, item, prev_lsn, prev_hash, fvars>>

\* After a record the drain goes on or, but for the last one, has its batch.
AfterRecord == IF final THEN {"drain"} ELSE {"drain", "loop"}

DiscardRecord ==
  /\ failed
  /\ ring # <<>>
  /\ cpc = "drain"
  /\ cpc' \in AfterRecord
  /\ ring' = Tail(ring)
  /\ UNCHANGED <<wvars, shutdown, failed, ppc, pushes,
                 final, item, prev_lsn, prev_hash, fvars>>

TakeRecord_Mutant_IgnoreFailed ==
  /\ ring # <<>>
  /\ CGoto("drain", "worm")
  /\ item' = Head(ring)
  /\ ring' = Tail(ring)
  /\ UNCHANGED <<wvars, shutdown, failed, ppc, pushes,
                 final, prev_lsn, prev_hash, fvars>>

TakeRecord ==
  /\ ~failed
  /\ ring # <<>>
  /\ CGoto("drain", "worm")
  /\ item' = Head(ring)
  /\ ring' = Tail(ring)
  /\ UNCHANGED <<wvars, shutdown, failed, ppc, pushes,
                 final, prev_lsn, prev_hash, fvars>>

-----------------------------------------------------------------------------
(* process_audit_record                                                    *)

NextRecord == [lsn |-> prev_lsn + 1, prev |-> prev_hash, content |-> item]

\* record_failure after `?` has left process_audit_record; the record is freed
RecordFails(from) ==
  /\ cpc = from
  /\ cpc' \in AfterRecord
  /\ failed' = TRUE
  /\ shutdown' = TRUE
  /\ item' = None
  /\ UNCHANGED <<ring, ppc, pushes, final, prev_lsn, prev_hash>>

CallWorm ==
  /\ CGoto("worm", "worm_returns")
  /\ WriteWormRecord(NextRecord)
  /\ UNCHANGED <<qvars, final, item, prev_lsn, prev_hash, fvars>>

WormOk ==
  /\ CGoto("worm_returns", "security")
  /\ wpc = "idle" /\ result = "ok"
  /\ UNCHANGED <<wvars, qvars, final, item, prev_lsn, prev_hash, fvars>>

WormFails ==
  /\ RecordFails("worm_returns")
  /\ wpc = "idle" /\ result # "ok"
  /\ UNCHANGED <<wvars, fvars>>

\* write_security_record: write_all, then sync_all
WriteSecurity ==
  /\ CGoto("security", IF Signed THEN "sidecar" ELSE "commit")
  /\ \E f \in Writes(security, Line(prev_lsn + 1)) : security' = Synced(f)
  /\ UNCHANGED <<wvars, qvars, final, item, prev_lsn, prev_hash, sidecar>>

WriteSecurityFails ==
  /\ RecordFails("security")
  /\ security' \in {security} \cup Writes(security, Line(prev_lsn + 1))
  /\ UNCHANGED <<wvars, sidecar>>

\* write_sidecar_line, then flush
WriteSidecar ==
  /\ CGoto("sidecar", "commit")
  /\ sidecar' = Flushed(Append(sidecar, Line(prev_lsn + 1)))
  /\ UNCHANGED <<wvars, qvars, final, item, prev_lsn, prev_hash, security>>

WriteSidecarFails ==
  /\ RecordFails("sidecar")
  /\ sidecar' \in {sidecar, Append(sidecar, Line(prev_lsn + 1))}
  /\ UNCHANGED <<wvars, security>>

CommitLink_Mutant_SameLsn ==
  /\ cpc = "commit"
  /\ cpc' \in AfterRecord
  /\ prev_hash' = Link(NextRecord)
  /\ item' = None
  /\ UNCHANGED <<wvars, qvars, final, prev_lsn, fvars>>

CommitLink ==
  /\ cpc = "commit"
  /\ cpc' \in AfterRecord
  /\ prev_lsn' = prev_lsn + 1
  /\ prev_hash' = Link(NextRecord)
  /\ item' = None
  /\ UNCHANGED <<wvars, qvars, final, fvars>>

-----------------------------------------------------------------------------
(* The end of the consumer: every file is flushed and closed in turn, and  *)
(* a failure is recorded but does not keep the next one from being tried.  *)

CloseStep(from, to, ok) ==
  /\ CGoto(from, to)
  /\ failed' = (failed \/ ~ok)
  /\ shutdown' = (shutdown \/ ~ok)
  /\ UNCHANGED <<ring, ppc, pushes, final, item, prev_lsn, prev_hash>>

CloseSidecar ==
  \/ /\ CloseStep("close_sidecar", "flush_worm", TRUE)
     /\ sidecar' = Flushed(sidecar)
     /\ UNCHANGED <<wvars, security>>
  \/ /\ CloseStep("close_sidecar", "flush_worm", FALSE)
     /\ Signed
     /\ UNCHANGED <<wvars, fvars>>

FlushWorm ==
  /\ \/ CloseStep("flush_worm", "flush_security", TRUE)  /\ Flush
     \/ CloseStep("flush_worm", "flush_security", FALSE) /\ FlushFails
  /\ UNCHANGED fvars

\* SecuritySink::flush: flush, then sync_all
SyncSecurity_Mutant_NoFlush(from, to) ==
  /\ \/ /\ CloseStep(from, to, TRUE)
        /\ security' = Synced(security)
     \/ /\ CloseStep(from, to, FALSE)
        /\ UNCHANGED security
  /\ UNCHANGED <<wvars, sidecar>>

SyncSecurity(from, to) ==
  /\ \/ /\ CloseStep(from, to, TRUE)
        /\ security' = Synced(Flushed(security))
     \/ /\ CloseStep(from, to, FALSE)
        /\ security' \in {security, Flushed(security)}
  /\ UNCHANGED <<wvars, sidecar>>

FlushSecurity == SyncSecurity("flush_security", "close_worm")

CloseWorm ==
  /\ CGoto("close_worm", "worm_closes")
  /\ Close
  /\ UNCHANGED <<qvars, final, item, prev_lsn, prev_hash, fvars>>

WormClosed ==
  /\ wpc = "idle"
  /\ CloseStep("worm_closes", "close_security", result = "ok")
  /\ UNCHANGED <<wvars, fvars>>

CloseSecurity == SyncSecurity("close_security", "stopped")

-----------------------------------------------------------------------------

\* The consumer thread, inside and outside the WORM sink.
Consume ==
  \/ CheckShutdown \/ DrainEmpty \/ DiscardRecord \/ TakeRecord
  \/ CallWorm \/ WormOk \/ WormFails
  \/ WriteSecurity \/ WriteSecurityFails
  \/ WriteSidecar \/ WriteSidecarFails \/ CommitLink
  \/ CloseSidecar \/ FlushWorm \/ FlushSecurity
  \/ CloseWorm \/ WormClosed \/ CloseSecurity
  \/ WormStep /\ UNCHANGED <<qvars, cvars, fvars>>

Push(p) == TryPush(p) \/ TryPushFull(p) \/ GiveUpOrSpin(p)

Next ==
  \/ \E p \in Producers : PushAudit(p) \/ Push(p)
  \/ Shutdown
  \/ Consume

Spec == Init /\ [][Next]_vars

\* Threads are scheduled.  A producer that spins competes for the slots with
\* the others: an attempt that finds a free slot time and again succeeds.
Fairness ==
  /\ WF_vars(Consume)
  /\ \A p \in Producers : WF_vars(Push(p)) /\ SF_vars(TryPush(p))

FairSpec == Spec /\ Fairness

-----------------------------------------------------------------------------
(* Properties                                                              *)

Processing == {"worm", "worm_returns", "security", "sidecar", "commit"}

\* Types, and the consumer holds a record exactly while it processes one.
TypeOK ==
  /\ WormTypeOK
  /\ ring \in Seq(Items) /\ Len(ring) <= RingCapacity
  /\ shutdown \in BOOLEAN
  /\ failed \in BOOLEAN
  /\ ppc \in [Producers -> {"idle", "try", "full"}]
  /\ pushes \in [Producers -> Nat]
  /\ \A p \in Producers : pushes[p] <= MaxPushes
  /\ cpc \in Processing \cup
       {"loop", "drain", "close_sidecar", "flush_worm", "flush_security",
        "close_worm", "worm_closes", "close_security", "stopped"}
  /\ final \in BOOLEAN
  /\ item \in Items \cup {None}
  /\ item # None <=> cpc \in Processing
  /\ prev_lsn \in Nat

\* The WORM file, the security file and the sidecar hold records under the
\* LSNs 1, 2, ... without a gap: each file reaches as far as the one written
\* before it or less, none is more than one record ahead of what is persisted
\* everywhere, and between records of a healthy pipeline they are level,
\* whichever write failed (process_audit_record, record_failure).
FilesAgree ==
  LET w == Len(worm)
      s == Len(security)
      c == IF Signed THEN Len(sidecar) ELSE s
  IN  /\ \A i \in 1 .. w : worm[i].kind = "record" /\ worm[i].first = i
      /\ \A i \in 1 .. s : security[i].lsn = i
      /\ \A i \in DOMAIN sidecar : sidecar[i].lsn = i
      /\ prev_lsn <= c /\ c <= s /\ s <= w /\ w <= prev_lsn + 1
      /\ item = None /\ ~failed => w = prev_lsn

\* Every record of the WORM file carries the link to the one before it, and
\* the check of the sink never finds the chain broken: the chain state that
\* audit.rs keeps and the one worm.rs keeps cannot drift apart.
ChainIsUnbroken ==
  /\ result # "broken"
  /\ \A i \in DOMAIN worm :
       worm[i].prev = IF i = 1 THEN <<None, 0>>
                               ELSE <<worm[i - 1].content, worm[i - 1].first>>

\* What process_audit_record keeps between any two steps: the files, and the
\* chain of hashes that runs through them.
TrailsInv == TypeOK /\ FilesAgree /\ ChainIsUnbroken

\* When the consumer has stopped without a failure, all it took from the
\* ring is on the device, in both files, and the sidecar is out of the
\* process.
CleanStopIsDurable ==
  cpc = "stopped" /\ ~failed =>
    /\ \A i \in DOMAIN worm : Durable(worm[i])
    /\ \A i \in DOMAIN security : Durable(security[i])
    /\ \A i \in DOMAIN sidecar : sidecar[i].layer # "buffer"

\* Records are persisted in the order in which the ring accepted them, none
\* is lost, duplicated or overtaken before the first persistence error, and
\* nothing is persisted after it.
Log == INSTANCE AuditLog WITH
  pending   <- IF item = None THEN ring ELSE <<item>> \o ring,
  persisted <- [i \in 1 .. prev_lsn |-> worm[i].content]

ImplementsAuditLog == Log!Spec

\* push_audit returns: a producer blocked on a full ring gets its record in
\* or is turned away once the pipeline stops, for whatever reason.
EveryPushReturns == \A p \in Producers : ppc[p] # "idle" ~> ppc[p] = "idle"

\* Once the flag is set, by shutdown or by a failure, the consumer drains
\* the ring and ends, so that the join in AuditPipeline::shutdown returns.
StopCompletes == shutdown ~> cpc = "stopped"

\* "Drain accepted records and stop the isolated consumer": no record for
\* which push_audit returned Ok stays behind in the ring.
AcceptedAreDrained == cpc = "stopped" => ring = <<>>

\* In the durability Media, which the engine uses, a record whose processing
\* has ended survives a crash of the machine: fsync follows every write.
CommittedIsDurable == \A i \in 1 .. prev_lsn : Durable(worm[i])

-----------------------------------------------------------------------------
(* Proofs, for any producers and pushes, with and without rotation and     *)
(* signatures.  TrailsInv is not inductive: TrailsIInv adds where in the   *)
(* processing of a record each file has it, that the sink's LSN and hash   *)
(* follow those of the consumer, so that every record is in order and      *)
(* linked when it comes to the sink, and that nothing is written any more  *)
(* after a failure.                                                        *)

Logged == Items \cup {None}

Lines == [lsn : Nat, layer : Layers]

QueueTypes ==
  /\ ring \in Seq(Items) /\ Len(ring) <= RingCapacity
  /\ ppc \in [Producers -> {"idle", "try", "full"}]
  /\ pushes \in [Producers -> Nat]
  /\ \A p \in Producers : /\ pushes[p] <= MaxPushes
                          /\ ppc[p] # "idle" => pushes[p] > 0

Closing == {"close_sidecar", "flush_worm", "flush_security", "close_worm",
            "worm_closes", "close_security", "stopped"}

ConsumerTypes ==
  /\ shutdown \in BOOLEAN /\ failed \in BOOLEAN /\ final \in BOOLEAN
  /\ cpc \in Processing \cup Closing \cup {"loop", "drain"}
  /\ item \in Items \cup {None}
  /\ item # None <=> cpc \in Processing
  /\ cpc \in Processing => ~failed

\* No record is early or late, so that nothing waits and no gap is marked.
SinkTypes ==
  /\ is_open \in BOOLEAN /\ writer \in BOOLEAN /\ last_lsn \in Nat
  /\ Waiting = {} /\ second \in Nat
  /\ reorder_start \in {"none", "waiting", "expired"}
  /\ result \in {"ok", "failed"}
  /\ wpc \in {"idle", "flush_write", "write", "commit", "flush_close", "close"}
  /\ wpc \in {"flush_write", "write", "commit"} =>
       cpc = "worm_returns" /\ call = NextRecord
  /\ wpc \in {"flush_close", "close"} => cpc = "worm_closes"

\* The sink has accepted the record that is being processed ...
Accepted ==
  \/ cpc \in {"security", "sidecar", "commit"}
  \/ cpc = "worm_returns" /\ wpc = "idle" /\ result = "ok"

\* ... or refused it, and the consumer has not seen it yet.
Rejected == cpc = "worm_returns" /\ wpc = "idle" /\ result # "ok"

LinkTo(f, i) == IF i = 1 THEN <<None, 0>>
                         ELSE <<f[i - 1].content, f[i - 1].first>>

Chained(f) ==
  /\ f \in Seq(Entries(Logged))
  /\ \A i \in 1 .. Len(f) : /\ f[i].kind = "record"
                           /\ f[i].first = i /\ f[i].prev = LinkTo(f, i)

Numbered(f) == f \in Seq(Lines) /\ \A i \in 1 .. Len(f) : f[i].lsn = i

LinkInv ==
  /\ prev_lsn \in Nat
  /\ prev_lsn <= Len(worm) /\ Len(worm) <= prev_lsn + 1
  /\ prev_hash = LinkTo(worm, prev_lsn + 1)
  /\ Accepted \/ wpc = "commit" =>
       Len(worm) = prev_lsn + 1 /\ worm[prev_lsn + 1].content = item
  /\ ~failed /\ ~Accepted /\ ~Rejected /\ wpc # "commit" => Len(worm) = prev_lsn
  /\ Accepted => last_lsn = prev_lsn + 1 /\ last_hash = <<item, prev_lsn + 1>>
  /\ ~failed /\ cpc \in {"loop", "drain", "worm"} =>
       last_lsn = prev_lsn /\ (last_lsn > 0 => last_hash = prev_hash)
  /\ ~failed /\ cpc \notin Closing /\ ~Rejected => writer

CopiesInv ==
  /\ Numbered(security) /\ Numbered(sidecar)
  /\ ~Signed => Len(sidecar) = 0 /\ cpc # "sidecar"
  /\ prev_lsn <= Len(security) /\ Len(security) <= Len(worm)
  /\ Signed => prev_lsn <= Len(sidecar) /\ Len(sidecar) <= Len(security)
  /\ ~failed =>
       /\ Len(security) = IF cpc \in {"sidecar", "commit"} THEN prev_lsn + 1
                                                           ELSE prev_lsn
       /\ Signed => Len(sidecar) = IF cpc = "commit" THEN prev_lsn + 1
                                                     ELSE prev_lsn

TrailsIInv ==
  /\ QueueTypes /\ ConsumerTypes /\ SinkTypes
  /\ Chained(worm) /\ LinkInv /\ CopiesInv

(* What the operations on files do to entries: their number, LSNs and links *)
(* stay, whatever layer they reach.                                        *)
LEMMA LinesPromoted ==
  ASSUME NEW f, Numbered(f), NEW from \in Layers, NEW to \in Layers
  PROVE  Numbered(Promote(f, from, to)) /\ Len(Promote(f, from, to)) = Len(f)
  <1> DEFINE g == Promote(f, from, to)
  <1>1. f \in Seq(Lines) /\ DOMAIN f = 1 .. Len(f) /\ Len(f) \in Nat
    BY DEF Numbered
  <1>2. ASSUME NEW i \in 1 .. Len(f)
        PROVE  g[i] \in Lines /\ g[i].lsn = f[i].lsn
    <2>1. g[i] = f[i] \/ g[i] = [f[i] EXCEPT !.layer = to]
      BY <1>1 DEF Promote
    <2>2. f[i] \in Lines
      BY <1>1
    <2> HIDE DEF g
    <2> QED BY <2>1, <2>2 DEF Lines
  <1>3. g \in Seq(Lines) /\ Len(g) = Len(f)
    BY <1>1, <1>2 DEF Promote
  <1> QED BY <1>2, <1>3 DEF Numbered

LEMMA LinesAppended ==
  ASSUME NEW f, Numbered(f)
  PROVE  LET g == Append(f, Line(Len(f) + 1))
         IN  Numbered(g) /\ Len(g) = Len(f) + 1
  <1>1. f \in Seq(Lines) /\ Len(f) \in Nat /\ Line(Len(f) + 1) \in Lines
    BY DEF Numbered, Line, Lines, Layers
  <1>2. Line(Len(f) + 1).lsn = Len(f) + 1
    BY DEF Line
  <1> QED BY <1>1, <1>2 DEF Numbered

LEMMA LinesWritten ==
  ASSUME NEW f, Numbered(f), NEW g \in Writes(f, Line(Len(f) + 1))
  PROVE  Numbered(g) /\ Len(g) = Len(f) + 1
  <1>1. "buffer" \in Layers /\ "cache" \in Layers
    BY DEF Layers
  <1>2. Numbered(Flushed(f)) /\ Len(Flushed(f)) = Len(f)
    BY <1>1, LinesPromoted DEF Flushed
  <1>3. CASE g = Append(f, Line(Len(f) + 1))
    BY <1>3, LinesAppended
  <1>4. CASE g = Append(Flushed(f), Line(Len(f) + 1))
    BY <1>2, <1>4, LinesAppended
  <1>5. CASE g = Flushed(Append(f, Line(Len(f) + 1)))
    BY <1>1, <1>5, LinesAppended, LinesPromoted DEF Flushed
  <1> QED BY <1>3, <1>4, <1>5 DEF Writes

LEMMA AlikeChained ==
  ASSUME NEW f, NEW g, Chained(f), Alike(Logged, f, g)
  PROVE  Chained(g) /\ \A i \in 1 .. Len(f) + 1 : LinkTo(g, i) = LinkTo(f, i)
  <1> USE DEF SameEntry
  <1>1. Len(f) \in Nat
    BY DEF Chained
  <1>2. \A i \in 1 .. Len(f) + 1 : LinkTo(g, i) = LinkTo(f, i)
    BY <1>1 DEF Alike, LinkTo
  <1> QED BY <1>1, <1>2 DEF Chained, Alike

LEMMA ExtendsChained ==
  ASSUME NEW f, NEW g, NEW e, Chained(f), Extends(Logged, f, g, e),
         e.kind = "record", e.first = Len(f) + 1, e.prev = LinkTo(f, Len(f) + 1)
  PROVE  /\ Chained(g)
         /\ \A i \in 1 .. Len(f) + 1 : LinkTo(g, i) = LinkTo(f, i)
         /\ g[Len(f) + 1].content = e.content
  <1> USE DEF SameEntry
  <1>1. Len(f) \in Nat
    BY DEF Chained
  <1>2. \A i \in 1 .. Len(f) + 1 : LinkTo(g, i) = LinkTo(f, i)
    BY <1>1 DEF Extends, LinkTo
  <1>3. \A i \in 1 .. Len(f) : /\ g[i].kind = "record"
                              /\ g[i].first = i /\ g[i].prev = LinkTo(g, i)
    BY <1>1, <1>2 DEF Extends, Chained
  <1>4. LET n == Len(f) + 1
        IN  g[n].kind = "record" /\ g[n].first = n /\ g[n].prev = LinkTo(g, n)
    BY <1>1, <1>2 DEF Extends
  <1>5. g[Len(f) + 1].content = e.content
    BY DEF Extends
  <1> QED BY <1>1, <1>2, <1>3, <1>4, <1>5 DEF Chained, Extends

LEMMA AuditInitHolds == Init => TrailsIInv
  <1> SUFFICES ASSUME Init PROVE TrailsIInv
    OBVIOUS
  <1>1. QueueTypes
    BY RingCapacityAssumption, MaxPushesAssumption DEF Init, QueueTypes
  <1>2. ConsumerTypes
    BY NoneAssumption DEF Init, ConsumerTypes, Processing
  <1>3. SinkTypes
    BY DEF Init, WormInit, SinkTypes, Waiting
  <1>4. Chained(worm)
    BY DEF Init, WormInit, Chained
  <1>5. LinkInv
    BY <1>4 DEF Init, WormInit, LinkInv, LinkTo, Accepted, Rejected, Closing
  <1>6. CopiesInv
    BY <1>5 DEF Init, WormInit, CopiesInv, Numbered
  <1> QED BY <1>1, <1>2, <1>3, <1>4, <1>5, <1>6 DEF TrailsIInv

(* What the properties of the sink and the files look at. *)
LEMMA SameTrails ==
  ASSUME SinkTypes, Chained(worm), LinkInv, CopiesInv,
         UNCHANGED <<wvars, fvars, cpc, item, failed, prev_lsn, prev_hash>>
  PROVE  SinkTypes' /\ Chained(worm)' /\ LinkInv' /\ CopiesInv'
  <1>1. SinkTypes'
    BY DEF SinkTypes, Waiting, NextRecord, wvars
  <1>2. LinkInv'
    BY DEF LinkInv, LinkTo, Accepted, Rejected, wvars
  <1>3. Chained(worm)' /\ CopiesInv'
    BY DEF CopiesInv, Chained, LinkTo, Numbered, wvars, fvars
  <1> QED BY <1>1, <1>2, <1>3

LEMMA ProducersKeep ==
  ASSUME TrailsIInv, NEW p \in Producers, PushAudit(p) \/ Push(p)
  PROVE  TrailsIInv'
  <1>1. UNCHANGED <<wvars, cvars, fvars, shutdown, failed>>
    BY DEF PushAudit, Push, TryPush, TryPushFull, GiveUpOrSpin
  <1>2. SinkTypes' /\ Chained(worm)' /\ LinkInv' /\ CopiesInv'
    BY <1>1, SameTrails DEF TrailsIInv, cvars
  <1>3. ConsumerTypes'
    BY <1>1 DEF TrailsIInv, ConsumerTypes, cvars
  <1>4. QueueTypes'
    <2> USE MaxPushesAssumption DEF TrailsIInv, QueueTypes, PGoto
    <2>1. CASE PushAudit(p)
      BY <2>1 DEF PushAudit
    <2>2. CASE TryPush(p)
      <3>1. <<p, pushes[p]>> \in Items
        <4>1. pushes[p] \in 1 .. MaxPushes
          BY <2>2 DEF TryPush
        <4> QED BY <4>1 DEF Items
      <3>2. /\ Append(ring, <<p, pushes[p]>>) \in Seq(Items)
            /\ Len(Append(ring, <<p, pushes[p]>>)) = Len(ring) + 1
        BY <3>1
      <3>3. ring' \in Seq(Items) /\ Len(ring') <= RingCapacity
        BY <2>2, <3>2, RingCapacityAssumption DEF TryPush
      <3> QED BY <2>2, <3>3 DEF TryPush
    <2>3. CASE TryPushFull(p)
      BY <2>3 DEF TryPushFull
    <2>4. CASE GiveUpOrSpin(p)
      BY <2>4 DEF GiveUpOrSpin
    <2> QED BY <2>1, <2>2, <2>3, <2>4 DEF Push
  <1> QED BY <1>2, <1>3, <1>4 DEF TrailsIInv

LEMMA ShutdownKeeps == ASSUME TrailsIInv, Shutdown PROVE TrailsIInv'
  <1>1. SinkTypes' /\ Chained(worm)' /\ LinkInv' /\ CopiesInv'
    BY SameTrails DEF TrailsIInv, Shutdown, cvars
  <1>2. QueueTypes' /\ ConsumerTypes'
    BY DEF TrailsIInv, QueueTypes, ConsumerTypes, Shutdown, cvars
  <1> QED BY <1>1, <1>2 DEF TrailsIInv

(* The consumer outside the files. *)
LEMMA LoopKeeps ==
  ASSUME TrailsIInv, CheckShutdown \/ DrainEmpty \/ DiscardRecord
  PROVE  TrailsIInv'
  <1> USE DEF CheckShutdown, DrainEmpty, DiscardRecord, CGoto, AfterRecord, TrailsIInv
  <1>1. UNCHANGED <<wvars, fvars, shutdown, failed, ppc, pushes, item, prev_lsn, prev_hash>>
    BY DEF qvars
  <1>2. /\ cpc \in {"loop", "drain"} /\ cpc' \in {"loop", "drain", "close_sidecar"}
        /\ \/ ring' = ring
           \/ ring # <<>> /\ ring' = Tail(ring)
    <2>1. CASE CheckShutdown
      BY <2>1 DEF qvars
    <2>2. CASE DrainEmpty
      BY <2>2 DEF qvars
    <2>3. CASE DiscardRecord
      BY <2>3 DEF qvars
    <2> QED BY <2>1, <2>2, <2>3
  <1>3. QueueTypes'
    <2>1. CASE ring' = ring
      BY <1>1, <2>1 DEF QueueTypes
    <2>2. CASE ring # <<>> /\ ring' = Tail(ring)
      <3>1. ring' \in Seq(Items) /\ Len(ring') <= RingCapacity
        BY <2>2, RingCapacityAssumption DEF QueueTypes
      <3> QED BY <1>1, <3>1 DEF QueueTypes
    <2> QED BY <1>2, <2>1, <2>2
  <1>4. ConsumerTypes'
    <2>1. final' \in BOOLEAN
      BY DEF ConsumerTypes
    <2> QED BY <1>1, <1>2, <2>1 DEF ConsumerTypes, Processing, Closing
  <1>5. SinkTypes'
    BY <1>1, <1>2 DEF SinkTypes, Waiting, wvars
  <1>6. LinkInv'
    BY <1>1, <1>2 DEF LinkInv, LinkTo, Accepted, Rejected, Closing, SinkTypes, wvars
  <1>7. Chained(worm)' /\ CopiesInv'
    BY <1>1, <1>2 DEF CopiesInv, Chained, LinkTo, Numbered, wvars, fvars
  <1> QED BY <1>3, <1>4, <1>5, <1>6, <1>7

LEMMA TakeKeeps == ASSUME TrailsIInv, TakeRecord PROVE TrailsIInv'
  <1> USE DEF TakeRecord, CGoto, TrailsIInv
  <1>1. ring' \in Seq(Items) /\ Len(ring') <= RingCapacity /\ item' \in Items
    BY RingCapacityAssumption DEF QueueTypes
  <1>2. QueueTypes'
    BY <1>1 DEF QueueTypes
  <1>3. ConsumerTypes'
    BY <1>1, NoneAssumption DEF ConsumerTypes, Processing
  <1>4. SinkTypes'
    BY DEF SinkTypes, Waiting, wvars
  <1>5. LinkInv'
    BY DEF LinkInv, LinkTo, Accepted, Rejected, Closing, SinkTypes, wvars
  <1>6. Chained(worm)' /\ CopiesInv'
    BY DEF CopiesInv, Chained, LinkTo, Numbered, wvars, fvars
  <1> QED BY <1>2, <1>3, <1>4, <1>5, <1>6

(* A record comes to the sink in order and linked. *)
LEMMA CallKeeps == ASSUME TrailsIInv, CallWorm PROVE TrailsIInv'
  <1> USE DEF CallWorm, CGoto, TrailsIInv
  <1>1. /\ cpc = "worm" /\ cpc' = "worm_returns" /\ ~failed
        /\ last_lsn = prev_lsn /\ last_lsn \in Nat
        /\ last_lsn > 0 => last_hash = prev_hash
    BY DEF ConsumerTypes, LinkInv, SinkTypes, Processing
  <1>2. InOrder(NextRecord) /\ ~Broken(NextRecord)
    BY <1>1 DEF InOrder, Broken, NextRecord
  <1>3. ~ReceiveBroken(NextRecord) /\ ~ReceiveEarly(NextRecord) /\ ~ReceiveLate(NextRecord)
    BY <1>1, <1>2 DEF ReceiveBroken, ReceiveEarly, ReceiveLate, InOrder, NextRecord
  <1>4. /\ wpc = "idle" /\ wpc' = "flush_write" /\ call' = NextRecord
        /\ UNCHANGED <<is_open, writer, last_lsn, last_hash, worm, second,
                       reorder_buffer, reorder_start, result>>
    BY <1>3 DEF WriteWormRecord, ReceiveInOrder, Receive
  <1>5. QueueTypes' /\ ConsumerTypes'
    BY <1>1 DEF QueueTypes, ConsumerTypes, qvars, Processing, Closing
  <1>6. SinkTypes'
    BY <1>1, <1>4 DEF SinkTypes, Waiting, NextRecord
  <1>7. LinkInv'
    BY <1>1, <1>4 DEF LinkInv, LinkTo, Accepted, Rejected, Closing, qvars
  <1>8. Chained(worm)' /\ CopiesInv'
    BY <1>1, <1>4 DEF CopiesInv, Chained, LinkTo, Numbered, fvars, qvars
  <1> QED BY <1>5, <1>6, <1>7, <1>8

LEMMA WormOkKeeps == ASSUME TrailsIInv, WormOk PROVE TrailsIInv'
  <1> USE DEF WormOk, CGoto, TrailsIInv
  <1>1. QueueTypes' /\ ConsumerTypes'
    BY DEF QueueTypes, ConsumerTypes, qvars, Processing, Closing
  <1>2. SinkTypes'
    BY DEF SinkTypes, Waiting, wvars
  <1>3. LinkInv'
    BY DEF LinkInv, LinkTo, Accepted, Rejected, Closing, qvars, wvars
  <1>4. Chained(worm)' /\ CopiesInv'
    BY DEF CopiesInv, Chained, LinkTo, Numbered, fvars, qvars, wvars
  <1> QED BY <1>1, <1>2, <1>3, <1>4

(* Whatever step of its processing a record fails in, it is in no file      *)
(* without being in those written before.                                  *)
LEMMA FailureKeeps ==
  ASSUME TrailsIInv, NEW from \in {"worm_returns", "security", "sidecar"},
         RecordFails(from), wpc = "idle", UNCHANGED wvars,
         Numbered(security'), Numbered(sidecar'),
         ~Signed => Len(sidecar') = 0,
         prev_lsn <= Len(security'), Len(security') <= Len(worm),
         Signed => prev_lsn <= Len(sidecar') /\ Len(sidecar') <= Len(security')
  PROVE  TrailsIInv'
  <1> USE DEF RecordFails, AfterRecord, TrailsIInv
  <1>1. cpc = from /\ cpc' \in {"drain", "loop"} /\ failed' /\ item' = None
    OBVIOUS
  <1>2. QueueTypes' /\ ConsumerTypes'
    BY <1>1 DEF QueueTypes, ConsumerTypes, Processing, Closing
  <1>3. SinkTypes'
    BY <1>1 DEF SinkTypes, Waiting, wvars
  <1>4. LinkInv'
    BY <1>1 DEF LinkInv, LinkTo, Accepted, Rejected, Closing, wvars
  <1>5. Chained(worm)' /\ CopiesInv'
    BY <1>1 DEF CopiesInv, Chained, LinkTo, wvars
  <1> QED BY <1>2, <1>3, <1>4, <1>5

LEMMA CopiesKnown ==
  ASSUME TrailsIInv
  PROVE  /\ prev_lsn \in Nat /\ Len(worm) \in Nat
         /\ Len(security) \in Nat /\ Len(sidecar) \in Nat
         /\ cpc \in Processing => ~failed
         /\ cpc # "worm_returns" => wpc \in {"idle", "flush_close", "close"}
         /\ cpc \notin {"worm_returns", "worm_closes"} => wpc = "idle"
  BY DEF TrailsIInv, LinkInv, Chained, CopiesInv, Numbered, ConsumerTypes, SinkTypes

LEMMA WormFailsKeeps == ASSUME TrailsIInv, WormFails PROVE TrailsIInv'
  <1>1. RecordFails("worm_returns") /\ wpc = "idle" /\ UNCHANGED <<wvars, fvars>>
    BY DEF WormFails
  <1>2. security' = security /\ sidecar' = sidecar
    BY <1>1 DEF fvars
  <1> QED BY <1>1, <1>2, FailureKeeps DEF TrailsIInv, CopiesInv

LEMMA SecurityFailsKeeps ==
  ASSUME TrailsIInv, WriteSecurityFails PROVE TrailsIInv'
  <1>1. /\ cpc = "security" /\ RecordFails("security") /\ UNCHANGED <<wvars, sidecar>>
        /\ security' \in {security} \cup Writes(security, Line(prev_lsn + 1))
    BY DEF WriteSecurityFails, RecordFails
  <1>2. /\ wpc = "idle" /\ ~failed
        /\ prev_lsn \in Nat /\ Len(sidecar) \in Nat
        /\ Len(security) = prev_lsn /\ Len(worm) = prev_lsn + 1
        /\ Signed => Len(sidecar) = prev_lsn
        /\ Numbered(security) /\ Numbered(sidecar) /\ (~Signed => Len(sidecar) = 0)
    BY <1>1, CopiesKnown DEF TrailsIInv, LinkInv, CopiesInv, Accepted, Processing
  <1>3. /\ Numbered(security')
        /\ Len(security') = prev_lsn \/ Len(security') = prev_lsn + 1
    BY <1>1, <1>2, LinesWritten
  <1> QED BY <1>1, <1>2, <1>3, FailureKeeps

LEMMA SidecarFailsKeeps ==
  ASSUME TrailsIInv, WriteSidecarFails PROVE TrailsIInv'
  <1>1. /\ cpc = "sidecar" /\ RecordFails("sidecar") /\ UNCHANGED <<wvars, security>>
        /\ sidecar' \in {sidecar, Append(sidecar, Line(prev_lsn + 1))}
    BY DEF WriteSidecarFails, RecordFails
  <1>2. /\ wpc = "idle" /\ ~failed
        /\ prev_lsn \in Nat /\ Len(sidecar) \in Nat
        /\ Len(security) = prev_lsn + 1 /\ Len(worm) = prev_lsn + 1
        /\ Signed => Len(sidecar) = prev_lsn
        /\ Numbered(security) /\ Numbered(sidecar)
    BY <1>1, CopiesKnown DEF TrailsIInv, LinkInv, CopiesInv, Accepted, Processing
  <1>3. Signed
    BY <1>1 DEF TrailsIInv, CopiesInv
  <1>4. /\ Numbered(sidecar')
        /\ Len(sidecar') = prev_lsn \/ Len(sidecar') = prev_lsn + 1
    BY <1>1, <1>2, <1>3, LinesAppended
  <1> QED BY <1>1, <1>2, <1>3, <1>4, FailureKeeps

(* The steps of a record's processing that succeed. *)
LEMMA SecurityKeeps == ASSUME TrailsIInv, WriteSecurity PROVE TrailsIInv'
  <1> USE DEF TrailsIInv
  <1>1. /\ cpc = "security" /\ cpc' = (IF Signed THEN "sidecar" ELSE "commit")
        /\ UNCHANGED <<wvars, qvars, final, item, prev_lsn, prev_hash, sidecar>>
    BY DEF WriteSecurity, CGoto
  <1>2. PICK f \in Writes(security, Line(prev_lsn + 1)) : security' = Synced(f)
    BY DEF WriteSecurity
  <1>3. /\ wpc = "idle" /\ ~failed /\ prev_lsn \in Nat
        /\ Len(security) = prev_lsn /\ Len(worm) = prev_lsn + 1
        /\ Signed => Len(sidecar) = prev_lsn
        /\ Numbered(security)
    BY <1>1, CopiesKnown DEF LinkInv, CopiesInv, Accepted, Processing
  <1>4. Numbered(f) /\ Len(f) = prev_lsn + 1
    BY <1>2, <1>3, LinesWritten
  <1>5. Numbered(security') /\ Len(security') = prev_lsn + 1
    BY <1>2, <1>4, LinesPromoted DEF Synced, Layers
  <1>6. QueueTypes' /\ ConsumerTypes'
    BY <1>1, SignedAssumption DEF QueueTypes, ConsumerTypes, qvars, Processing, Closing
  <1>7. SinkTypes'
    BY <1>1 DEF SinkTypes, Waiting, wvars
  <1>8. LinkInv'
    BY <1>1 DEF LinkInv, LinkTo, Accepted, Rejected, Closing, qvars, wvars
  <1>9. Chained(worm)'
    BY <1>1 DEF Chained, LinkTo, wvars
  <1>10. CopiesInv'
    BY <1>1, <1>3, <1>5 DEF CopiesInv, Numbered, qvars, wvars
  <1> QED BY <1>6, <1>7, <1>8, <1>9, <1>10

LEMMA SidecarKeeps == ASSUME TrailsIInv, WriteSidecar PROVE TrailsIInv'
  <1> USE DEF TrailsIInv
  <1>1. /\ cpc = "sidecar" /\ cpc' = "commit"
        /\ sidecar' = Flushed(Append(sidecar, Line(prev_lsn + 1)))
        /\ UNCHANGED <<wvars, qvars, final, item, prev_lsn, prev_hash, security>>
    BY DEF WriteSidecar, CGoto
  <1>2. /\ wpc = "idle" /\ ~failed /\ prev_lsn \in Nat /\ Signed
        /\ Len(security) = prev_lsn + 1 /\ Len(worm) = prev_lsn + 1
        /\ Len(sidecar) = prev_lsn
        /\ Numbered(security) /\ Numbered(sidecar)
    BY <1>1, CopiesKnown DEF LinkInv, CopiesInv, Accepted, Processing
  <1>3. /\ Numbered(Append(sidecar, Line(prev_lsn + 1)))
        /\ Len(Append(sidecar, Line(prev_lsn + 1))) = prev_lsn + 1
    BY <1>2, LinesAppended
  <1>4. Numbered(sidecar') /\ Len(sidecar') = prev_lsn + 1
    BY <1>1, <1>3, LinesPromoted DEF Flushed, Layers
  <1>5. QueueTypes' /\ ConsumerTypes'
    BY <1>1 DEF QueueTypes, ConsumerTypes, qvars, Processing, Closing
  <1>6. SinkTypes'
    BY <1>1 DEF SinkTypes, Waiting, wvars
  <1>7. LinkInv'
    BY <1>1 DEF LinkInv, LinkTo, Accepted, Rejected, Closing, qvars, wvars
  <1>8. Chained(worm)'
    BY <1>1 DEF Chained, LinkTo, wvars
  <1>9. CopiesInv'
    BY <1>1, <1>2, <1>4 DEF CopiesInv, qvars, wvars, Numbered
  <1> QED BY <1>5, <1>6, <1>7, <1>8, <1>9

LEMMA CommitLinkKeeps == ASSUME TrailsIInv, CommitLink PROVE TrailsIInv'
  <1> USE DEF TrailsIInv
  <1>1. /\ cpc = "commit" /\ cpc' \in {"drain", "loop"} /\ item' = None
        /\ prev_lsn' = prev_lsn + 1 /\ prev_hash' = <<item, prev_lsn + 1>>
        /\ UNCHANGED <<wvars, qvars, final, fvars>>
    BY DEF CommitLink, AfterRecord, Link, NextRecord
  <1>2. /\ wpc = "idle" /\ ~failed /\ prev_lsn \in Nat
        /\ Len(security) = prev_lsn + 1 /\ Len(worm) = prev_lsn + 1
        /\ Signed => Len(sidecar) = prev_lsn + 1
        /\ worm[prev_lsn + 1].content = item
        /\ last_lsn = prev_lsn + 1 /\ last_hash = <<item, prev_lsn + 1>>
        /\ writer
    BY <1>1, CopiesKnown DEF LinkInv, CopiesInv, Accepted, Rejected, Processing, Closing
  <1>3. worm[prev_lsn + 1].first = prev_lsn + 1
    BY <1>2 DEF Chained
  <1>4. LinkTo(worm, prev_lsn' + 1) = prev_hash'
    BY <1>1, <1>2, <1>3 DEF LinkTo
  <1>5. QueueTypes' /\ ConsumerTypes'
    BY <1>1, NoneAssumption DEF QueueTypes, ConsumerTypes, qvars, Processing, Closing
  <1>6. SinkTypes'
    BY <1>1, <1>2 DEF SinkTypes, Waiting, wvars
  <1>7. LinkInv'
    BY <1>1, <1>2, <1>4 DEF LinkInv, LinkTo, Accepted, Rejected, Closing, qvars, wvars
  <1>8. Chained(worm)'
    BY <1>1 DEF Chained, LinkTo, wvars
  <1>9. CopiesInv'
    BY <1>1, <1>2 DEF CopiesInv, qvars, wvars, fvars, Numbered
  <1> QED BY <1>5, <1>6, <1>7, <1>8, <1>9

(* The end: what is in the files stays, and nothing is added. *)
LEMMA ClosingKeeps ==
  ASSUME TrailsIInv, NEW from \in Closing, NEW to \in Closing, from # "stopped",
         CGoto(from, to), failed' \in BOOLEAN, shutdown' \in BOOLEAN, failed => failed',
         UNCHANGED <<ring, ppc, pushes, final, item, prev_lsn, prev_hash,
                     last_lsn, last_hash, reorder_buffer, second>>,
         SinkTypes', Alike(Logged, worm, worm'),
         Numbered(security'), Len(security') = Len(security),
         Numbered(sidecar'), Len(sidecar') = Len(sidecar)
  PROVE  TrailsIInv'
  <1> USE DEF TrailsIInv, CGoto
  <1>1. QueueTypes'
    BY DEF QueueTypes
  <1>2. ConsumerTypes'
    BY DEF ConsumerTypes, Processing, Closing
  <1>3. /\ Chained(worm') /\ Len(worm') = Len(worm)
        /\ \A i \in 1 .. Len(worm) + 1 : LinkTo(worm', i) = LinkTo(worm, i)
    BY AlikeChained DEF Alike
  <1>4. /\ wpc # "commit" /\ ~Accepted /\ ~Rejected
        /\ wpc' # "commit" /\ ~Accepted' /\ ~Rejected'
    BY DEF SinkTypes, Accepted, Rejected, Closing
  <1>5. LinkInv'
    <2>1. prev_lsn + 1 \in 1 .. Len(worm) + 1
      BY CopiesKnown DEF LinkInv
    <2>2. LinkTo(worm', prev_lsn' + 1) = prev_hash'
      BY <1>3, <2>1 DEF LinkInv
    <2>3. cpc \notin {"loop", "drain", "worm"} /\ cpc' \notin {"loop", "drain", "worm"}
      BY DEF Closing
    <2> QED BY <1>3, <1>4, <2>2, <2>3 DEF LinkInv
  <1>6. CopiesInv'
    <2>1. cpc \notin {"sidecar", "commit"} /\ cpc' \notin {"sidecar", "commit"}
      BY DEF Closing
    <2>2. ~Signed => Len(sidecar') = 0
      BY DEF CopiesInv, Numbered
    <2> QED BY <1>3, <2>1, <2>2 DEF CopiesInv
  <1> QED BY <1>1, <1>2, <1>3, <1>5, <1>6

LEMMA CloseStepKeeps ==
  ASSUME TrailsIInv, NEW ok \in BOOLEAN, NEW from, NEW to, CloseStep(from, to, ok)
  PROVE  /\ CGoto(from, to) /\ failed' \in BOOLEAN /\ shutdown' \in BOOLEAN
         /\ failed => failed'
         /\ UNCHANGED <<ring, ppc, pushes, final, item, prev_lsn, prev_hash>>
  <1>1. failed \in BOOLEAN /\ shutdown \in BOOLEAN
    BY DEF TrailsIInv, ConsumerTypes
  <1>2. CGoto(from, to) /\ UNCHANGED <<ring, ppc, pushes, final, item, prev_lsn, prev_hash>>
    BY DEF CloseStep
  <1>3. failed' = (failed \/ ~ok) /\ shutdown' = (shutdown \/ ~ok)
    BY DEF CloseStep
  <1> QED BY <1>1, <1>2, <1>3

LEMMA CloseSidecarKeeps == ASSUME TrailsIInv, CloseSidecar PROVE TrailsIInv'
  <1>1. PICK ok \in BOOLEAN : CloseStep("close_sidecar", "flush_worm", ok)
    BY DEF CloseSidecar
  <1>2. UNCHANGED <<wvars, security>> /\ (sidecar' = sidecar \/ sidecar' = Flushed(sidecar))
    BY DEF CloseSidecar, fvars
  <1>3. Numbered(sidecar) /\ Numbered(security) /\ Chained(worm)
    BY DEF TrailsIInv, CopiesInv
  <1>4. Numbered(sidecar') /\ Len(sidecar') = Len(sidecar)
    BY <1>2, <1>3, LinesPromoted DEF Flushed, Layers
  <1>5. Numbered(security') /\ Len(security') = Len(security)
    BY <1>2, <1>3
  <1>6. Alike(Logged, worm, worm')
    BY <1>2, <1>3, SameAlike DEF wvars, Chained
  <1>7. SinkTypes'
    BY <1>1, <1>2 DEF TrailsIInv, SinkTypes, Waiting, wvars, CloseStep, CGoto
  <1>8. "close_sidecar" \in Closing /\ "flush_worm" \in Closing
    BY DEF Closing
  <1> QED BY <1>1, <1>2, <1>4, <1>5, <1>6, <1>7, <1>8, CloseStepKeeps, ClosingKeeps DEF wvars

LEMMA FlushWormKeeps == ASSUME TrailsIInv, FlushWorm PROVE TrailsIInv'
  <1>1. PICK ok \in BOOLEAN : CloseStep("flush_worm", "flush_security", ok)
    BY DEF FlushWorm
  <1>2. /\ wpc = "idle" /\ result' \in {"ok", "failed"} /\ UNCHANGED fvars
        /\ UNCHANGED <<is_open, writer, last_lsn, last_hash, reorder_buffer,
                       reorder_start, second, wpc, call>>
        /\ worm' = worm \/ worm' = Flushed(worm)
    BY DEF FlushWorm, Flush, FlushFails
  <1>3. Numbered(sidecar) /\ Numbered(security) /\ Chained(worm)
    BY DEF TrailsIInv, CopiesInv
  <1>4. /\ Numbered(security') /\ Len(security') = Len(security)
        /\ Numbered(sidecar') /\ Len(sidecar') = Len(sidecar)
    BY <1>2, <1>3 DEF fvars
  <1>5. Alike(Logged, worm, worm')
    BY <1>2, <1>3, SameAlike, FlushedAlike DEF Chained
  <1>6. SinkTypes'
    BY <1>2 DEF TrailsIInv, SinkTypes, Waiting
  <1>7. "flush_worm" \in Closing /\ "flush_security" \in Closing
    BY DEF Closing
  <1> QED BY <1>1, <1>2, <1>4, <1>5, <1>6, <1>7, CloseStepKeeps, ClosingKeeps

LEMMA SyncSecurityKeeps ==
  ASSUME TrailsIInv, NEW from \in {"flush_security", "close_security"},
         NEW to \in {"close_worm", "stopped"}, SyncSecurity(from, to)
  PROVE  TrailsIInv'
  <1>1. PICK ok \in BOOLEAN : CloseStep(from, to, ok)
    BY DEF SyncSecurity
  <1>2. /\ UNCHANGED <<wvars, sidecar>>
        /\ security' \in {security, Flushed(security), Synced(Flushed(security))}
    BY DEF SyncSecurity
  <1>3. Numbered(sidecar) /\ Numbered(security) /\ Chained(worm)
    BY DEF TrailsIInv, CopiesInv
  <1>4. Numbered(Flushed(security)) /\ Len(Flushed(security)) = Len(security)
    BY <1>3, LinesPromoted DEF Flushed, Layers
  <1>5. /\ Numbered(Synced(Flushed(security)))
        /\ Len(Synced(Flushed(security))) = Len(security)
    BY <1>4, LinesPromoted DEF Synced, Layers
  <1>6. /\ Numbered(security') /\ Len(security') = Len(security)
        /\ Numbered(sidecar') /\ Len(sidecar') = Len(sidecar)
    BY <1>2, <1>3, <1>4, <1>5
  <1>7. Alike(Logged, worm, worm')
    BY <1>2, <1>3, SameAlike DEF wvars, Chained
  <1>8. SinkTypes'
    BY <1>1, <1>2 DEF TrailsIInv, SinkTypes, Waiting, wvars, CloseStep, CGoto
  <1>9. from \in Closing /\ to \in Closing
    BY DEF Closing
  <1> QED BY <1>1, <1>2, <1>6, <1>7, <1>8, <1>9, CloseStepKeeps, ClosingKeeps DEF wvars

LEMMA CloseWormKeeps == ASSUME TrailsIInv, CloseWorm PROVE TrailsIInv'
  <1>1. /\ CGoto("close_worm", "worm_closes") /\ UNCHANGED <<qvars, final, item,
             prev_lsn, prev_hash, fvars>>
        /\ UNCHANGED <<is_open, writer, last_lsn, last_hash, reorder_buffer,
                       reorder_start, worm, second, call, result>>
        /\ wpc = "idle" /\ wpc' = "flush_close"
    BY DEF CloseWorm, Close, WGoto
  <1>2. Numbered(sidecar) /\ Numbered(security) /\ Chained(worm)
    BY DEF TrailsIInv, CopiesInv
  <1>3. /\ Numbered(security') /\ Len(security') = Len(security)
        /\ Numbered(sidecar') /\ Len(sidecar') = Len(sidecar)
    BY <1>1, <1>2 DEF fvars
  <1>4. Alike(Logged, worm, worm')
    BY <1>1, <1>2, SameAlike DEF Chained
  <1>5. SinkTypes'
    BY <1>1 DEF TrailsIInv, SinkTypes, Waiting, CGoto
  <1>6. "close_worm" \in Closing /\ "worm_closes" \in Closing
    BY DEF Closing
  <1>7. failed' \in BOOLEAN /\ shutdown' \in BOOLEAN /\ (failed => failed')
    BY <1>1 DEF TrailsIInv, ConsumerTypes, qvars
  <1> QED BY <1>1, <1>3, <1>4, <1>5, <1>6, <1>7, ClosingKeeps DEF qvars

LEMMA WormClosedKeeps == ASSUME TrailsIInv, WormClosed PROVE TrailsIInv'
  <1>1. PICK ok \in BOOLEAN : CloseStep("worm_closes", "close_security", ok)
    BY DEF WormClosed
  <1>2. wpc = "idle" /\ UNCHANGED <<wvars, fvars>>
    BY DEF WormClosed
  <1>3. Numbered(sidecar) /\ Numbered(security) /\ Chained(worm)
    BY DEF TrailsIInv, CopiesInv
  <1>4. /\ Numbered(security') /\ Len(security') = Len(security)
        /\ Numbered(sidecar') /\ Len(sidecar') = Len(sidecar)
    BY <1>2, <1>3 DEF fvars
  <1>5. Alike(Logged, worm, worm')
    BY <1>2, <1>3, SameAlike DEF wvars, Chained
  <1>6. SinkTypes'
    BY <1>2 DEF TrailsIInv, SinkTypes, Waiting, wvars
  <1>7. "worm_closes" \in Closing /\ "close_security" \in Closing
    BY DEF Closing
  <1> QED BY <1>1, <1>2, <1>4, <1>5, <1>6, <1>7, CloseStepKeeps, ClosingKeeps DEF wvars

(* The steps of the sink. *)
LEMMA FlushDoneKeeps ==
  ASSUME TrailsIInv, FlushDone, UNCHANGED <<qvars, cvars, fvars>>
  PROVE  TrailsIInv'
  <1> USE DEF TrailsIInv
  <1>1. /\ UNCHANGED <<is_open, writer, last_lsn, last_hash, reorder_buffer,
                       worm, second, call, result>>
        /\ \/ wpc = "flush_write" /\ wpc' = "write"
           \/ wpc = "flush_close" /\ wpc' = "close"
    BY DEF FlushDone, WGoto, WReturn, SinkTypes
  <1>2. reorder_start' \in {"none", "waiting", "expired"}
    BY DEF FlushDone, SinkTypes
  <1>3. QueueTypes' /\ ConsumerTypes'
    BY DEF QueueTypes, ConsumerTypes, qvars, cvars
  <1>4. SinkTypes'
    BY <1>1, <1>2 DEF SinkTypes, Waiting, NextRecord, cvars
  <1>5. LinkInv'
    BY <1>1 DEF LinkInv, LinkTo, Accepted, Rejected, Closing, qvars, cvars
  <1>6. Chained(worm)' /\ CopiesInv'
    BY <1>1 DEF CopiesInv, Chained, LinkTo, Numbered, fvars, qvars, cvars
  <1> QED BY <1>3, <1>4, <1>5, <1>6

(* The entry of the record that is processed continues the chain. *)
LEMMA NextEntry ==
  ASSUME TrailsIInv, wpc = "write"
  PROVE  LET e == RecordEntry(call)
         IN  /\ e \in Entries(Logged) /\ e.kind = "record" /\ e.content = item
             /\ e.first = Len(worm) + 1 /\ e.prev = LinkTo(worm, Len(worm) + 1)
             /\ Len(worm) = prev_lsn /\ cpc = "worm_returns" /\ ~failed /\ writer
  <1> USE DEF TrailsIInv
  <1>1. cpc = "worm_returns" /\ call = NextRecord
    BY DEF SinkTypes
  <1>2. ~failed /\ item \in Items /\ prev_lsn \in Nat
    BY <1>1 DEF ConsumerTypes, Processing, LinkInv
  <1>3. Len(worm) = prev_lsn /\ writer
    BY <1>1, <1>2 DEF LinkInv, Accepted, Rejected, Closing
  <1>4. prev_hash \in (Items \cup {None}) \X Nat
    <2>1. CASE prev_lsn = 0
      BY <2>1 DEF LinkInv, LinkTo
    <2>2. CASE prev_lsn > 0
      <3>1. worm[prev_lsn] \in Entries(Logged)
        BY <1>2, <1>3, <2>2 DEF Chained
      <3>2. worm[prev_lsn].content \in Logged /\ worm[prev_lsn].first \in Nat
        BY <3>1 DEF Entries, Logged
      <3>3. prev_hash = <<worm[prev_lsn].content, worm[prev_lsn].first>>
        BY <1>2, <2>2 DEF LinkInv, LinkTo
      <3> QED BY <3>2, <3>3 DEF Logged
    <2> QED BY <1>2, <2>1, <2>2
  <1>5. RecordEntry(call) =
          [kind |-> "record", first |-> prev_lsn + 1, last |-> prev_lsn + 1,
           prev |-> prev_hash, content |-> item, file |-> 0, layer |-> "buffer"]
    BY <1>1 DEF RecordEntry, Entry, NextRecord, Current
  <1>6. RecordEntry(call) \in Entries(Logged)
    BY <1>2, <1>4, <1>5 DEF Entries, Logged, Layers
  <1> QED BY <1>1, <1>2, <1>3, <1>5, <1>6 DEF LinkInv

LEMMA WriteRecordKeeps ==
  ASSUME TrailsIInv, UNCHANGED <<qvars, cvars, fvars>>, WriteRecord \/ WriteRecordFails
  PROVE  TrailsIInv'
  <1> USE DEF TrailsIInv
  <1> DEFINE e == RecordEntry(call)
  <1>1. wpc = "write" /\ UNCHANGED <<is_open, last_lsn, last_hash, reorder_buffer,
                                     reorder_start, second>>
    BY DEF WriteRecord, WriteRecordFails, WGoto, WReturn, WriteRaw, WriteRawFails
  <1>2. /\ e \in Entries(Logged) /\ e.kind = "record" /\ e.content = item
        /\ e.first = Len(worm) + 1 /\ e.prev = LinkTo(worm, Len(worm) + 1)
        /\ Len(worm) = prev_lsn /\ cpc = "worm_returns" /\ ~failed /\ writer
    BY <1>1, NextEntry
  <1> HIDE DEF e
  <1>3. worm \in Seq(Entries(Logged)) /\ second \in Nat /\ prev_lsn \in Nat
    BY DEF Chained, SinkTypes, LinkInv
  <1>4. QueueTypes' /\ ConsumerTypes'
    BY DEF QueueTypes, ConsumerTypes, qvars, cvars
  <1>5. ASSUME Extends(Logged, worm, worm', e)
        PROVE  /\ Chained(worm') /\ Len(worm') = prev_lsn + 1
               /\ worm'[prev_lsn + 1].content = item
               /\ LinkTo(worm', prev_lsn + 1) = LinkTo(worm, prev_lsn + 1)
    <2>1. /\ Chained(worm')
          /\ \A i \in 1 .. Len(worm) + 1 : LinkTo(worm', i) = LinkTo(worm, i)
          /\ worm'[Len(worm) + 1].content = e.content
      BY <1>2, <1>5, ExtendsChained
    <2> QED BY <1>2, <1>3, <1>5, <2>1 DEF Extends
  <1>6. CASE WriteRecord
    <2>1. WriteRaw(e) /\ wpc' = "commit" /\ UNCHANGED <<call, result, writer>>
      BY <1>6 DEF WriteRecord, WGoto, WriteRaw, e
    <2>2. Extends(Logged, worm, worm', e)
      BY <1>2, <1>3, <2>1, WriteRawExtends
    <2>3. SinkTypes'
      BY <1>1, <1>2, <2>1 DEF SinkTypes, Waiting, NextRecord, cvars
    <2>4. LinkInv'
      BY <1>1, <1>2, <1>3, <1>5, <2>1, <2>2
         DEF LinkInv, Accepted, Rejected, Closing, qvars, cvars
    <2>5. CopiesInv'
      BY <1>2, <1>3, <1>5, <2>2 DEF CopiesInv, Numbered, qvars, cvars, fvars
    <2> QED BY <1>4, <1>5, <2>2, <2>3, <2>4, <2>5
  <1>7. CASE WriteRecordFails
    <2>1. WriteRawFails(e) /\ wpc' = "idle" /\ result' = "failed" /\ writer' \in BOOLEAN
      <3>1. WriteRawFails(e) /\ wpc' = "idle" /\ result' = "failed"
        BY <1>7 DEF WriteRecordFails, WReturn, WGoto, e
      <3> QED BY <1>2, <3>1 DEF WriteRawFails
    <2>2. worm' = worm \/ Extends(Logged, worm, worm', e)
      BY <1>2, <1>3, <2>1, WriteRawFailsExtends
    <2>3. /\ Chained(worm') /\ prev_lsn <= Len(worm') /\ Len(worm') <= prev_lsn + 1
          /\ LinkTo(worm', prev_lsn + 1) = LinkTo(worm, prev_lsn + 1)
      BY <1>2, <1>3, <1>5, <2>2
    <2>4. SinkTypes'
      BY <1>1, <1>2, <2>1 DEF SinkTypes, Waiting, cvars
    <2>5. LinkInv'
      BY <1>1, <1>2, <1>3, <2>1, <2>3
         DEF LinkInv, Accepted, Rejected, Closing, qvars, cvars
    <2>6. CopiesInv'
      BY <1>2, <1>3, <2>3 DEF CopiesInv, Numbered, qvars, cvars, fvars, Chained
    <2> QED BY <1>4, <2>3, <2>4, <2>5, <2>6
  <1> QED BY <1>6, <1>7

LEMMA CommitRecordKeeps ==
  ASSUME TrailsIInv, UNCHANGED <<qvars, cvars, fvars>>, CommitRecord \/ CommitRecordFails
  PROVE  TrailsIInv'
  <1> USE DEF TrailsIInv
  <1>1. /\ wpc = "commit" /\ wpc' = "idle" /\ second' = second
        /\ UNCHANGED <<is_open, writer, reorder_buffer, reorder_start>>
        /\ worm' = worm \/ worm' = CurrentSynced(worm)
        /\ \/ /\ result' = "ok" /\ last_lsn' = call.lsn /\ last_hash' = Link(call)
           \/ result' = "failed" /\ UNCHANGED <<last_lsn, last_hash>>
    BY DEF CommitRecord, CommitRecordFails, WReturn, WGoto, Fsync, FsyncFails
  <1>2. /\ cpc = "worm_returns" /\ ~failed /\ prev_lsn \in Nat /\ last_lsn \in Nat
        /\ call.lsn = prev_lsn + 1 /\ Link(call) = <<item, prev_lsn + 1>>
        /\ Len(worm) = prev_lsn + 1 /\ worm[prev_lsn + 1].content = item
    BY <1>1 DEF SinkTypes, ConsumerTypes, Processing, LinkInv, NextRecord, Link
  <1>3. Alike(Logged, worm, worm')
    BY <1>1, SameAlike, SyncedAlike DEF Chained
  <1>4. /\ Chained(worm') /\ Len(worm') = prev_lsn + 1
        /\ worm'[prev_lsn + 1].content = item
        /\ LinkTo(worm', prev_lsn + 1) = LinkTo(worm, prev_lsn + 1)
    <2>1. Chained(worm) /\ prev_lsn + 1 \in 1 .. Len(worm)
      BY <1>2 DEF SinkTypes
    <2>2. /\ Chained(worm')
          /\ LinkTo(worm', prev_lsn + 1) = LinkTo(worm, prev_lsn + 1)
      BY <1>2, <1>3, <2>1, AlikeChained
    <2>3. /\ Len(worm') = Len(worm)
          /\ SameEntry(worm[prev_lsn + 1], worm'[prev_lsn + 1])
      BY <1>3, <2>1 DEF Alike
    <2> QED BY <1>2, <2>2, <2>3 DEF SameEntry
  <1>5. QueueTypes' /\ ConsumerTypes'
    BY DEF QueueTypes, ConsumerTypes, qvars, cvars
  <1>6. SinkTypes'
    BY <1>1, <1>2 DEF SinkTypes, Waiting, cvars
  <1>7. LinkInv'
    BY <1>1, <1>2, <1>4 DEF LinkInv, Accepted, Rejected, Closing, qvars, cvars
  <1>8. CopiesInv'
    BY <1>1, <1>2, <1>4 DEF CopiesInv, Numbered, qvars, cvars, fvars
  <1> QED BY <1>4, <1>5, <1>6, <1>7, <1>8

LEMMA CloseFileKeeps ==
  ASSUME TrailsIInv, UNCHANGED <<qvars, cvars, fvars>>, CloseFile \/ CloseFileFails
  PROVE  TrailsIInv'
  <1>1. /\ wpc = "close" /\ wpc' = "idle" /\ result' \in {"ok", "failed"}
        /\ UNCHANGED <<last_lsn, last_hash, reorder_buffer, reorder_start, second>>
        /\ worm' = worm \/ worm' = Flushed(worm) \/ worm' = CurrentSynced(Flushed(worm))
    BY DEF CloseFile, CloseFileFails, WReturn, WGoto
  <1>2. writer' \in BOOLEAN /\ is_open' \in BOOLEAN
    BY DEF CloseFile, CloseFileFails, TrailsIInv, SinkTypes
  <1>3. cpc = "worm_closes" /\ CGoto("worm_closes", "worm_closes")
    BY <1>1 DEF TrailsIInv, SinkTypes, CGoto, cvars
  <1>4. Numbered(sidecar) /\ Numbered(security) /\ Chained(worm)
    BY DEF TrailsIInv, CopiesInv
  <1>5. /\ Numbered(security') /\ Len(security') = Len(security)
        /\ Numbered(sidecar') /\ Len(sidecar') = Len(sidecar)
    BY <1>4 DEF fvars
  <1>6. Alike(Logged, worm, worm')
    <2>1. Alike(Logged, worm, Flushed(worm)) /\ Flushed(worm) \in Seq(Entries(Logged))
      BY <1>4, FlushedAlike DEF Chained, Alike
    <2>2. Alike(Logged, Flushed(worm), CurrentSynced(Flushed(worm)))
      BY <2>1, SyncedAlike
    <2>3. Alike(Logged, worm, CurrentSynced(Flushed(worm)))
      BY <1>4, <2>1, <2>2, AlikeAlike DEF Chained
    <2> QED BY <1>1, <1>4, <2>1, <2>3, SameAlike DEF Chained
  <1>7. SinkTypes'
    BY <1>1, <1>2 DEF TrailsIInv, SinkTypes, Waiting
  <1>8. "worm_closes" \in Closing
    BY DEF Closing
  <1>9. failed' \in BOOLEAN /\ shutdown' \in BOOLEAN /\ (failed => failed')
    BY DEF TrailsIInv, ConsumerTypes, qvars
  <1> QED BY <1>1, <1>3, <1>5, <1>6, <1>7, <1>8, <1>9, ClosingKeeps DEF qvars, cvars

LEMMA WormStepKeeps ==
  ASSUME TrailsIInv, UNCHANGED <<qvars, cvars, fvars>>, WormStep
  PROVE  TrailsIInv'
  <1>1. Waiting = {} /\ wpc \notin {"flush_gap", "mark", "commit_gap"}
    BY DEF TrailsIInv, SinkTypes
  <1>2. ~FlushOne /\ ~FlushOneFails
    BY <1>1 DEF FlushOne, FlushOneFails, NextReady
  <1>3. ~WriteGap /\ ~WriteGapFails /\ ~CommitGap /\ ~CommitGapFails
    BY <1>1 DEF WriteGap, WriteGapFails, CommitGap, CommitGapFails, WGoto, WReturn
  <1> QED BY <1>2, <1>3, FlushDoneKeeps, WriteRecordKeeps, CommitRecordKeeps,
             CloseFileKeeps DEF WormStep

LEMMA ConsumeKeeps == ASSUME TrailsIInv, Consume PROVE TrailsIInv'
  <1>1. CASE CheckShutdown \/ DrainEmpty \/ DiscardRecord \/ TakeRecord
    BY <1>1, LoopKeeps, TakeKeeps
  <1>2. CASE CallWorm \/ WormOk \/ WormFails
    BY <1>2, CallKeeps, WormOkKeeps, WormFailsKeeps
  <1>3. CASE WriteSecurity \/ WriteSecurityFails \/ WriteSidecar \/ WriteSidecarFails
             \/ CommitLink
    BY <1>3, SecurityKeeps, SecurityFailsKeeps, SidecarKeeps, SidecarFailsKeeps,
       CommitLinkKeeps
  <1>4. CASE CloseSidecar \/ FlushWorm \/ CloseWorm \/ WormClosed
    BY <1>4, CloseSidecarKeeps, FlushWormKeeps, CloseWormKeeps, WormClosedKeeps
  <1>5. CASE FlushSecurity \/ CloseSecurity
    BY <1>5, SyncSecurityKeeps DEF FlushSecurity, CloseSecurity
  <1>6. CASE WormStep /\ UNCHANGED <<qvars, cvars, fvars>>
    BY <1>6, WormStepKeeps
  <1> QED BY <1>1, <1>2, <1>3, <1>4, <1>5, <1>6 DEF Consume

LEMMA TrailsInvariance == TrailsIInv /\ [Next]_vars => TrailsIInv'
  <1> SUFFICES ASSUME TrailsIInv, [Next]_vars PROVE TrailsIInv'
    OBVIOUS
  <1>1. CASE Next
    BY <1>1, ProducersKeep, ShutdownKeeps, ConsumeKeeps DEF Next
  <1>2. CASE UNCHANGED vars
    <2>1. SinkTypes' /\ Chained(worm)' /\ LinkInv' /\ CopiesInv'
      BY <1>2, SameTrails DEF TrailsIInv, vars, qvars, cvars
    <2>2. QueueTypes' /\ ConsumerTypes'
      BY <1>2 DEF TrailsIInv, QueueTypes, ConsumerTypes, vars, qvars, cvars
    <2> QED BY <2>1, <2>2 DEF TrailsIInv
  <1> QED BY <1>1, <1>2

LEMMA TrailsImplied == TrailsIInv => TrailsInv
  <1> SUFFICES ASSUME TrailsIInv PROVE TrailsInv
    OBVIOUS
  <1> USE DEF TrailsIInv
  <1>1. /\ DOMAIN worm = 1 .. Len(worm) /\ Len(worm) \in Nat
        /\ \A i \in 1 .. Len(worm) : worm[i] \in Entries(Logged)
    BY DEF Chained
  <1>2. WormTypeOK
    <2>1. \A i \in DOMAIN worm :
            /\ worm[i].kind \in {"record", "gap"}
            /\ worm[i].first \in Nat /\ worm[i].last \in Nat
            /\ worm[i].file \in Nat \cup {Replaced} /\ worm[i].layer \in Layers
      BY <1>1 DEF Entries, Logged
    <2> QED BY <2>1 DEF SinkTypes, WormTypeOK, Flushing
  <1>3. TypeOK
    BY <1>2 DEF TypeOK, QueueTypes, ConsumerTypes, LinkInv, Closing, Processing
  <1>4. FilesAgree
    <2>1. \A i \in 1 .. Len(worm) : worm[i].kind = "record" /\ worm[i].first = i
      BY <1>1 DEF Entries, Logged, Chained
    <2>2. /\ \A i \in 1 .. Len(security) : security[i].lsn = i
          /\ \A i \in DOMAIN sidecar : sidecar[i].lsn = i
      BY DEF CopiesInv, Numbered
    <2>3. /\ prev_lsn <= Len(security) /\ Len(security) <= Len(worm)
          /\ Len(worm) <= prev_lsn + 1
          /\ Signed => prev_lsn <= Len(sidecar) /\ Len(sidecar) <= Len(security)
          /\ Len(security) \in Nat /\ prev_lsn \in Nat
      BY DEF CopiesInv, LinkInv, Numbered
    <2>4. item = None /\ ~failed => Len(worm) = prev_lsn
      BY DEF LinkInv, ConsumerTypes, SinkTypes, Accepted, Rejected, Processing
    <2> QED BY <2>1, <2>2, <2>3, <2>4 DEF FilesAgree
  <1>5. ChainIsUnbroken
    BY <1>1 DEF Chained, LinkTo, SinkTypes, ChainIsUnbroken
  <1> QED BY <1>3, <1>4, <1>5 DEF TrailsInv

(* However many records and producers, and whichever write fails: the LSNs *)
(* in the WORM file, the security file and the sidecar are 1, 2, ...       *)
(* without a gap, no file lags by more than the record in process, and     *)
(* every record of the WORM file is linked to the one before it            *)
(* (process_audit_record, write_worm_record).                              *)
THEOREM TrailsAgree == Spec => []TrailsInv
  <1> QED BY AuditInitHolds, TrailsInvariance, TrailsImplied, PTL DEF Spec

(* The pipeline implements AuditLog.  A failure of the closing steps may   *)
(* give up nothing, which AuditLog allows when nothing is pending: the     *)
(* consumer closes the files of a healthy pipeline only after the last     *)
(* record, because no push_audit is under way when it is shut down.        *)
StopInv ==
  /\ final => shutdown
  /\ shutdown /\ ~failed => \A p \in Producers : ppc[p] = "idle"
  /\ cpc \in Closing => final
  /\ cpc \in Closing /\ ~failed => ring = <<>>

LEMMA CloseStepEffect ==
  ASSUME TrailsIInv, NEW from, NEW to, NEW ok \in BOOLEAN, CloseStep(from, to, ok)
  PROVE  /\ cpc = from /\ UNCHANGED <<ring, ppc, final, item, prev_lsn>>
         /\ \/ failed' = failed /\ shutdown' = shutdown
            \/ failed' = TRUE /\ shutdown' = TRUE
  <1>1. failed \in BOOLEAN /\ shutdown \in BOOLEAN
    BY DEF TrailsIInv, ConsumerTypes
  <1> QED BY <1>1 DEF CloseStep, CGoto

LEMMA ClosingEffect ==
  ASSUME TrailsIInv, CloseSidecar \/ FlushWorm \/ FlushSecurity \/ WormClosed
                       \/ CloseSecurity
  PROVE  /\ cpc \in Closing /\ UNCHANGED <<ring, ppc, final, item, prev_lsn>>
         /\ \/ failed' = failed /\ shutdown' = shutdown
            \/ failed' = TRUE /\ shutdown' = TRUE
         /\ worm' = worm \/ Flush \/ FlushFails
  <1>1. /\ \E from \in Closing, to \in Closing, ok \in BOOLEAN : CloseStep(from, to, ok)
        /\ worm' = worm \/ Flush \/ FlushFails
    <2> USE DEF Closing, wvars
    <2>1. CASE CloseSidecar
      BY <2>1 DEF CloseSidecar
    <2>2. CASE FlushWorm
      BY <2>2 DEF FlushWorm
    <2>3. CASE FlushSecurity \/ CloseSecurity
      BY <2>3 DEF FlushSecurity, CloseSecurity, SyncSecurity
    <2>4. CASE WormClosed
      <3>1. (result = "ok") \in BOOLEAN /\ worm' = worm
            /\ CloseStep("worm_closes", "close_security", result = "ok")
        BY <2>4 DEF WormClosed
      <3> QED BY <3>1
    <2> QED BY <2>1, <2>2, <2>3, <2>4
  <1>2. PICK from \in Closing, to \in Closing, ok \in BOOLEAN : CloseStep(from, to, ok)
    BY <1>1
  <1>3. /\ cpc = from /\ UNCHANGED <<ring, ppc, final, item, prev_lsn>>
        /\ \/ failed' = failed /\ shutdown' = shutdown
           \/ failed' = TRUE /\ shutdown' = TRUE
    BY <1>2, CloseStepEffect
  <1> QED BY <1>1, <1>2, <1>3

LEMMA StopInvariance ==
  ASSUME TrailsIInv, StopInv, [Next]_vars
  PROVE  StopInv'
  <1> USE DEF StopInv
  <1>1. \A p \in Producers : ppc[p] \in {"idle", "try", "full"}
    BY DEF TrailsIInv, QueueTypes
  <1>2. CASE \E p \in Producers : PushAudit(p) \/ Push(p)
    <2>1. PICK p \in Producers : PushAudit(p) \/ Push(p)
      BY <1>2
    <2>2. UNCHANGED <<shutdown, failed, final, cpc>>
      BY <2>1 DEF PushAudit, Push, TryPush, TryPushFull, GiveUpOrSpin, cvars
    <2>3. CASE shutdown /\ ~failed
      <3>1. ppc[p] = "idle"
        BY <2>3
      <3>2. PushAudit(p)
        BY <2>1, <3>1 DEF Push, TryPush, TryPushFull, GiveUpOrSpin, PGoto
      <3>3. ring' = ring /\ ppc' = [ppc EXCEPT ![p] = "idle"]
        BY <2>3, <3>2 DEF PushAudit, PGoto, Stopping
      <3>4. \A q \in Producers : ppc'[q] = "idle"
        BY <2>3, <3>3 DEF TrailsIInv, QueueTypes
      <3> QED BY <2>2, <3>3, <3>4
    <2> QED BY <2>2, <2>3
  <1>3. CASE Shutdown
    BY <1>3 DEF Shutdown, cvars
  <1>4. CASE CheckShutdown \/ DrainEmpty \/ DiscardRecord \/ TakeRecord
    BY <1>4 DEF CheckShutdown, DrainEmpty, DiscardRecord, TakeRecord, CGoto,
                AfterRecord, Closing, qvars
  <1>5. CASE CallWorm \/ WormOk \/ WriteSecurity \/ WriteSidecar \/ CommitLink
    BY <1>5 DEF CallWorm, WormOk, WriteSecurity, WriteSidecar, CommitLink, CGoto,
                AfterRecord, Closing, qvars
  <1>6. CASE WormFails \/ WriteSecurityFails \/ WriteSidecarFails
    BY <1>6 DEF WormFails, WriteSecurityFails, WriteSidecarFails, RecordFails,
                AfterRecord, Closing
  <1>7. CASE CloseSidecar \/ FlushWorm \/ FlushSecurity \/ WormClosed \/ CloseSecurity
    BY <1>7, ClosingEffect
  <1>8. CASE CloseWorm
    BY <1>8 DEF CloseWorm, CGoto, Closing, qvars
  <1>9. CASE WormStep /\ UNCHANGED <<qvars, cvars, fvars>>
    BY <1>9 DEF qvars, cvars
  <1>10. CASE UNCHANGED vars
    BY <1>10 DEF vars, qvars, cvars
  <1> QED BY <1>2, <1>3, <1>4, <1>5, <1>6, <1>7, <1>8, <1>9, <1>10 DEF Next, Consume

(* What is persisted stays as it is, whatever the sink does to the file. *)
LEMMA ContentsStay ==
  ASSUME TrailsIInv, prev_lsn' = prev_lsn,
         \/ worm' = worm
         \/ Alike(Logged, worm, worm')
         \/ \E e \in Entries(Logged) : Extends(Logged, worm, worm', e)
  PROVE  [i \in 1 .. prev_lsn |-> worm[i].content]'
           = [i \in 1 .. prev_lsn |-> worm[i].content]
  <1>1. prev_lsn \in Nat /\ Len(worm) \in Nat /\ prev_lsn <= Len(worm)
    BY DEF TrailsIInv, LinkInv, Chained
  <1>2. \A i \in 1 .. prev_lsn : worm'[i].content = worm[i].content
    BY <1>1 DEF Alike, Extends, SameEntry
  <1> QED BY <1>2

LEMMA SinkKeepsContents ==
  ASSUME TrailsIInv, WormStep \/ Flush \/ FlushFails, prev_lsn' = prev_lsn
  PROVE  [i \in 1 .. prev_lsn |-> worm[i].content]'
           = [i \in 1 .. prev_lsn |-> worm[i].content]
  <1>1. /\ worm \in Seq(Entries(Logged)) /\ second \in Nat /\ Waiting = {}
        /\ wpc \notin {"flush_gap", "mark", "commit_gap"}
    BY DEF TrailsIInv, Chained, SinkTypes
  <1>2. ~FlushOne /\ ~FlushOneFails
    BY <1>1 DEF FlushOne, FlushOneFails, NextReady
  <1>3. ~WriteGap /\ ~WriteGapFails /\ ~CommitGap /\ ~CommitGapFails
    BY <1>1 DEF WriteGap, WriteGapFails, CommitGap, CommitGapFails, WGoto, WReturn
  <1>4. CASE FlushDone \/ CommitRecordFails \/ FlushFails
    <2>1. worm' = worm
      BY <1>4 DEF FlushDone, CommitRecordFails, FsyncFails, FlushFails
    <2> QED BY <2>1, ContentsStay
  <1>5. CASE WriteRecord \/ WriteRecordFails
    <2>1. wpc = "write"
      BY <1>5 DEF WriteRecord, WriteRecordFails, WGoto, WReturn
    <2>2. RecordEntry(call) \in Entries(Logged) /\ writer
      BY <2>1, NextEntry
    <2>3. WriteRaw(RecordEntry(call)) \/ WriteRawFails(RecordEntry(call))
      BY <1>5 DEF WriteRecord, WriteRecordFails
    <2>4. worm' = worm \/ Extends(Logged, worm, worm', RecordEntry(call))
      BY <1>1, <2>2, <2>3, WriteRawExtends, WriteRawFailsExtends
    <2> QED BY <2>2, <2>4, ContentsStay
  <1>6. CASE CommitRecord \/ CloseFile \/ CloseFileFails \/ Flush
    <2>1. \/ worm' = worm \/ worm' = CurrentSynced(worm) \/ worm' = Flushed(worm)
          \/ worm' = CurrentSynced(Flushed(worm))
      <3>1. CASE CommitRecord
        BY <3>1 DEF CommitRecord, Fsync
      <3>2. CASE CloseFile \/ CloseFileFails
        BY <3>2 DEF CloseFile, CloseFileFails
      <3>3. CASE Flush
        BY <3>3 DEF Flush
      <3> QED BY <1>6, <3>1, <3>2, <3>3
    <2>2. Alike(Logged, worm, Flushed(worm)) /\ Alike(Logged, worm, CurrentSynced(worm))
      BY <1>1, FlushedAlike, SyncedAlike
    <2>3. Alike(Logged, worm, CurrentSynced(Flushed(worm)))
      <3>1. Flushed(worm) \in Seq(Entries(Logged))
        BY <2>2 DEF Alike
      <3> QED BY <1>1, <2>2, <3>1, SyncedAlike, AlikeAlike
    <2> QED BY <2>1, <2>2, <2>3, ContentsStay
  <1> QED BY <1>2, <1>3, <1>4, <1>5, <1>6 DEF WormStep

LEMMA Silent ==
  ASSUME UNCHANGED <<ring, item, failed>>,
         [i \in 1 .. prev_lsn |-> worm[i].content]'
           = [i \in 1 .. prev_lsn |-> worm[i].content]
  PROVE  UNCHANGED Log!vars
  BY DEF Log!vars

(* A record that ends in a failure is given up. *)
LEMMA FailureIsAFail ==
  ASSUME TrailsIInv, NEW from, RecordFails(from), from \in Processing, worm' = worm
  PROVE  Log!Fail
  <1>1. /\ ring \in Seq(Items) /\ item \in Items /\ item # None /\ ~failed
        /\ item' = None /\ ring' = ring /\ failed' = TRUE
    BY NoneAssumption DEF TrailsIInv, QueueTypes, ConsumerTypes, RecordFails
  <1>2. <<item>> \o ring # <<>> /\ Tail(<<item>> \o ring) = ring
    BY <1>1
  <1>3. [i \in 1 .. prev_lsn |-> worm[i].content]'
          = [i \in 1 .. prev_lsn |-> worm[i].content]
    BY ContentsStay DEF RecordFails
  <1> QED BY <1>1, <1>2, <1>3 DEF Log!Fail

LEMMA PushesRefine ==
  ASSUME TrailsIInv, NEW p \in Producers, PushAudit(p) \/ Push(p)
  PROVE  [Log!Next]_(Log!vars)
  <1>1. UNCHANGED <<wvars, cvars, failed>>
    BY DEF PushAudit, Push, TryPush, TryPushFull, GiveUpOrSpin
  <1>2. [i \in 1 .. prev_lsn |-> worm[i].content]'
          = [i \in 1 .. prev_lsn |-> worm[i].content]
    BY <1>1, ContentsStay DEF cvars, wvars
  <1>3. CASE TryPush(p)
    <2> DEFINE x == <<p, pushes[p]>>
    <2>1. ring \in Seq(Items) /\ item \in Items \cup {None} /\ ring' = Append(ring, x)
      BY <1>3 DEF TrailsIInv, QueueTypes, ConsumerTypes, TryPush
    <2>2. x \in Items
      <3>1. pushes[p] \in 1 .. MaxPushes
        BY <1>3, MaxPushesAssumption DEF TrailsIInv, QueueTypes, TryPush, PGoto
      <3> QED BY <3>1 DEF Items
    <2> HIDE DEF x
    <2>3. item # None => <<item>> \o Append(ring, x) = Append(<<item>> \o ring, x)
      BY <2>1, <2>2
    <2>4. Log!Accept(x)
      BY <1>1, <1>2, <2>1, <2>3 DEF Log!Accept, cvars
    <2> QED BY <2>2, <2>4 DEF Log!Next
  <1>4. CASE PushAudit(p) \/ TryPushFull(p) \/ GiveUpOrSpin(p)
    <2>1. UNCHANGED <<ring, item, failed>>
      BY <1>1, <1>4 DEF PushAudit, TryPushFull, GiveUpOrSpin, cvars
    <2> QED BY <1>2, <2>1, Silent
  <1> QED BY <1>3, <1>4 DEF Push

LEMMA LoopRefines ==
  ASSUME TrailsIInv, CheckShutdown \/ DrainEmpty \/ DiscardRecord \/ TakeRecord
  PROVE  [Log!Next]_(Log!vars)
  <1>1. UNCHANGED <<wvars, failed, prev_lsn>> /\ cpc \in {"loop", "drain"}
    BY DEF CheckShutdown, DrainEmpty, DiscardRecord, TakeRecord, CGoto, qvars
  <1>2. [i \in 1 .. prev_lsn |-> worm[i].content]'
          = [i \in 1 .. prev_lsn |-> worm[i].content]
    BY <1>1, ContentsStay DEF wvars
  <1>3. item = None /\ ring \in Seq(Items)
    BY <1>1 DEF TrailsIInv, ConsumerTypes, QueueTypes, Processing
  <1>4. CASE CheckShutdown \/ DrainEmpty
    <2>1. UNCHANGED <<ring, item, failed>>
      BY <1>1, <1>4 DEF CheckShutdown, DrainEmpty, qvars
    <2> QED BY <1>2, <2>1, Silent
  <1>5. CASE DiscardRecord
    <2>1. failed /\ ring # <<>> /\ ring' = Tail(ring) /\ item' = item
      BY <1>5 DEF DiscardRecord
    <2>2. Log!GiveUp
      BY <1>1, <1>2, <1>3, <2>1 DEF Log!GiveUp
    <2> QED BY <2>2 DEF Log!Next
  <1>6. CASE TakeRecord
    <2>1. ring # <<>> /\ item' = Head(ring) /\ ring' = Tail(ring)
      BY <1>6 DEF TakeRecord
    <2>2. item' \in Items /\ item' # None /\ <<item'>> \o ring' = ring
      BY <1>3, <2>1, NoneAssumption
    <2> QED BY <1>1, <1>2, <1>3, <2>2 DEF Log!vars
  <1> QED BY <1>4, <1>5, <1>6

LEMMA ProcessRefines ==
  ASSUME TrailsIInv, CallWorm \/ WormOk \/ WriteSecurity \/ WriteSidecar
  PROVE  [Log!Next]_(Log!vars)
  <1>1. UNCHANGED <<ring, item, failed, prev_lsn, worm>>
    BY DEF CallWorm, WriteWormRecord, ReceiveInOrder, ReceiveBroken, ReceiveEarly,
           ReceiveLate, Receive, WormOk, WriteSecurity, WriteSidecar, qvars, wvars
  <1> QED BY <1>1, ContentsStay, Silent

LEMMA FailuresRefine ==
  ASSUME TrailsIInv, WormFails \/ WriteSecurityFails \/ WriteSidecarFails
  PROVE  [Log!Next]_(Log!vars)
  <1>1. worm' = worm
    BY DEF WormFails, WriteSecurityFails, WriteSidecarFails, wvars
  <1>2. \/ RecordFails("worm_returns") \/ RecordFails("security")
        \/ RecordFails("sidecar")
    BY DEF WormFails, WriteSecurityFails, WriteSidecarFails
  <1>3. Log!Fail
    BY <1>1, <1>2, FailureIsAFail DEF Processing
  <1> QED BY <1>3 DEF Log!Next

LEMMA CommitLinkRefines ==
  ASSUME TrailsIInv, CommitLink
  PROVE  [Log!Next]_(Log!vars)
  <1>1. /\ cpc = "commit" /\ prev_lsn' = prev_lsn + 1 /\ item' = None
        /\ UNCHANGED <<ring, failed, worm>>
    BY DEF CommitLink, qvars, wvars
  <1>2. /\ ring \in Seq(Items) /\ item \in Items /\ item # None /\ ~failed
        /\ prev_lsn \in Nat /\ Len(worm) = prev_lsn + 1
        /\ worm[prev_lsn + 1].content = item
    BY <1>1, NoneAssumption
       DEF TrailsIInv, QueueTypes, ConsumerTypes, LinkInv, Accepted, Processing
  <1>3. /\ <<item>> \o ring # <<>>
        /\ Head(<<item>> \o ring) = item /\ Tail(<<item>> \o ring) = ring
    BY <1>2
  <1> DEFINE persisted == [i \in 1 .. prev_lsn |-> worm[i].content]
             longer    == [i \in 1 .. prev_lsn + 1 |-> worm[i].content]
  <1>4. longer = Append(persisted, item)
    <2> DEFINE S == {worm[i].content : i \in 1 .. prev_lsn + 1}
    <2>1. persisted \in Seq(S) /\ Len(persisted) = prev_lsn
      BY <1>2
    <2>2. longer \in Seq(S) /\ Len(longer) = prev_lsn + 1
      BY <1>2
    <2>3. item \in S
      BY <1>2
    <2>4. \A i \in 1 .. prev_lsn : persisted[i] = worm[i].content
      OBVIOUS
    <2>5. \A i \in 1 .. prev_lsn + 1 : longer[i] = worm[i].content
      OBVIOUS
    <2> HIDE DEF persisted, longer, S
    <2>6. /\ Append(persisted, item) \in Seq(S)
          /\ Len(Append(persisted, item)) = prev_lsn + 1
          /\ \A i \in 1 .. prev_lsn + 1 : Append(persisted, item)[i] = worm[i].content
      BY <1>2, <2>1, <2>3, <2>4
    <2> QED BY <1>2, <2>2, <2>5, <2>6, SeqEqual
  <1>5. [i \in 1 .. prev_lsn |-> worm[i].content]' = longer
    BY <1>1
  <1> HIDE DEF longer
  <1>6. Log!Persist
    BY <1>1, <1>2, <1>3, <1>4, <1>5 DEF Log!Persist
  <1> QED BY <1>6 DEF Log!Next

LEMMA ClosingRefines ==
  ASSUME TrailsIInv, StopInv,
         \/ CloseSidecar \/ FlushWorm \/ FlushSecurity
         \/ CloseWorm \/ WormClosed \/ CloseSecurity
  PROVE  [Log!Next]_(Log!vars)
  <1>1. /\ cpc \in Closing /\ UNCHANGED <<ring, item, prev_lsn>>
        /\ (failed' = failed \/ failed' = TRUE)
        /\ (worm' = worm \/ Flush \/ FlushFails)
    <2>1. CASE CloseWorm
      BY <2>1 DEF CloseWorm, CGoto, Close, Closing, qvars
    <2>2. CASE ~CloseWorm
      BY <2>2, ClosingEffect
    <2> QED BY <2>1, <2>2
  <1>2. [i \in 1 .. prev_lsn |-> worm[i].content]'
          = [i \in 1 .. prev_lsn |-> worm[i].content]
    BY <1>1, ContentsStay, SinkKeepsContents
  <1>3. CASE failed' = failed
    BY <1>1, <1>2, <1>3, Silent
  <1>4. CASE failed' # failed
    <2>1. failed' = TRUE /\ ~failed /\ ring = <<>> /\ item = None
      BY <1>1, <1>4 DEF StopInv, TrailsIInv, ConsumerTypes, Processing, Closing
    <2>2. Log!Fail
      BY <1>1, <1>2, <2>1 DEF Log!Fail
    <2> QED BY <2>2 DEF Log!Next
  <1> QED BY <1>3, <1>4

LEMMA StepsRefine ==
  ASSUME TrailsIInv, StopInv, [Next]_vars
  PROVE  [Log!Next]_(Log!vars)
  <1>1. CASE \E p \in Producers : PushAudit(p) \/ Push(p)
    BY <1>1, PushesRefine
  <1>2. CASE Shutdown \/ UNCHANGED vars
    <2>1. UNCHANGED <<ring, item, failed, prev_lsn, worm>>
      BY <1>2 DEF Shutdown, vars, wvars, qvars, cvars
    <2> QED BY <2>1, ContentsStay, Silent
  <1>3. CASE WormStep /\ UNCHANGED <<qvars, cvars, fvars>>
    BY <1>3, SinkKeepsContents, Silent DEF qvars, cvars
  <1>4. CASE Consume
    BY <1>3, <1>4, LoopRefines, ProcessRefines, FailuresRefine, CommitLinkRefines,
       ClosingRefines DEF Consume
  <1> QED BY <1>1, <1>2, <1>4 DEF Next

(* For any producers and pushes: records are persisted in the order in     *)
(* which the ring accepted them, none is lost, duplicated or overtaken     *)
(* before the first persistence error, and nothing is persisted after it   *)
(* (audit_consumer_loop, process_audit_record, record_failure).            *)
THEOREM PipelineIsALog == Spec => ImplementsAuditLog
  <1>1. Init => Log!Init
    BY DEF Init, WormInit, Log!Init
  <1>2. Init => StopInv
    BY DEF Init, StopInv, Closing
  <1> QED BY <1>1, <1>2, AuditInitHolds, TrailsInvariance, StopInvariance, StepsRefine,
             PTL DEF Spec, ImplementsAuditLog, Log!Spec

(* A clean stop leaves everything on the device, if no file was rotated:   *)
(* sync_all does not reach a file that was, and with Rotates the theorem   *)
(* is false.  Every entry is then in the one file that is open, the writer *)
(* of a healthy pipeline is there until that file is closed, and each step *)
(* of the closing that succeeds brings its file one layer on.              *)
OneFile(f)  == \A i \in 1 .. Len(f) : f[i].file = Current
OnDevice(f) == \A i \in 1 .. Len(f) : Durable(f[i])
NoBuffer(f) == \A i \in 1 .. Len(f) : f[i].layer # "buffer"

FileClosed == \/ cpc \in {"close_security", "stopped"}
              \/ cpc = "worm_closes" /\ wpc = "idle"

LayersInv ==
  /\ OneFile(worm)
  /\ ~failed =>
       /\ cpc \in Closing /\ ~FileClosed => writer
       /\ cpc \in Closing \ {"close_sidecar"} => NoBuffer(sidecar)
       /\ FileClosed /\ (cpc = "worm_closes" => result = "ok") => OnDevice(worm)
       /\ cpc = "stopped" => OnDevice(security)

LEMMA LinesSettle ==
  ASSUME NEW f, Numbered(f)
  PROVE  NoBuffer(Flushed(f)) /\ OnDevice(Synced(Flushed(f)))
  <1> DEFINE g == Flushed(f)
             h == Synced(g)
  <1>1. DOMAIN f = 1 .. Len(f) /\ Len(f) \in Nat /\ \A i \in 1 .. Len(f) : f[i] \in Lines
    BY DEF Numbered
  <1>2. Numbered(g) /\ Len(g) = Len(f) /\ Numbered(h) /\ Len(h) = Len(f)
    BY LinesPromoted DEF Flushed, Synced, Layers
  <1>3. ASSUME NEW i \in 1 .. Len(f) PROVE g[i].layer \in {"cache", "media"}
    <2>1. f[i] \in Lines /\ g[i] = IF f[i].layer = "buffer"
                                     THEN [f[i] EXCEPT !.layer = "cache"] ELSE f[i]
      BY <1>1 DEF Flushed, Promote
    <2> HIDE DEF g
    <2> QED BY <2>1 DEF Lines, Layers
  <1>4. ASSUME NEW i \in 1 .. Len(f) PROVE h[i].layer = "media"
    <2>1. g[i] \in Lines /\ i \in DOMAIN g
      BY <1>2 DEF Numbered
    <2> HIDE DEF g
    <2>2. h[i] = IF g[i].layer = "cache"
                   THEN [g[i] EXCEPT !.layer = "media"] ELSE g[i]
      BY <2>1 DEF Synced, Promote
    <2> HIDE DEF h
    <2> QED BY <1>3, <2>1, <2>2 DEF Lines
  <1> HIDE DEF g, h
  <1>5. NoBuffer(g)
    BY <1>2, <1>3 DEF NoBuffer
  <1>6. OnDevice(h)
    BY <1>2, <1>4 DEF OnDevice, Durable
  <1> QED BY <1>5, <1>6 DEF g, h

(* No operation but the renaming gives an entry another file. *)
LEMMA FileStays ==
  ASSUME NEW f \in Seq(Entries(Logged)), OneFile(f)
  PROVE  OneFile(Flushed(f)) /\ OneFile(CurrentSynced(f))
  <1>1. DOMAIN f = 1 .. Len(f) /\ Len(f) \in Nat
        /\ \A i \in 1 .. Len(f) : f[i] \in Entries(Logged) /\ f[i].file = Current
    BY DEF OneFile
  <1>2. Len(Flushed(f)) = Len(f) /\ Len(CurrentSynced(f)) = Len(f)
    BY FlushedAlike, SyncedAlike DEF Alike
  <1>3. ASSUME NEW i \in 1 .. Len(f), NEW from \in Layers, NEW to \in Layers
        PROVE  Promote(f, from, to)[i].file = Current
    <2>1. Promote(f, from, to)[i] = f[i]
          \/ Promote(f, from, to)[i] = [f[i] EXCEPT !.layer = to]
      BY <1>1 DEF Promote
    <2> DEFINE e == Promote(f, from, to)[i]
    <2>2. f[i] \in Entries(Logged) /\ f[i].file = Current
      BY <1>1
    <2>3. e = f[i] \/ e = [f[i] EXCEPT !.layer = to]
      BY <2>1
    <2> HIDE DEF e
    <2>4. e.file = Current
      BY <2>2, <2>3 DEF Entries
    <2> QED BY <2>4 DEF e
  <1>4. \A i \in 1 .. Len(f) : CurrentSynced(f)[i] = Synced(f)[i]
    BY <1>1 DEF CurrentSynced
  <1> QED BY <1>2, <1>3, <1>4 DEF OneFile, Flushed, Synced, Layers

LEMMA WrittenInFile ==
  ASSUME NEW f \in Seq(Entries(Logged)), OneFile(f),
         NEW e \in Entries(Logged), e.file = Current, NEW g \in Writes(f, e)
  PROVE  OneFile(g)
  <1>1. Append(f, e) \in Seq(Entries(Logged)) /\ OneFile(Append(f, e))
    BY DEF OneFile
  <1>2. Flushed(f) \in Seq(Entries(Logged)) /\ OneFile(Flushed(f))
    BY FlushedAlike, FileStays DEF Alike
  <1>3. OneFile(Append(Flushed(f), e))
    BY <1>2 DEF OneFile
  <1> QED BY <1>1, <1>3, FileStays DEF Writes

(* What CloseFile leaves behind when all is in the file it closes. *)
LEMMA FileSettles ==
  ASSUME NEW f \in Seq(Entries(Logged)), OneFile(f)
  PROVE  OnDevice(CurrentSynced(Flushed(f)))
  <1> DEFINE g == Flushed(f)
             h == CurrentSynced(g)
  <1>1. DOMAIN f = 1 .. Len(f) /\ Len(f) \in Nat
        /\ \A i \in 1 .. Len(f) : f[i] \in Entries(Logged)
    OBVIOUS
  <1>2. g \in Seq(Entries(Logged)) /\ Len(g) = Len(f) /\ OneFile(g)
    BY FlushedAlike, FileStays DEF Alike
  <1>3. Len(h) = Len(f)
    BY <1>2, SyncedAlike DEF Alike
  <1>4. ASSUME NEW i \in 1 .. Len(f) PROVE h[i].layer = "media"
    <2>1. f[i] \in Entries(Logged) /\ g[i] = IF f[i].layer = "buffer"
                                     THEN [f[i] EXCEPT !.layer = "cache"] ELSE f[i]
      BY <1>1 DEF Flushed, Promote
    <2>2. g[i] \in Entries(Logged) /\ i \in DOMAIN g /\ g[i].file = Current
      BY <1>2 DEF OneFile
    <2> HIDE DEF g
    <2>3. g[i].layer \in {"cache", "media"}
      BY <2>1 DEF Entries, Layers
    <2>4. h[i] = IF g[i].layer = "cache"
                   THEN [g[i] EXCEPT !.layer = "media"] ELSE g[i]
      BY <2>2 DEF CurrentSynced, Synced, Promote
    <2> HIDE DEF h
    <2> QED BY <2>2, <2>3, <2>4 DEF Entries
  <1> HIDE DEF g, h
  <1>5. OnDevice(h)
    BY <1>3, <1>4 DEF OnDevice, Durable
  <1> QED BY <1>5 DEF g, h

(* The sink's own steps. *)
LEMMA SinkKeepsLayers ==
  ASSUME ~Rotates, TrailsIInv, LayersInv, WormStep, UNCHANGED <<qvars, cvars, fvars>>
  PROVE  LayersInv'
  <1> USE DEF TrailsIInv
  <1>1. Waiting = {} /\ wpc \notin {"flush_gap", "mark", "commit_gap"}
        /\ worm \in Seq(Entries(Logged))
    BY DEF SinkTypes, Chained
  <1>2. OneFile(worm)
    BY DEF LayersInv
  <1>3. CASE FlushDone
    <2>1. UNCHANGED <<worm, writer, result>> /\ wpc' \in {"write", "close"}
          /\ wpc # "idle"
      BY <1>1, <1>3 DEF FlushDone, WGoto, WReturn
    <2> QED BY <2>1 DEF LayersInv, FileClosed, Closing, qvars, cvars, fvars
  <1>4. CASE WriteRecord \/ WriteRecordFails
    <2>1. wpc = "write" /\ cpc = "worm_returns"
      BY <1>4 DEF WriteRecord, WriteRecordFails, WGoto, WReturn, SinkTypes
    <2>2. RecordEntry(call) \in Entries(Logged) /\ writer
      BY <2>1, NextEntry
    <2>3. RecordEntry(call).file = Current
      BY DEF RecordEntry, Entry
    <2>4. worm' = worm \/ worm' \in Writes(worm, RecordEntry(call))
      BY <1>4, <2>2 DEF WriteRecord, WriteRecordFails, WriteRaw, WriteRawFails
    <2>5. OneFile(worm')
      BY <1>1, <1>2, <2>2, <2>3, <2>4, WrittenInFile
    <2> QED BY <2>1, <2>5 DEF LayersInv, FileClosed, Closing, cvars
  <1>5. CASE CommitRecord \/ CommitRecordFails
    <2>1. wpc = "commit" /\ cpc = "worm_returns"
          /\ (worm' = worm \/ worm' = CurrentSynced(worm))
      BY <1>5 DEF CommitRecord, CommitRecordFails, WGoto, WReturn, SinkTypes,
                  Fsync, FsyncFails
    <2>2. OneFile(worm')
      BY <1>1, <1>2, <2>1, FileStays
    <2> QED BY <2>1, <2>2 DEF LayersInv, FileClosed, Closing, cvars
  <1>6. CASE CloseFile \/ CloseFileFails
    <2>1. wpc = "close" /\ wpc' = "idle" /\ cpc = "worm_closes"
          /\ (worm' = worm \/ worm' = Flushed(worm)
              \/ worm' = CurrentSynced(Flushed(worm)))
      BY <1>6 DEF CloseFile, CloseFileFails, WGoto, WReturn, SinkTypes
    <2>2. Flushed(worm) \in Seq(Entries(Logged)) /\ OneFile(Flushed(worm))
      BY <1>1, <1>2, FlushedAlike, FileStays DEF Alike
    <2>3. OneFile(worm')
      BY <1>2, <2>1, <2>2, FileStays
    <2>4. ASSUME ~failed, result' = "ok" PROVE OnDevice(worm')
      <3>1. writer
        BY <2>1, <2>4 DEF LayersInv, FileClosed, Closing
      <3>2. CloseFile
        BY <1>6, <2>4 DEF CloseFileFails, WReturn
      <3> QED BY <1>1, <1>2, <3>1, <3>2, FileSettles DEF CloseFile
    <2>5. UNCHANGED <<cpc, failed, security, sidecar>>
      BY DEF qvars, cvars, fvars
    <2> QED BY <2>1, <2>3, <2>4, <2>5 DEF LayersInv, FileClosed, Closing
  <1>7. ~FlushOne /\ ~FlushOneFails
    BY <1>1 DEF FlushOne, FlushOneFails, NextReady
  <1>8. ~WriteGap /\ ~WriteGapFails /\ ~CommitGap /\ ~CommitGapFails
    BY <1>1 DEF WriteGap, WriteGapFails, CommitGap, CommitGapFails, WGoto, WReturn
  <1> QED BY <1>3, <1>4, <1>5, <1>6, <1>7, <1>8 DEF WormStep

LEMMA LayersInvariance ==
  ASSUME ~Rotates, TrailsIInv, LayersInv, [Next]_vars
  PROVE  LayersInv'
  <1> USE DEF TrailsIInv
  <1>1. worm \in Seq(Entries(Logged)) /\ OneFile(worm)
        /\ Numbered(security) /\ Numbered(sidecar) /\ failed \in BOOLEAN
    BY DEF Chained, CopiesInv, LayersInv, ConsumerTypes
  <1>2. CASE UNCHANGED <<wvars, cpc, failed, fvars>>
    BY <1>2 DEF LayersInv, FileClosed, wvars, fvars
  <1>3. CASE \E p \in Producers : PushAudit(p) \/ Push(p)
    <2>1. UNCHANGED <<wvars, cpc, failed, fvars>>
      BY <1>3 DEF PushAudit, Push, TryPush, TryPushFull, GiveUpOrSpin, cvars
    <2> QED BY <1>2, <2>1
  <1>4. CASE Shutdown \/ UNCHANGED vars
    <2>1. UNCHANGED <<wvars, cpc, failed, fvars>>
      BY <1>4 DEF Shutdown, vars, qvars, cvars
    <2> QED BY <1>2, <2>1
  <1>5. CASE CheckShutdown \/ DrainEmpty \/ DiscardRecord \/ TakeRecord
    <2>1. /\ UNCHANGED <<wvars, failed, fvars>> /\ cpc \in {"loop", "drain"}
          /\ cpc' \in {"loop", "drain", "worm", "close_sidecar"}
      BY <1>5 DEF CheckShutdown, DrainEmpty, DiscardRecord, TakeRecord, CGoto,
                  AfterRecord, qvars
    <2>2. ~failed => writer
      BY <2>1 DEF LinkInv, Rejected, Closing
    <2> QED BY <2>1, <2>2 DEF LayersInv, FileClosed, Closing, wvars, fvars
  <1>6. CASE CallWorm \/ WormOk \/ WriteSecurity \/ WriteSidecar \/ CommitLink
             \/ WormFails \/ WriteSecurityFails \/ WriteSidecarFails
    <2>1. cpc' \in Processing \cup {"loop", "drain"} /\ worm' = worm
      BY <1>6 DEF CallWorm, WormOk, WriteSecurity, WriteSidecar, CommitLink, CGoto,
                  WormFails, WriteSecurityFails, WriteSidecarFails, RecordFails,
                  AfterRecord, Processing, wvars, WriteWormRecord, Receive,
                  ReceiveInOrder, ReceiveBroken, ReceiveEarly, ReceiveLate
    <2> QED BY <1>1, <2>1 DEF LayersInv, FileClosed, Closing, Processing
  <1>7. CASE CloseSidecar
    <2>1. /\ cpc = "close_sidecar" /\ cpc' = "flush_worm" /\ UNCHANGED <<wvars, security>>
          /\ \/ sidecar' = Flushed(sidecar) /\ failed' = failed
             \/ failed' = TRUE
      BY <1>1, <1>7 DEF CloseSidecar, CloseStep, CGoto, fvars
    <2>2. ~failed' => writer /\ NoBuffer(sidecar') /\ ~failed
      BY <1>1, <2>1, LinesSettle DEF LayersInv, FileClosed, Closing
    <2> QED BY <1>1, <2>1, <2>2 DEF LayersInv, FileClosed, wvars
  <1>8. CASE FlushWorm
    <2>1. /\ cpc = "flush_worm" /\ cpc' = "flush_security"
          /\ UNCHANGED <<writer, security, sidecar>>
          /\ worm' = worm \/ worm' = Flushed(worm)
          /\ failed' = failed \/ failed' = TRUE
      BY <1>1, <1>8 DEF FlushWorm, CloseStep, CGoto, Flush, FlushFails, fvars
    <2>2. OneFile(worm')
      BY <1>1, <2>1, FileStays
    <2> QED BY <2>1, <2>2 DEF LayersInv, FileClosed, Closing
  <1>9. CASE FlushSecurity
    <2>1. /\ cpc = "flush_security" /\ cpc' = "close_worm"
          /\ UNCHANGED <<wvars, sidecar>>
          /\ failed' = failed \/ failed' = TRUE
      BY <1>1, <1>9 DEF FlushSecurity, SyncSecurity, CloseStep, CGoto
    <2> QED BY <2>1 DEF LayersInv, FileClosed, Closing, wvars
  <1>10. CASE CloseWorm
    <2>1. /\ cpc = "close_worm" /\ cpc' = "worm_closes" /\ wpc' = "flush_close"
          /\ UNCHANGED <<worm, writer, failed, security, sidecar>>
      BY <1>10 DEF CloseWorm, CGoto, Close, WGoto, qvars, fvars
    <2> QED BY <2>1 DEF LayersInv, FileClosed, Closing
  <1>11. CASE WormClosed
    <2>1. /\ cpc = "worm_closes" /\ cpc' = "close_security" /\ wpc = "idle"
          /\ UNCHANGED <<wvars, fvars>>
          /\ \/ result = "ok" /\ failed' = failed
             \/ failed' = TRUE
      BY <1>1, <1>11 DEF WormClosed, CloseStep, CGoto
    <2> QED BY <2>1 DEF LayersInv, FileClosed, Closing, wvars, fvars
  <1>12. CASE CloseSecurity
    <2>1. /\ cpc = "close_security" /\ cpc' = "stopped" /\ UNCHANGED <<wvars, sidecar>>
          /\ \/ security' = Synced(Flushed(security)) /\ failed' = failed
             \/ failed' = TRUE
      BY <1>1, <1>12 DEF CloseSecurity, SyncSecurity, CloseStep, CGoto
    <2>2. ~failed' => OnDevice(security') /\ ~failed
      BY <1>1, <2>1, LinesSettle
    <2> QED BY <1>1, <2>1, <2>2 DEF LayersInv, FileClosed, Closing, wvars
  <1>13. CASE WormStep /\ UNCHANGED <<qvars, cvars, fvars>>
    BY <1>13, SinkKeepsLayers
  <1> QED BY <1>3, <1>4, <1>5, <1>6, <1>7, <1>8, <1>9, <1>10, <1>11, <1>12, <1>13
             DEF Next, Consume

(* Without rotation, for any producers, pushes and failures: a pipeline    *)
(* that has stopped without a failure has all it took from the ring on the *)
(* device, in both files, and no line of the sidecar in the process (the   *)
(* end of audit_consumer_loop).                                            *)
THEOREM CleanStopPersists ==
  ASSUME ~Rotates
  PROVE  Spec => []CleanStopIsDurable
  <1>1. Init => TrailsIInv /\ LayersInv
    BY AuditInitHolds DEF Init, WormInit, LayersInv, OneFile, FileClosed, Closing
  <1>2. TrailsIInv /\ LayersInv /\ [Next]_vars => TrailsIInv' /\ LayersInv'
    BY TrailsInvariance, LayersInvariance
  <1>3. TrailsIInv /\ LayersInv => CleanStopIsDurable
    <2> SUFFICES ASSUME TrailsIInv, LayersInv, cpc = "stopped", ~failed
                 PROVE  /\ \A i \in DOMAIN worm : Durable(worm[i])
                        /\ \A i \in DOMAIN security : Durable(security[i])
                        /\ \A i \in DOMAIN sidecar : sidecar[i].layer # "buffer"
      BY DEF CleanStopIsDurable
    <2>1. /\ DOMAIN worm = 1 .. Len(worm) /\ DOMAIN security = 1 .. Len(security)
          /\ DOMAIN sidecar = 1 .. Len(sidecar)
      BY DEF TrailsIInv, Chained, CopiesInv, Numbered
    <2>2. OnDevice(worm) /\ OnDevice(security) /\ NoBuffer(sidecar)
      BY DEF LayersInv, FileClosed, Closing
    <2> QED BY <2>1, <2>2 DEF OnDevice, NoBuffer
  <1> QED BY <1>1, <1>2, <1>3, PTL DEF Spec

=============================================================================
