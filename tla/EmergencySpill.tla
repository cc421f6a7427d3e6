--------------------------- MODULE EmergencySpill ---------------------------
(***************************************************************************)
(* EmergencyBuffer (buffer/emergency_buffer.rs), the spill file a host      *)
(* opens when the ring stays full: the threads that log push to it, and    *)
(* one that watches activates, drains and closes it.                       *)
(*                                                                         *)
(* A frame of the file is the record it holds, sealed under a key, or      *)
(* TornFrame: the bytes of a write that failed half-way.  The bounds of    *)
(* the file are counted in frames.  A record goes by the sequence number   *)
(* TimeSource::next_id took for it (sys/time.rs:190-221), which counts all *)
(* records of the engine; its id_lo keeps that number's place in a turn of *)
(* IdSpan, and the fingerprint of the process, left out here.              *)
(***************************************************************************)
EXTENDS Integers, Sequences, SequencesExt, FiniteSets

CONSTANTS
  Pushers,
  max_records,
  IdSpan,           \* MAX_SEQUENCE + 1, 4,194,304 in the code
  MaxNumber,        \* bound on the sequence numbers of the records
  MaxSpills, MaxKeys,     \* bounds on the records pushed and on the keys made
  TornFrame

(* Beyond as many records seen, drain_all forgets half of them. *)
MaxSeen == 1000000

ASSUME SpillAssumption ==
  /\ IdSpan \in Nat \ {0} /\ MaxNumber \in Nat
  /\ TornFrame \notin [id : Nat, key : Nat]
  /\ MaxSpills \in 0..MaxSeen

VARIABLES
  file,             \* the frames of the spill file
  position,         \* the file's cursor, in frames
  active, record_count,
  encryption,       \* audit_encryption
  key,              \* the session key, 0 for none
  seen,             \* seen_record_ids, each an id_lo
  push,             \* each pusher: [pc, id, level]
  spilled,          \* records pushed so far
  written,          \* history: records whose frame was written since activate
  delivered,        \* what the drains have handed back
  exact             \* history: no key was replaced, no write failed, seen not cleared

spillfile == <<file, position, active, record_count, seen>>
spillvars == <<spillfile, encryption, key, push, spilled,
                  written, delivered, exact>>

Quiet == [pc |-> "idle", id |-> 0, level |-> "INFO"]

SpillInit ==
  /\ file = <<>> /\ position = 0 /\ active = FALSE /\ record_count = 0
  /\ encryption = FALSE /\ key = 0 /\ seen = {}
  /\ push = [p \in Pushers |-> Quiet]
  /\ spilled = 0 /\ written = {} /\ delivered = <<>> /\ exact = TRUE

(* The numbers of records: next_id passes over one whose place is 0, but    *)
(* for the first.                                                          *)
RecordNumbers == {n \in 0..MaxNumber : n % IdSpan = 0 => n = 0}
IdLo(number) == number % IdSpan

(***************************************************************************)
(* EmergencyBuffer::activate, deactivate and enable_audit_encryption.      *)
(***************************************************************************)
Activate ==
  /\ ~active
  /\ active' = TRUE
  /\ file' = <<>> /\ position' = 0 /\ record_count' = 0
  /\ written' = {}
  /\ key' = IF encryption /\ key = 0 THEN 1 ELSE key
  /\ UNCHANGED <<encryption, seen, push, spilled, delivered, exact>>

(* The file is deleted with all it holds. *)
Deactivate ==
  /\ active
  /\ active' = FALSE
  /\ file' = <<>> /\ position' = 0 /\ record_count' = 0
  /\ UNCHANGED <<encryption, key, seen, push, spilled, written,
                 delivered, exact>>

EnableEncryption ==
  /\ key < MaxKeys
  /\ key' = key + 1
  /\ encryption' = TRUE
  /\ exact' = (exact /\ key = 0)
  /\ UNCHANGED <<spillfile, push, spilled, written, delivered>>

ClearDedup ==
  /\ seen # {} /\ Len(delivered) <= MaxSpills
  /\ seen' = {}
  /\ exact' = FALSE
  /\ UNCHANGED <<file, position, active, record_count, encryption,
                 key, push, spilled, written, delivered>>

(***************************************************************************)
(* EmergencyBuffer::push: the limits are read before the file is locked,   *)
(* and the count is raised after.  Any record of the engine is pushed, also *)
(* one that was pushed before.                                             *)
(***************************************************************************)
BeginPush(p) ==
  /\ push[p].pc = "idle" /\ spilled < MaxSpills
  /\ active /\ record_count < max_records
  /\ \E number \in RecordNumbers, level \in {"INFO", "AUDIT"} :
       push' = [push EXCEPT ![p] = [pc |-> "write", id |-> number, level |-> level]]
  /\ spilled' = spilled + 1
  /\ UNCHANGED <<spillfile, encryption, key, written, delivered, exact>>

(* A frame is written at the cursor, over what is there. *)
At(frame) ==
  /\ file' = Append(SubSeq(file, 1, position), frame)
               \o SubSeq(file, position + 2, Len(file))
  /\ position' = position + 1

Frame(p) == [id |-> push[p].id,
             key |-> IF encryption /\ push[p].level = "AUDIT" THEN key ELSE 0]

WriteFrame(p) ==
  /\ push[p].pc = "write" /\ active
  /\ At(Frame(p))
  /\ push' = [push EXCEPT ![p].pc = "count"]
  /\ written' = written \cup {push[p].id}
  /\ UNCHANGED <<active, record_count, seen, encryption, key,
                 spilled, delivered, exact>>

(* A write that fails leaves the bytes it had written: push reports Error. *)
WriteFails(p) ==
  /\ push[p].pc = "write" /\ active
  /\ At(TornFrame)
  /\ push' = [push EXCEPT ![p] = Quiet]
  /\ exact' = FALSE
  /\ UNCHANGED <<active, record_count, seen, encryption, key,
                 spilled, written, delivered>>

NotActive(p) ==
  /\ push[p].pc = "write" /\ ~active
  /\ push' = [push EXCEPT ![p] = Quiet]
  /\ UNCHANGED <<spillfile, encryption, key, spilled, written,
                 delivered, exact>>

EndPush(p) ==
  /\ push[p].pc = "count"
  /\ push' = [push EXCEPT ![p] = Quiet]
  /\ record_count' = record_count + 1
  /\ UNCHANGED <<file, position, active, seen, encryption, key,
                 spilled, written, delivered, exact>>

(***************************************************************************)
(* EmergencyBuffer::drain_all, under the lock of the file.  A torn frame   *)
(* ends it: the length it starts with runs over what follows, and the      *)
(* cursor stays somewhere there.  A frame sealed under another key is      *)
(* skipped, and so is one whose id_lo was seen, in this drain or before.   *)
(***************************************************************************)
(* Mutant: the drain reads on from the cursor. *)
ReadableMutant == SubSeq(file, position + 1, Len(file))

Readable ==
  LET torn == {i \in DOMAIN file : file[i] = TornFrame} IN
  IF torn = {} THEN file
  ELSE SubSeq(file, 1, (CHOOSE i \in torn : \A j \in torn : i <= j) - 1)

Opens(i) == Readable[i].key \in {0, key}

(* The frames drained: those that open and whose id_lo is new.             *)
Undrained ==
  {i \in DOMAIN Readable :
     /\ Opens(i) /\ IdLo(Readable[i].id) \notin seen
     /\ \A j \in 1..i - 1 : Opens(j) => IdLo(Readable[j].id) # IdLo(Readable[i].id)}

InOrder(places, S) ==
  /\ ToSet(places) = S
  /\ \A i, j \in DOMAIN places : i < j => places[i] < places[j]

Drain ==
  /\ active
  /\ position' \in Len(Readable)..Len(file)
  /\ \E places \in [1..Cardinality(Undrained) -> Undrained] :
       /\ InOrder(places, Undrained)
       /\ delivered' = delivered \o [i \in DOMAIN places |-> Readable[places[i]].id]
  /\ seen' = seen \cup {IdLo(Readable[i].id) : i \in Undrained}
  /\ UNCHANGED <<file, active, record_count, encryption, key, push,
                 spilled, written, exact>>

SpillNext ==
  \/ Activate \/ Deactivate \/ EnableEncryption \/ ClearDedup \/ Drain
  \/ \E p \in Pushers :
       BeginPush(p) \/ WriteFrame(p) \/ WriteFails(p) \/ NotActive(p) \/ EndPush(p)

SpillSpec == SpillInit /\ [][SpillNext]_spillvars

(***************************************************************************)
(* Properties.                                                             *)
(***************************************************************************)

(* Of the records push has reported Written since the buffer was activated  *)
(* a drain leaves out none, unless it, or an earlier drain, has handed     *)
(* back another one with its id_lo: one a whole number of turns of the     *)
(* sequence away.  And none is handed back twice, whatever pushes and      *)
(* earlier drains it meets; until a key is replaced, a write fails or the  *)
(* set of the seen is cleared.                                             *)
DrainIsExact ==
  [][exact /\ Drain =>
       /\ \A number \in written :
            \E other \in ToSet(delivered') : IdLo(other) = IdLo(number)
       /\ IsInjective(delivered')]_spillvars

(* What "Dedup by record.id (globally unique 128-bit Snowflake ID)"         *)
(* (emergency_buffer.rs:436) promises.  No run checks it: TLC finds it      *)
(* violated by two records a turn of the sequence apart, the second of     *)
(* which is taken for the first, in the same drain or in a later one.      *)
EveryRecordComesBack ==
  [][exact /\ Drain => written \subseteq ToSet(delivered')]_spillvars

=============================================================================
