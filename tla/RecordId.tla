------------------------------- MODULE RecordId -------------------------------
(***************************************************************************)
(* TimeSource (core/src/sys/time.rs): the identifier of a record is the    *)
(* millisecond a call has read and the sequence number it takes after      *)
(* that, of which 22 bits are kept.  A call that meets the overflow waits  *)
(* for the next millisecond and tries again; the others do not wait.  The  *)
(* clock is anchored when the source is made and never goes back; the node *)
(* fingerprint is a constant of the process and is left out.               *)
(***************************************************************************)
EXTENDS Integers, FiniteSets

CONSTANTS
  IdCallers,        \* threads that ask for identifiers
  SequenceSize,     \* MAX_SEQUENCE + 1
  MaxPerMs,         \* sequence numbers that can be taken in a millisecond
  MaxSequence,      \* bound on the sequence
  MaxMs             \* bound on the milliseconds that pass

ASSUME IdAssumption == SequenceSize \in Nat \ {0} /\ MaxPerMs \in Nat

VARIABLES
  now_ms, sequence,
  taken_in_ms,      \* sequence numbers taken in this millisecond
  id_pc,            \* where each call of next_id is
  timestamp_ms,     \* what it has read
  outrun,           \* history: sequence numbers the others took since then
  ids               \* history: what was returned

idvars == <<now_ms, sequence, taken_in_ms, id_pc, timestamp_ms, outrun, ids>>

IdInit ==
  /\ now_ms = 0 /\ sequence = 0 /\ taken_in_ms = 0
  /\ id_pc = [c \in IdCallers |-> "idle"]
  /\ timestamp_ms = [c \in IdCallers |-> 0]
  /\ outrun = [c \in IdCallers |-> 0]
  /\ ids = {}

NextMs ==
  /\ now_ms < MaxMs
  /\ now_ms' = now_ms + 1 /\ taken_in_ms' = 0
  /\ UNCHANGED <<sequence, id_pc, timestamp_ms, outrun, ids>>

(* now_ms, at the top of the loop. *)
ReadClock(c) ==
  /\ id_pc[c] \in {"idle", "retry"}
  /\ id_pc' = [id_pc EXCEPT ![c] = "stamped"]
  /\ timestamp_ms' = [timestamp_ms EXCEPT ![c] = now_ms]
  /\ outrun' = [outrun EXCEPT ![c] = 0]
  /\ UNCHANGED <<now_ms, sequence, taken_in_ms, ids>>

Masked(seq) == seq % SequenceSize

Overflow(seq) == Masked(seq) = 0 /\ seq > 0

TakeSequence(c) ==
  /\ id_pc[c] = "stamped"
  /\ sequence < MaxSequence /\ taken_in_ms < MaxPerMs
  /\ sequence' = sequence + 1 /\ taken_in_ms' = taken_in_ms + 1
  /\ outrun' = [d \in IdCallers |-> IF id_pc[d] = "stamped" /\ d # c
                                    THEN outrun[d] + 1 ELSE outrun[d]]
  /\ IF Overflow(sequence)
     THEN id_pc' = [id_pc EXCEPT ![c] = "blocked"] /\ UNCHANGED ids
     ELSE /\ id_pc' = [id_pc EXCEPT ![c] = "idle"]
          /\ ids' = ids \cup {[ms |-> timestamp_ms[c], seq |-> sequence,
                               outrun |-> outrun[c]]}
  /\ UNCHANGED <<now_ms, timestamp_ms>>

Unblock(c) ==
  /\ id_pc[c] = "blocked" /\ now_ms > timestamp_ms[c]
  /\ id_pc' = [id_pc EXCEPT ![c] = "retry"]
  /\ UNCHANGED <<now_ms, sequence, taken_in_ms, timestamp_ms, outrun, ids>>

IdNext == NextMs \/ \E c \in IdCallers : ReadClock(c) \/ TakeSequence(c) \/ Unblock(c)

IdSpec == IdInit /\ [][IdNext]_idvars

-----------------------------------------------------------------------------

(* "Generate a globally unique record ID": two identifiers are equal only   *)
(* if one of the calls was outrun, between the clock and the counter, by   *)
(* all the sequence numbers that the millisecond it read could not hold.   *)
(* The overflow check does not exclude it: it stops one call and no other. *)
IdsAreUnique ==
  \A x, y \in ids :
    x.seq < y.seq /\ x.ms = y.ms /\ Masked(x.seq) = Masked(y.seq)
      => y.outrun >= SequenceSize - MaxPerMs

=============================================================================
