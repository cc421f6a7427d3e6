------------------------------ MODULE FileSink ------------------------------
(***************************************************************************)
(* FileSink (core/src/sink/file.rs) and the order in which its owner calls *)
(* it: open, writes, flush, close.  A file is a sequence of entries in the *)
(* layers of LogFile; sizes are counted in entries.  A rotated file is     *)
(* named after the second of its rotation.                                 *)
(***************************************************************************)
EXTENDS Integers, Sequences, LogFile

CONSTANTS
  max_size,
  MaxSinkWrites,        \* bound on the records written
  MaxSeconds            \* bound on the clock

ASSUME FileSinkAssumption == MaxSeconds \in Nat \ {0}

VARIABLES
  durability_level, fsync_on_write,
  current,              \* the file at the path
  rotated,              \* the file rotated in each second
  writer,               \* whether writer is Some
  is_open,
  bytes_written,
  second,
  attempts,             \* records given to write so far
  acknowledged,         \* history: those reported Ok
  clash                 \* history: two rotations met in one second, or lost a buffer

filevars == <<durability_level, fsync_on_write, current, rotated, writer, is_open,
              bytes_written, second, attempts, acknowledged, clash>>

Levels == 0..2          \* Unsafe, OsCache, Media
OsCache == 1
Media == 2

(* FileSinkConfig::validate. *)
FileSinkInit ==
  /\ durability_level \in Levels /\ fsync_on_write \in BOOLEAN
  /\ durability_level >= Media => fsync_on_write
  /\ ~(fsync_on_write /\ durability_level = 0)
  /\ current = <<>> /\ rotated = [s \in 1..MaxSeconds |-> <<>>]
  /\ writer = FALSE /\ is_open = FALSE /\ bytes_written = 0
  /\ second = 1 /\ attempts = 0 /\ acknowledged = {} /\ clash = FALSE

SecondPasses ==
  /\ second < MaxSeconds
  /\ second' = second + 1
  /\ UNCHANGED <<durability_level, fsync_on_write, current, rotated, writer, is_open,
                 bytes_written, attempts, acknowledged, clash>>

Open ==
  /\ ~is_open
  /\ writer' = TRUE /\ is_open' = TRUE /\ bytes_written' = 0
  /\ UNCHANGED <<durability_level, fsync_on_write, current, rotated, second, attempts,
                 acknowledged, clash>>

(* What a rotation leaves: the old writer is spilled, the file renamed and  *)
(* a new one opened.  Any of the three may fail: the writer is gone then,  *)
(* and the next write tries again.                                         *)
(* Mutant: the writer is dropped with what it buffers. *)
RotationsMutant ==
  {[file |-> <<>>, archive |-> SelectSeq(current, LAMBDA e : e.layer # "buffer"),
    writer |-> TRUE, lost |-> FALSE]}

Rotations ==
  LET spilled == Flushed(current)
      kept    == SelectSeq(current, LAMBDA e : e.layer # "buffer")
      done    == [file |-> <<>>, archive |-> spilled, writer |-> TRUE, lost |-> FALSE]
  IN {done,
      [done EXCEPT !.writer = FALSE],
      [file |-> spilled, archive |-> <<>>, writer |-> FALSE, lost |-> FALSE]}
     \cup IF kept = current THEN {}
          ELSE {[file |-> kept, archive |-> <<>>, writer |-> FALSE, lost |-> TRUE]}

NeedsRotation == max_size > 0 /\ bytes_written >= max_size

(* rotate inside write: its error is the error of the write. *)
Rotate ==
  /\ is_open /\ NeedsRotation
  /\ attempts < MaxSinkWrites
  /\ \E o \in Rotations :
       LET moved == o.archive # <<>> IN
       /\ current' = o.file
       /\ writer' = o.writer
       /\ bytes_written' = IF o.writer THEN 0 ELSE bytes_written
       /\ rotated' = IF moved THEN [rotated EXCEPT ![second] = o.archive] ELSE rotated
       /\ clash' = (clash \/ o.lost \/ (moved /\ rotated[second] # <<>>))
       /\ attempts' = IF o.writer THEN attempts ELSE attempts + 1
  /\ UNCHANGED <<durability_level, fsync_on_write, is_open, second, acknowledged>>

(* sync_all on the inner file, for a durable level or fsync_on_write. *)
AfterWrite(f) ==
  IF durability_level >= Media \/ fsync_on_write THEN Synced(f) ELSE f

(* write once the file needs no rotation; the write or the synchronisation  *)
(* may fail.                                                               *)
WriteRecord ==
  /\ is_open /\ writer /\ ~NeedsRotation
  /\ attempts < MaxSinkWrites
  /\ attempts' = attempts + 1
  /\ \E f \in Writes(current, [id |-> attempts + 1, layer |-> "buffer"]),
        ok \in BOOLEAN :
       /\ current' = IF ok THEN AfterWrite(f) ELSE f
       /\ bytes_written' = bytes_written + 1
       /\ acknowledged' = IF ok THEN acknowledged \cup {attempts + 1} ELSE acknowledged
  /\ UNCHANGED <<durability_level, fsync_on_write, rotated, writer, is_open,
                 second, clash>>

Flush ==
  /\ is_open /\ writer
  /\ current' = IF fsync_on_write THEN Synced(Flushed(current)) ELSE Flushed(current)
  /\ UNCHANGED <<durability_level, fsync_on_write, rotated, writer, is_open,
                 bytes_written, second, attempts, acknowledged, clash>>

(* flush, and fsync from OsCache on; with no writer only the flags change. *)
Close ==
  /\ is_open
  /\ current' = IF ~writer THEN current
                ELSE IF fsync_on_write \/ durability_level >= OsCache
                     THEN Synced(Flushed(current)) ELSE Flushed(current)
  /\ writer' = FALSE /\ is_open' = FALSE
  /\ UNCHANGED <<durability_level, fsync_on_write, rotated, bytes_written, second,
                 attempts, acknowledged, clash>>

FileSinkNext ==
  SecondPasses \/ Open \/ Rotate \/ WriteRecord \/ Flush \/ Close

FileSinkSpec == FileSinkInit /\ [][FileSinkNext]_filevars

(***************************************************************************)
(* Properties.                                                             *)
(***************************************************************************)

(* The files in the order of their names, the current one last. *)
Files == [s \in 1..MaxSeconds + 1 |-> IF s = MaxSeconds + 1 THEN current ELSE rotated[s]]

(* Rotation loses, repeats and reorders nothing: read in the order of their *)
(* names the files hold records in the order in which they were given to   *)
(* write, each once, and all that were reported written, whichever step of *)
(* a rotation failed and was tried again, unless two rotations share a     *)
(* second or the last flush of a file fails.                               *)
RotationKeepsRecords ==
  ~clash =>
    /\ \A s, t \in DOMAIN Files : \A i \in DOMAIN Files[s], j \in DOMAIN Files[t] :
         s < t \/ (s = t /\ i < j) => Files[s][i].id < Files[t][j].id
    /\ \A id \in acknowledged :
         \E s \in DOMAIN Files : \E i \in DOMAIN Files[s] : Files[s][i].id = id

(* "Media flush (fsync/fdatasync per write)" (console.rs:44): at that level *)
(* a record reported written is on the device.                             *)
MediaIsPerWrite ==
  durability_level >= Media /\ ~clash =>
    \A id \in acknowledged :
      \E s \in DOMAIN Files : \E i \in DOMAIN Files[s] :
        Files[s][i].id = id /\ Durable(Files[s][i])

=============================================================================
