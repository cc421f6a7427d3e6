----------------------------- MODULE RecordFile -----------------------------
(***************************************************************************)
(* The file of length-prefixed frames that `dologctl record` writes        *)
(* (cli/src/commands/record.rs) and that `replay`, `replay --json` and     *)
(* `verify` (cli/src/commands/verify.rs, read_sif_file) read.  The writer  *)
(* buffers, and ignores the result of every write: when the disk refuses   *)
(* a flush the piece that caused it, a length or a frame, is lost, and a   *)
(* smaller piece that follows may still find room in the buffer.  Bytes    *)
(* are cells: a length takes two of them, a frame one or two.              *)
(***************************************************************************)
EXTENDS Integers, Sequences

CONSTANTS
  MaxGenerated,     \* records a command may generate
  BufferSize        \* cells of the BufWriter

ASSUME RecordFileAssumption == MaxGenerated \in Nat

VARIABLES
  total,            \* records to generate
  next_record,      \* the LSN being written
  piece,            \* what of it is written next: "length" or "frame"
  buffered, disk,   \* cells held by the BufWriter, and cells of the file
  lost,             \* history: a piece was dropped
  recording,        \* the command runs
  garbage,          \* what two cells that are no length read as
  offset,           \* of the readers: where in the file their loop is
  replayed,         \* the records decoded so far
  counted,          \* the frames seen so far
  ended             \* how the loop ended: "no", "end" or "refused"

writervars == <<total, next_record, piece, buffered, disk, lost, recording, garbage>>
readervars == <<offset, replayed, counted, ended>>
recordvars == <<writervars, readervars>>

LengthSize == 2
TooLarge == MaxGenerated + LengthSize + 2   \* above MAX_FRAME_SIZE
Size(lsn) == 1 + (lsn % 2)

Cells(kind, lsn) ==
  [i \in 1..(IF kind = "length" THEN LengthSize ELSE Size(lsn)) |-> <<kind, lsn, i>>]

RecordInit ==
  /\ total \in 0..MaxGenerated
  /\ next_record = 1 /\ piece = "length"
  /\ buffered = <<>> /\ disk = <<>>
  /\ lost = FALSE /\ recording = TRUE
  /\ garbage \in 0..TooLarge
  /\ offset = 0 /\ replayed = <<>> /\ counted = 0 /\ ended = "no"

(***************************************************************************)
(* record, and record --json: one piece after the other.                   *)
(***************************************************************************)

(* A flush writes what the disk takes; the rest stays in the buffer. *)
FlushBuffer(taken) == disk' = disk \o SubSeq(buffered, 1, taken)

Advance ==
  /\ piece' = IF piece = "length" THEN "frame" ELSE "length"
  /\ next_record' = IF piece = "length" THEN next_record ELSE next_record + 1

Generating == recording /\ next_record <= total
Fits == Len(buffered) + Len(Cells(piece, next_record)) <= BufferSize

WriteBuffered ==
  /\ Generating /\ Fits
  /\ buffered' = buffered \o Cells(piece, next_record)
  /\ Advance
  /\ UNCHANGED <<total, disk, lost, recording, garbage, readervars>>

(* write_all of a piece that does not fit: the buffer first. *)
WriteThrough(taken) ==
  /\ Generating /\ ~Fits
  /\ FlushBuffer(taken)
  /\ IF taken = Len(buffered)
     THEN buffered' = Cells(piece, next_record) /\ UNCHANGED lost
     ELSE buffered' = SubSeq(buffered, taken + 1, Len(buffered)) /\ lost' = TRUE
  /\ Advance
  /\ UNCHANGED <<total, recording, garbage, readervars>>

(* A record that does not encode exits the process: nothing is flushed. *)
EncodeFails ==
  /\ Generating /\ piece = "length"
  /\ recording' = FALSE
  /\ lost' = TRUE
  /\ UNCHANGED <<total, next_record, piece, buffered, disk, garbage, readervars>>

(* The flush at the end, its result ignored, and the one of the drop. *)
Finish(taken) ==
  /\ recording /\ next_record > total
  /\ FlushBuffer(taken)
  /\ lost' = (lost \/ taken < Len(buffered))
  /\ buffered' = <<>>
  /\ recording' = FALSE
  /\ UNCHANGED <<total, next_record, piece, garbage, readervars>>

-----------------------------------------------------------------------------
(***************************************************************************)
(* The readers of a file that no command writes any more: one loop, that   *)
(* differs in what it does with a frame it cannot decode, which verify and *)
(* replay skip and replay --json counts, and with a length above the       *)
(* limit, at which verify fails and the others stop.                       *)
(***************************************************************************)

FrameAt(end, length) == SubSeq(disk, end - length + 1, end)

FrameLength ==
  LET prefix == SubSeq(disk, offset + 1, offset + LengthSize) IN
  IF prefix = Cells("length", prefix[1][2]) THEN Size(prefix[1][2]) ELSE garbage

FrameEnd == offset + LengthSize + FrameLength

(* decode_record: the frame of one record, whole, or nothing. *)
Decode(payload) ==
  IF payload = Cells("frame", payload[1][2]) THEN <<payload[1][2]>> ELSE <<>>

(* Mutant: a frame that ends with the file is taken for a truncated one. *)
TruncatedMutant(end) == end >= Len(disk)

Truncated(end) == end > Len(disk)

Reading == ~recording /\ ended = "no"
HasLength == offset + LengthSize <= Len(disk)

Stop(how) ==
  /\ ended' = how
  /\ UNCHANGED <<writervars, offset, replayed, counted>>

FileEnds == Reading /\ ~HasLength /\ Stop("end")

SkipEmpty ==
  /\ Reading /\ HasLength /\ FrameLength = 0
  /\ offset' = offset + LengthSize
  /\ UNCHANGED <<writervars, replayed, counted, ended>>

RefuseLength == Reading /\ HasLength /\ FrameLength >= TooLarge /\ Stop("refused")

AFrame == Reading /\ HasLength /\ FrameLength \in 1..TooLarge - 1

StopAtTruncated == AFrame /\ Truncated(FrameEnd) /\ Stop("end")

TakeFrame ==
  /\ AFrame /\ ~Truncated(FrameEnd)
  /\ replayed' = replayed \o Decode(FrameAt(FrameEnd, FrameLength))
  /\ counted' = counted + 1
  /\ offset' = FrameEnd
  /\ UNCHANGED <<writervars, ended>>

RecordNext ==
  \/ WriteBuffered \/ EncodeFails
  \/ \E taken \in 0..Len(buffered) : WriteThrough(taken) \/ Finish(taken)
  \/ FileEnds \/ SkipEmpty \/ RefuseLength \/ StopAtTruncated \/ TakeFrame

RecordSpec == RecordInit /\ [][RecordNext]_recordvars

-----------------------------------------------------------------------------
(* However the disk refuses the recorder, and wherever a lost piece leaves *)
(* the readers between two frames: replay shows records of the command,    *)
(* each once and in order, the JSON count is not below what replay shows,  *)
(* and when no piece was lost all three readers come to the end with every *)
(* record the command reported.                                            *)
ReadersAgree ==
  /\ \A i, j \in DOMAIN replayed : i < j => replayed[i] < replayed[j]
  /\ \A i \in DOMAIN replayed : replayed[i] \in 1..total
  /\ counted >= Len(replayed)
  /\ ~lost /\ ended # "no" =>
       ended = "end" /\ Len(replayed) = total /\ counted = total

=============================================================================
