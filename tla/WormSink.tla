------------------------------ MODULE WormSink ------------------------------
(***************************************************************************)
(* The WORM file sink of core/src/sink/worm.rs, one action per file        *)
(* operation.  A call of write_worm_record starts in one of the Receive    *)
(* actions and ends in a step that sets result.                            *)
(*                                                                         *)
(* The hash of the content c and the LSN n is the pair <<c, n>>.  Open     *)
(* failures, the read-only permissions of sealed files and the plain-text  *)
(* path Sink::write are left out.                                          *)
(***************************************************************************)
EXTENDS Integers, FiniteSets, FiniteSetsExt, LogFile, TLAPS

CONSTANTS
  Durability,   \* "OsCache", "Media" or "MediaWithFua"
  Window,       \* lsn_reorder_window_ms > 0
  Rotates,      \* max_size > 0: any write may then fill the file
  MaxSecond,    \* bound on the clock that names rotated files
  None          \* no content

VARIABLES
  is_open,          \* between open and close
  writer,           \* writer is Some
  last_lsn,         \* last LSN persisted or covered by a gap marker
  last_hash,        \* link the next record must carry
  reorder_buffer,   \* records that came too early, by LSN
  reorder_start,    \* "none", "waiting", or "expired": the window has passed
  worm,             \* every entry written, in order
  second,           \* SystemTime::now in seconds
  wpc,              \* where the sink is in a call
  call,             \* the record the call writes
  result            \* what the last call returned

wvars == <<is_open, writer, last_lsn, last_hash, reorder_buffer,
           reorder_start, worm, second, wpc, call, result>>

Link(r)    == <<r.content, r.lsn>>
ZeroHash   == <<None, -1>>      \* [0u8; 32], which is the hash of nothing
NoRecord   == [lsn |-> 0, prev |-> ZeroHash, content |-> None]
Current    == 0                 \* the name of the file being written
Replaced   == -1                \* the file was replaced by a later rename

Entry(kind, first, last, prev, content) ==
  [kind |-> kind, first |-> first, last |-> last, prev |-> prev,
   content |-> content, file |-> Current, layer |-> "buffer"]

RecordEntry(r)  == Entry("record", r.lsn, r.lsn, r.prev, r.content)
GapEntry(m, n)  == Entry("gap", m, n, ZeroHash, None)

WormInit ==
  /\ is_open = TRUE
  /\ writer = TRUE
  /\ last_lsn = 0
  /\ last_hash = ZeroHash
  /\ reorder_buffer = <<>>
  /\ reorder_start = "none"
  /\ worm = <<>>
  /\ second = 1
  /\ wpc = "idle"
  /\ call = NoRecord
  /\ result = "ok"

WGoto(from, to) ==
  /\ wpc = from
  /\ wpc' = to

WReturn(from, res) ==
  /\ WGoto(from, "idle")
  /\ call' = NoRecord
  /\ result' = res

-----------------------------------------------------------------------------
(* File operations                                                         *)

\* rename gives the file the name of the second and replaces a file that has
\* this name already.
Renamed(f) ==
  [i \in DOMAIN f |->
     CASE f[i].file = Current -> [f[i] EXCEPT !.file = second]
       [] f[i].file = second  -> [f[i] EXCEPT !.file = Replaced]
       [] OTHER               -> f[i]]

\* sync_all reaches the file that is open, not those rotated away.
CurrentSynced(f) ==
  [i \in DOMAIN f |-> IF f[i].file = Current THEN Synced(f)[i] ELSE f[i]]

\* write_raw succeeds; without a writer it does so by doing nothing.
WriteRaw(e) ==
  /\ UNCHANGED <<writer, second>>
  /\ IF writer
       THEN \E f \in Writes(worm, e) :
              \/ worm' = f
              \/ Rotates /\ worm' = Renamed(Flushed(f))
       ELSE UNCHANGED worm

\* write_raw fails: the entry could not be written, or the rotation after it
\* failed in the rename or in opening the new file, which leaves no writer.
WriteRawFails(e) ==
  /\ writer
  /\ UNCHANGED second
  /\ \/ UNCHANGED <<worm, writer>>
     \/ /\ Rotates
        /\ writer' = FALSE
        /\ \E f \in {Flushed(Append(worm, e))} : worm' \in {f, Renamed(f)}

Fsync == worm' = IF writer THEN CurrentSynced(worm) ELSE worm

FsyncFails == writer /\ UNCHANGED worm

-----------------------------------------------------------------------------
(* write_worm_record                                                       *)

InOrder(r) == r.lsn = last_lsn + 1
Broken(r)  == last_lsn > 0 /\ r.prev # last_hash

Receive(r) ==
  /\ wpc = "idle"
  /\ is_open
  /\ UNCHANGED <<is_open, writer, last_lsn, last_hash, worm, second>>

ReceiveInOrder(r) ==
  /\ Receive(r)
  /\ InOrder(r) /\ ~Broken(r)
  /\ wpc' = "flush_write"
  /\ call' = r
  /\ UNCHANGED <<reorder_buffer, reorder_start, result>>

ReceiveBroken(r) ==
  /\ Receive(r)
  /\ InOrder(r) /\ Broken(r)
  /\ result' = "broken"
  /\ UNCHANGED <<wpc, call, reorder_buffer, reorder_start>>

\* A record that is early waits; if the window has passed since the first one
\* began to wait, the call goes on to mark the gap.
ReceiveEarly_Mutant_OnePlace(r) ==
  /\ Receive(r)
  /\ r.lsn > last_lsn + 1
  /\ reorder_buffer' = [n \in {r.lsn} |-> r]
  /\ reorder_start' = IF reorder_start = "none" THEN "waiting"
                                                ELSE reorder_start
  /\ IF Window /\ reorder_start = "expired"
       THEN wpc' = "mark" /\ UNCHANGED result
       ELSE UNCHANGED wpc /\ result' = "ok"
  /\ UNCHANGED call

ReceiveEarly(r) ==
  /\ Receive(r)
  /\ r.lsn > last_lsn + 1
  /\ reorder_buffer' = [n \in DOMAIN reorder_buffer \cup {r.lsn} |->
                          IF n = r.lsn THEN r ELSE reorder_buffer[n]]
  /\ reorder_start' = IF reorder_start = "none" THEN "waiting"
                                                ELSE reorder_start
  /\ IF Window /\ reorder_start = "expired"
       THEN wpc' = "mark" /\ UNCHANGED result
       ELSE UNCHANGED wpc /\ result' = "ok"
  /\ UNCHANGED call

\* A record that is late, its LSN being persisted or marked missing, is
\* dropped and Ok returned.

ReceiveLate(r) ==
  /\ Receive(r)
  /\ r.lsn <= last_lsn
  /\ result' = "ok"
  /\ UNCHANGED <<wpc, call, reorder_buffer, reorder_start>>

\* The window passes.
Expire ==
  /\ reorder_start = "waiting"
  /\ reorder_start' = "expired"
  /\ UNCHANGED <<is_open, writer, last_lsn, last_hash, reorder_buffer, worm,
                 second, wpc, call, result>>

Tick ==
  /\ Rotates
  /\ second < MaxSecond
  /\ second' = second + 1
  /\ UNCHANGED <<is_open, writer, last_lsn, last_hash, reorder_buffer,
                 reorder_start, worm, wpc, call, result>>

-----------------------------------------------------------------------------
(* flush_reorder_buffer, called before an in-order write, after a gap      *)
(* marker and in close.  Its branch for LSNs below the expected one is     *)
(* dead: BufferIsAhead in WormOrder.                                       *)

Flushing  == {"flush_write", "flush_gap", "flush_close"}
Waiting   == DOMAIN reorder_buffer
First     == Min(Waiting)
NextReady == Waiting # {} /\ First = last_lsn + 1

WithoutFirst == [n \in Waiting \ {First} |-> reorder_buffer[n]]

FlushOne ==
  /\ wpc \in Flushing
  /\ NextReady
  /\ WriteRaw(RecordEntry(reorder_buffer[First]))
  /\ reorder_buffer' = WithoutFirst
  /\ last_lsn' = First
  /\ last_hash' = Link(reorder_buffer[First])
  /\ UNCHANGED <<is_open, reorder_start, wpc, call, result>>

\* The record is out of the buffer already when the write fails.
FlushOneFails ==
  /\ NextReady
  /\ \E pc \in Flushing : WReturn(pc, "failed")
  /\ WriteRawFails(RecordEntry(reorder_buffer[First]))
  /\ reorder_buffer' = WithoutFirst
  /\ UNCHANGED <<is_open, last_lsn, last_hash, reorder_start>>

FlushDone ==
  /\ ~NextReady
  /\ \/ WGoto("flush_write", "write") /\ UNCHANGED <<call, result>>
     \/ WReturn("flush_gap", "ok")
     \/ WGoto("flush_close", "close") /\ UNCHANGED <<call, result>>
  /\ reorder_start' = IF Waiting = {} \/ wpc = "flush_gap" THEN "none"
                                                           ELSE reorder_start
  /\ UNCHANGED <<is_open, writer, last_lsn, last_hash, reorder_buffer, worm,
                 second>>

-----------------------------------------------------------------------------
(* The in-order record itself                                              *)

WriteRecord ==
  /\ WGoto("write", "commit")
  /\ WriteRaw(RecordEntry(call))
  /\ UNCHANGED <<is_open, last_lsn, last_hash, reorder_buffer, reorder_start,
                 call, result>>

WriteRecordFails ==
  /\ WReturn("write", "failed")
  /\ WriteRawFails(RecordEntry(call))
  /\ UNCHANGED <<is_open, last_lsn, last_hash, reorder_buffer, reorder_start>>

CommitRecord ==
  /\ WReturn("commit", "ok")
  /\ IF Durability = "OsCache" THEN UNCHANGED worm ELSE Fsync
  /\ last_lsn' = call.lsn
  /\ last_hash' = Link(call)
  /\ UNCHANGED <<is_open, writer, reorder_buffer, reorder_start, second>>

CommitRecordFails ==
  /\ WReturn("commit", "failed")
  /\ Durability # "OsCache"
  /\ FsyncFails
  /\ UNCHANGED <<is_open, writer, last_lsn, last_hash, reorder_buffer,
                 reorder_start, second>>

-----------------------------------------------------------------------------
(* check_reorder_window, once the window has passed                        *)

Gap == GapEntry(last_lsn + 1, First - 1)

WriteGap ==
  /\ WGoto("mark", "commit_gap")
  /\ WriteRaw(Gap)
  /\ UNCHANGED <<is_open, last_lsn, last_hash, reorder_buffer, reorder_start,
                 call, result>>

WriteGapFails ==
  /\ WReturn("mark", "failed")
  /\ WriteRawFails(Gap)
  /\ UNCHANGED <<is_open, last_lsn, last_hash, reorder_buffer, reorder_start>>

CommitGap_Mutant_OffByOne ==
  /\ WGoto("commit_gap", "flush_gap")
  /\ Fsync
  /\ last_lsn' = First
  /\ UNCHANGED <<is_open, writer, last_hash, reorder_buffer, reorder_start,
                 second, call, result>>

CommitGap ==
  /\ WGoto("commit_gap", "flush_gap")
  /\ Fsync
  /\ last_lsn' = First - 1
  /\ UNCHANGED <<is_open, writer, last_hash, reorder_buffer, reorder_start,
                 second, call, result>>

CommitGapFails ==
  /\ WReturn("commit_gap", "failed")
  /\ FsyncFails
  /\ UNCHANGED <<is_open, writer, last_lsn, last_hash, reorder_buffer,
                 reorder_start, second>>

-----------------------------------------------------------------------------
(* flush and close                                                         *)

Flush ==
  /\ wpc = "idle"
  /\ worm' = IF writer THEN Flushed(worm) ELSE worm
  /\ result' = "ok"
  /\ UNCHANGED <<is_open, writer, last_lsn, last_hash, reorder_buffer,
                 reorder_start, second, wpc, call>>

FlushFails ==
  /\ wpc = "idle"
  /\ writer
  /\ result' = "failed"
  /\ UNCHANGED <<is_open, writer, last_lsn, last_hash, reorder_buffer,
                 reorder_start, worm, second, wpc, call>>

Close ==
  /\ WGoto("idle", "flush_close")
  /\ is_open
  /\ UNCHANGED <<is_open, writer, last_lsn, last_hash, reorder_buffer,
                 reorder_start, worm, second, call, result>>

CloseFile_Mutant_SyncOnly ==
  /\ WReturn("close", "ok")
  /\ Fsync
  /\ writer' = FALSE
  /\ is_open' = FALSE
  /\ UNCHANGED <<last_lsn, last_hash, reorder_buffer, reorder_start, second>>

CloseFile ==
  /\ WReturn("close", "ok")
  /\ worm' = IF writer THEN CurrentSynced(Flushed(worm)) ELSE worm
  /\ writer' = FALSE
  /\ is_open' = FALSE
  /\ UNCHANGED <<last_lsn, last_hash, reorder_buffer, reorder_start, second>>

CloseFileFails ==
  /\ WReturn("close", "failed")
  /\ writer
  /\ worm' \in {worm, Flushed(worm)}
  /\ UNCHANGED <<is_open, writer, last_lsn, last_hash, reorder_buffer,
                 reorder_start, second>>

-----------------------------------------------------------------------------

\* write_worm_record is called
WriteWormRecord(r) ==
  \/ ReceiveInOrder(r) \/ ReceiveBroken(r)
  \/ ReceiveEarly(r) \/ ReceiveLate(r)

\* the steps of a call of write_worm_record or close that has begun
WormStep ==
  \/ FlushOne \/ FlushOneFails \/ FlushDone
  \/ WriteRecord \/ WriteRecordFails \/ CommitRecord \/ CommitRecordFails
  \/ WriteGap \/ WriteGapFails \/ CommitGap \/ CommitGapFails
  \/ CloseFile \/ CloseFileFails

WormTypeOK ==
  /\ is_open \in BOOLEAN
  /\ writer \in BOOLEAN
  /\ last_lsn \in Nat
  /\ Waiting \subseteq Nat
  /\ reorder_start \in {"none", "waiting", "expired"}
  /\ \A i \in DOMAIN worm :
       /\ worm[i].kind \in {"record", "gap"}
       /\ worm[i].first \in Nat
       /\ worm[i].last \in Nat
       /\ worm[i].file \in Nat \cup {Replaced}
       /\ worm[i].layer \in Layers
  /\ second \in Nat
  /\ wpc \in Flushing \cup {"idle", "write", "commit", "mark", "commit_gap",
                            "close"}
  /\ result \in {"ok", "broken", "failed"}

-----------------------------------------------------------------------------
(* Lemmas on the file operations, for any set C of contents: the number,   *)
(* kinds, LSNs, links and contents of the entries stay, whatever layer and *)
(* whatever name of file they come to.                                     *)

Entries(C) ==
  [kind : {"record", "gap"}, first : Nat, last : Nat, content : C,
   prev : C \X Int, file : Nat \cup {Replaced}, layer : Layers]

SameEntry(d, e) ==
  /\ d.kind = e.kind /\ d.first = e.first /\ d.last = e.last
  /\ d.prev = e.prev /\ d.content = e.content

Alike(C, f, g) ==
  /\ g \in Seq(Entries(C)) /\ Len(g) = Len(f)
  /\ \A i \in 1 .. Len(f) : SameEntry(f[i], g[i])

Extends(C, f, g, e) ==
  /\ g \in Seq(Entries(C)) /\ Len(g) = Len(f) + 1
  /\ \A i \in 1 .. Len(f) : SameEntry(f[i], g[i])
  /\ SameEntry(e, g[Len(f) + 1])

LEMMA SameAlike ==
  ASSUME NEW C, NEW f \in Seq(Entries(C)) PROVE Alike(C, f, f)
  BY DEF Alike, SameEntry

LEMMA AlikeAlike ==
  ASSUME NEW C, NEW f \in Seq(Entries(C)), NEW g, NEW h,
         Alike(C, f, g), Alike(C, g, h)
  PROVE  Alike(C, f, h)
  <1>1. Len(f) \in Nat
    OBVIOUS
  <1> QED BY <1>1 DEF Alike, SameEntry

LEMMA PromotedAlike ==
  ASSUME NEW C, NEW f \in Seq(Entries(C)), NEW from \in Layers, NEW to \in Layers
  PROVE  Alike(C, f, Promote(f, from, to))
  <1> DEFINE g == Promote(f, from, to)
  <1>1. DOMAIN f = 1 .. Len(f) /\ Len(f) \in Nat
    OBVIOUS
  <1>2. ASSUME NEW i \in 1 .. Len(f)
        PROVE  g[i] \in Entries(C) /\ SameEntry(f[i], g[i])
    <2>1. g[i] = f[i] \/ g[i] = [f[i] EXCEPT !.layer = to]
      BY <1>1 DEF Promote
    <2>2. f[i] \in Entries(C)
      BY <1>1
    <2> HIDE DEF g
    <2> QED BY <2>1, <2>2 DEF Entries, SameEntry
  <1>3. g \in Seq(Entries(C)) /\ Len(g) = Len(f)
    BY <1>1, <1>2 DEF Promote
  <1> QED BY <1>2, <1>3 DEF Alike

LEMMA FlushedAlike == ASSUME NEW C, NEW f \in Seq(Entries(C)) PROVE Alike(C, f, Flushed(f))
  BY PromotedAlike DEF Flushed, Layers

LEMMA SyncedAlike ==
  ASSUME NEW C, NEW f \in Seq(Entries(C)) PROVE Alike(C, f, CurrentSynced(f))
  <1> DEFINE g == CurrentSynced(f)
  <1>1. DOMAIN f = 1 .. Len(f) /\ Len(f) \in Nat
    OBVIOUS
  <1>2. Alike(C, f, Synced(f))
    BY PromotedAlike DEF Synced, Layers
  <1>3. \A i \in 1 .. Len(f) : Synced(f)[i] \in Entries(C)
    BY <1>1, <1>2 DEF Alike
  <1>4. \A i \in 1 .. Len(f) : g[i] \in Entries(C) /\ SameEntry(f[i], g[i])
    BY <1>1, <1>2, <1>3 DEF CurrentSynced, Alike, SameEntry
  <1>5. g \in Seq(Entries(C)) /\ Len(g) = Len(f)
    BY <1>1, <1>4 DEF CurrentSynced
  <1> QED BY <1>4, <1>5 DEF Alike

LEMMA RenamedAlike ==
  ASSUME NEW C, NEW f \in Seq(Entries(C)), second \in Nat PROVE Alike(C, f, Renamed(f))
  <1> DEFINE g == Renamed(f)
  <1>1. DOMAIN f = 1 .. Len(f) /\ Len(f) \in Nat
    OBVIOUS
  <1>2. ASSUME NEW i \in 1 .. Len(f)
        PROVE  g[i] \in Entries(C) /\ SameEntry(f[i], g[i])
    <2>1. \/ g[i] = f[i]
          \/ g[i] = [f[i] EXCEPT !.file = second]
          \/ g[i] = [f[i] EXCEPT !.file = Replaced]
      BY <1>1 DEF Renamed
    <2>2. f[i] \in Entries(C)
      BY <1>1
    <2> HIDE DEF g
    <2> QED BY <2>1, <2>2 DEF Entries, SameEntry, Replaced
  <1>3. g \in Seq(Entries(C)) /\ Len(g) = Len(f)
    BY <1>1, <1>2 DEF Renamed
  <1> QED BY <1>2, <1>3 DEF Alike

LEMMA AppendExtends ==
  ASSUME NEW C, NEW f \in Seq(Entries(C)), NEW e \in Entries(C)
  PROVE  Extends(C, f, Append(f, e), e)
  BY DEF Extends, SameEntry

LEMMA ExtendsAlike ==
  ASSUME NEW C, NEW f \in Seq(Entries(C)), NEW g, NEW h, NEW e,
         \/ Extends(C, f, g, e) /\ Alike(C, g, h)
         \/ Alike(C, f, g) /\ Extends(C, g, h, e)
  PROVE  Extends(C, f, h, e)
  <1>1. Len(f) \in Nat
    OBVIOUS
  <1>2. CASE Extends(C, f, g, e) /\ Alike(C, g, h)
    BY <1>1, <1>2 DEF Extends, Alike, SameEntry
  <1>3. CASE Alike(C, f, g) /\ Extends(C, g, h, e)
    BY <1>1, <1>3 DEF Extends, Alike, SameEntry
  <1> QED BY <1>2, <1>3

LEMMA WritesExtend ==
  ASSUME NEW C, NEW f \in Seq(Entries(C)), NEW e \in Entries(C), NEW g \in Writes(f, e)
  PROVE  g \in Seq(Entries(C)) /\ Extends(C, f, g, e)
  <1>1. Alike(C, f, Flushed(f)) /\ Flushed(f) \in Seq(Entries(C))
    BY FlushedAlike DEF Alike
  <1>2. CASE g = Append(f, e)
    BY <1>2, AppendExtends
  <1>3. CASE g = Append(Flushed(f), e)
    <2>1. Extends(C, Flushed(f), g, e)
      BY <1>1, <1>3, AppendExtends
    <2>2. Extends(C, f, g, e)
      BY <1>1, <2>1, ExtendsAlike
    <2> QED BY <2>1, <2>2 DEF Extends
  <1>4. CASE g = Flushed(Append(f, e))
    <2>1. Append(f, e) \in Seq(Entries(C))
      OBVIOUS
    <2> QED BY <1>4, <2>1, FlushedAlike, AppendExtends, ExtendsAlike DEF Alike
  <1> QED BY <1>2, <1>3, <1>4 DEF Writes

LEMMA WriteRawExtends ==
  ASSUME NEW C, worm \in Seq(Entries(C)), NEW e \in Entries(C), writer,
         second \in Nat, WriteRaw(e)
  PROVE  Extends(C, worm, worm', e)
  <1>1. PICK f \in Writes(worm, e) : worm' = f \/ worm' = Renamed(Flushed(f))
    BY DEF WriteRaw
  <1>2. f \in Seq(Entries(C)) /\ Extends(C, worm, f, e)
    BY WritesExtend
  <1>3. Alike(C, f, Flushed(f)) /\ Flushed(f) \in Seq(Entries(C))
    BY <1>2, FlushedAlike DEF Alike
  <1>4. Alike(C, Flushed(f), Renamed(Flushed(f)))
    BY <1>3, RenamedAlike
  <1>5. Extends(C, worm, Flushed(f), e)
    BY <1>2, <1>3, ExtendsAlike
  <1>6. Extends(C, worm, Renamed(Flushed(f)), e)
    BY <1>4, <1>5, ExtendsAlike
  <1> QED BY <1>1, <1>2, <1>6

LEMMA WriteRawFailsExtends ==
  ASSUME NEW C, worm \in Seq(Entries(C)), NEW e \in Entries(C),
         second \in Nat, WriteRawFails(e)
  PROVE  worm' = worm \/ Extends(C, worm, worm', e)
  <1> DEFINE f == Append(worm, e)
  <1>1. f \in Seq(Entries(C)) /\ Extends(C, worm, f, e)
    BY AppendExtends
  <1>2. Alike(C, f, Flushed(f)) /\ Flushed(f) \in Seq(Entries(C))
    BY <1>1, FlushedAlike DEF Alike
  <1>3. Alike(C, Flushed(f), Renamed(Flushed(f)))
    BY <1>2, RenamedAlike
  <1>4. Extends(C, worm, Flushed(f), e)
    BY <1>1, <1>2, ExtendsAlike
  <1>5. Extends(C, worm, Renamed(Flushed(f)), e)
    BY <1>3, <1>4, ExtendsAlike
  <1> QED BY <1>4, <1>5 DEF WriteRawFails

=============================================================================
