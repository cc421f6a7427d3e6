------------------------------ MODULE SifCodec ------------------------------
(***************************************************************************)
(* Records between processes (core/src/sif/codec.rs).                      *)
(* A record and its fields (core/src/record/mod.rs, kv.rs), the field      *)
(* calls of the host (core/src/ffi.rs, plugin/vtable.rs) and the frame     *)
(* that carries it: a field is found by its tag, core names have fixed     *)
(* ones, "ext." and "verified." names are given the next free one of a     *)
(* process-wide table.  The table of a frame's writer is not that of its   *)
(* reader: the frame carries tag and name, and the reader enters the pair. *)
(* And FrameScanner, which finds the frames of a stream in the chunks it   *)
(* arrives in; the two share no state.                                     *)
(***************************************************************************)
EXTENDS Integers, Sequences, SequencesExt

CONSTANTS
  Writers,          \* processes that set vendor fields
  Readers,          \* processes that do not: they decode and read
  Core,             \* names with a fixed tag: name -> tag
  Vendors,          \* names of vendor fields
  BadVendors,       \* names that encode and that validate_name refuses
  Values, Messages,
  FirstVendorTag, LastVendorTag,
  MaxSlots,         \* bound on the fields of a record
  StreamPrefix,     \* bytes of a length in the stream, 4 in the code
  max_frame_size,
  MaxFrames         \* bound on the frames of the stream

IdTag == 1

(* A field goes by one of its names, and no vendor name is a core name.     *)
ASSUME SifAssumption ==
  /\ FirstVendorTag \in Nat /\ FirstVendorTag > IdTag
  /\ \A name \in DOMAIN Core : Core[name] \in (IdTag + 1)..(FirstVendorTag - 1)
  /\ IsInjective(Core)
  /\ DOMAIN Core \cap Vendors = {}
  /\ StreamPrefix \in Nat \ {0} /\ max_frame_size \in Nat

VARIABLES
  created,          \* the processes whose VENDOR_TAGS exists
  vendor_tags,      \* VENDOR_TAGS of each process
  vendor_next,      \* VENDOR_NEXT
  record,           \* the record a process works on
  truth,            \* history: the fields it was given, or was sent
  unentered,        \* history: the names among them that it could not enter
  wire,             \* the frame on its way, and the truth of its record
  stream,           \* FrameScanner: the frames encoded, [size, good]
  unread,           \* the bytes that have not been fed
  buffer, cursor,   \* cursor: the number of bytes read
  yielded           \* the frames returned

wirevars == <<created, vendor_tags, vendor_next, record, truth, unentered, wire>>
streamvars == <<stream, unread, buffer, cursor, yielded>>

SifProcesses == Writers \cup Readers
IsVendor(tag) == tag >= FirstVendorTag

Empty == [name \in {} |-> 0]
Bind(f, name, value) == [n \in DOMAIN f \cup {name} |-> IF n = name THEN value ELSE f[n]]
NoRecord == [slots |-> <<>>, message |-> "", hash |-> <<>>]
NoTruth == [name \in {} |-> ""]
NoFrame == [record |-> NoRecord, names |-> <<>>, truth |-> NoTruth]

WireInit ==
  /\ created = {}
  /\ vendor_tags = [p \in SifProcesses |-> Empty]
  /\ vendor_next = [p \in SifProcesses |-> FirstVendorTag]
  /\ record = [p \in SifProcesses |-> NoRecord]
  /\ truth = [p \in SifProcesses |-> NoTruth]
  /\ unentered = [p \in SifProcesses |-> {}]
  /\ wire = NoFrame

(***************************************************************************)
(* Slots: kv0, kv1 and the overflow vector, in the order of insertion.  A  *)
(* tag has one of them at most.                                            *)
(***************************************************************************)

Slot(tag, value) == [tag |-> tag, value |-> value]
HasSlot(slots, tag) == \E i \in DOMAIN slots : slots[i].tag = tag
SlotOf(slots, tag) == CHOOSE i \in DOMAIN slots : slots[i].tag = tag

PutSlot(slots, tag, value) ==
  IF HasSlot(slots, tag) THEN [slots EXCEPT ![SlotOf(slots, tag)].value = value]
                         ELSE Append(slots, Slot(tag, value))

(* KvSlot: the value as it was put. *)
ValueOf(slots, tag) ==
  IF HasSlot(slots, tag) THEN slots[SlotOf(slots, tag)].value ELSE "not found"

(* RecordString.set: a short text ends at its first NUL byte. *)
Stored(message) == IF message = "text<NUL>text" THEN "text" ELSE message

(* compute_content_hash_from: everything but the hash, the slots in order. *)
HashOf(rec) == <<rec.slots, rec.message>>

(***************************************************************************)
(* The table of vendor tags, under its two locks.                          *)
(***************************************************************************)

Known(p) == DOMAIN vendor_tags[p]

(* resolve_tag without allocation; 0: there is none. *)
TagOf(p, name) ==
  IF name \in DOMAIN Core THEN Core[name]
  ELSE IF name \in Known(p) THEN vendor_tags[p][name] ELSE 0

(* vendor_tag_for: whoever asks for a vendor name first creates the table. *)
CreateTable(p) == created' = created \cup {p}

Settable(p) ==
  record[p] # NoRecord /\ record[p].hash = <<>> /\ Len(record[p].slots) < MaxSlots

(***************************************************************************)
(* A process's calls.                                                      *)
(***************************************************************************)

(* dologger_log: the id is the first field; dologger_record_create: none.  *)
CreateRecord(p, id, message) ==
  /\ record[p] = NoRecord
  /\ record' = [record EXCEPT
       ![p] = [slots |-> IF id = "" THEN <<>> ELSE <<Slot(IdTag, id)>>,
               message |-> Stored(message), hash |-> <<>>]]
  /\ truth' = [truth EXCEPT ![p] = NoTruth]
  /\ unentered' = [unentered EXCEPT ![p] = {}]
  /\ UNCHANGED <<created, vendor_tags, vendor_next, wire>>

SetField(p, name, tag, value) ==
  /\ record' = [record EXCEPT ![p].slots = PutSlot(@, tag, value)]
  /\ truth' = [truth EXCEPT ![p] = Bind(@, name, value)]

(* dologger_field_set and the accessor of a plugin are Ring 3 callers, to   *)
(* whom the core fields are closed; the engine sets those itself.          *)
SetCoreField(p, name, value) ==
  /\ Settable(p)
  /\ SetField(p, name, Core[name], value)
  /\ UNCHANGED <<created, vendor_tags, vendor_next, unentered, wire>>

SetKnownField(p, name, value) ==
  /\ Settable(p) /\ name \in Known(p)
  /\ SetField(p, name, vendor_tags[p][name], value)
  /\ UNCHANGED <<created, vendor_tags, vendor_next, unentered, wire>>

(* field_set, with allocation. *)
SetNewField(p, name, value) ==
  /\ Settable(p) /\ name \notin Known(p) /\ vendor_next[p] <= LastVendorTag
  /\ CreateTable(p)
  /\ vendor_tags' = [vendor_tags EXCEPT ![p] = Bind(@, name, vendor_next[p])]
  /\ vendor_next' = [vendor_next EXCEPT ![p] = @ + 1]
  /\ SetField(p, name, vendor_next[p], value)
  /\ UNCHANGED <<unentered, wire>>

(* field_get of a vendor name, or field_set when the tags are used up:      *)
(* NotFound.                                                               *)
AskForVendorField(p) ==
  /\ record[p] # NoRecord
  /\ CreateTable(p)
  /\ UNCHANGED <<vendor_tags, vendor_next, record, truth, unentered, wire>>

(* The pipeline seals the audit records that dologger_log made. *)
Seal(p) ==
  /\ record[p].slots # <<>> /\ record[p].slots[1].tag = IdTag
  /\ record' = [record EXCEPT ![p].hash = HashOf(record[p])]
  /\ UNCHANGED <<created, vendor_tags, vendor_next, truth, unentered, wire>>

(* Record.reset, or the record is destroyed. *)
Discard(p) ==
  /\ record[p] # NoRecord
  /\ record' = [record EXCEPT ![p] = NoRecord]
  /\ truth' = [truth EXCEPT ![p] = NoTruth]
  /\ unentered' = [unentered EXCEPT ![p] = {}]
  /\ UNCHANGED <<created, vendor_tags, vendor_next, wire>>

(* field_name_for_tag: a vendor name is one whose entry has the tag. *)
NamesFor(p, tag) ==
  {n \in DOMAIN Core : Core[n] = tag} \cup {n \in Known(p) : vendor_tags[p][n] = tag}
NameOf(p, tag) == IF NamesFor(p, tag) # {} THEN NamesFor(p, tag) ELSE {"ext.unknown"}

EncodeFrame(p) ==
  /\ record[p] # NoRecord /\ wire = NoFrame
  /\ \E names \in [DOMAIN record[p].slots ->
                     UNION {NameOf(p, slot.tag) : slot \in Range(record[p].slots)}] :
       /\ \A i \in DOMAIN names : names[i] \in NameOf(p, record[p].slots[i].tag)
       /\ wire' = [record |-> record[p], names |-> names, truth |-> truth[p]]
  /\ UNCHANGED <<created, vendor_tags, vendor_next, record, truth, unentered>>

(***************************************************************************)
(* Decoding.                                                               *)
(***************************************************************************)

FrameSlots == wire.record.slots

(* A field is refused for its name, or for a tag that came before.         *)
FieldRead(i) ==
  \A j \in 1..i : /\ wire.names[j] \notin BadVendors
                  /\ \A k \in 1..j - 1 : FrameSlots[k].tag # FrameSlots[j].tag

(* The frame's fixed part has an id, zero if the record has none: it is the *)
(* first field of the decoded record.                                      *)
DecodedSlots ==
  IF HasSlot(FrameSlots, IdTag)
  THEN LET at == SlotOf(FrameSlots, IdTag) IN
       <<FrameSlots[at]>> \o RemoveAt(FrameSlots, at)
  ELSE <<Slot(IdTag, "0")>> \o FrameSlots

Decoded == [wire.record EXCEPT !.slots = DecodedSlots, !.message = Stored(@)]

Decodes ==
  /\ \A i \in DOMAIN FrameSlots : FieldRead(i)
  /\ wire.record.hash # <<>> => wire.record.hash = HashOf(Decoded)

(* register_vendor_tag: a table that is there enters the names that are new *)
(* to it, also of a frame that is refused at a later field.                *)
Entering(name) ==
  {i \in DOMAIN FrameSlots :
     FieldRead(i) /\ IsVendor(FrameSlots[i].tag) /\ wire.names[i] = name}
EntersFirst(name) == CHOOSE i \in Entering(name) : \A j \in Entering(name) : i <= j

TableAfter(p) ==
  IF p \notin created THEN vendor_tags[p]
  ELSE [name \in Known(p) \cup {n \in Range(wire.names) : Entering(n) # {}} |->
          IF name \in Known(p) THEN vendor_tags[p][name]
                               ELSE FrameSlots[EntersFirst(name)].tag]

DecodeFrame(p) ==
  /\ wire # NoFrame
  /\ record[p] = NoRecord
  /\ vendor_tags' = [vendor_tags EXCEPT ![p] = TableAfter(p)]
  /\ IF Decodes
     THEN /\ record' = [record EXCEPT ![p] = Decoded]
          /\ truth' = [truth EXCEPT ![p] = wire.truth]
          /\ unentered' = [unentered EXCEPT
               ![p] = IF p \in created THEN {} ELSE DOMAIN wire.truth \cap Vendors]
     ELSE UNCHANGED <<record, truth, unentered>>
  /\ wire' = NoFrame
  /\ UNCHANGED <<created, vendor_next>>

WireNext ==
  \/ \E p \in Writers :
       \/ \E id \in {"", "id"}, message \in Messages : CreateRecord(p, id, message)
       \/ \E value \in Values : \/ \E name \in DOMAIN Core : SetCoreField(p, name, value)
                                \/ \E name \in Vendors : \/ SetKnownField(p, name, value)
                                                         \/ SetNewField(p, name, value)
       \/ Seal(p) \/ EncodeFrame(p)
  \/ \E p \in SifProcesses : AskForVendorField(p) \/ Discard(p) \/ DecodeFrame(p)

WireSpec == WireInit /\ [][WireNext]_wirevars

-----------------------------------------------------------------------------
(***************************************************************************)
(* FrameScanner.  A byte is its frame's number and its place in the frame; *)
(* StreamPrefix bytes of length come first.  A frame whose length or       *)
(* content is refused stays where it is until the scanner is reset, and    *)
(* the stream starts again with the frame after it.                        *)
(***************************************************************************)

StreamInit ==
  /\ stream = <<>> /\ unread = <<>>
  /\ buffer = <<>> /\ cursor = 0 /\ yielded = <<>>

Width(i) == StreamPrefix + stream[i].size
Payload(i) == [j \in 1..stream[i].size |-> <<i, StreamPrefix + j>>]

(* encode_length_prefixed *)
EncodeNext(size, good) ==
  /\ Len(stream) < MaxFrames
  /\ stream' = Append(stream, [size |-> size, good |-> good])
  /\ unread' = unread \o [j \in 1..StreamPrefix + size |-> <<Len(stream) + 1, j>>]
  /\ UNCHANGED <<buffer, cursor, yielded>>

(* compact: half tells whether the cursor is past half of the capacity.    *)
Compact(bytes, read, half) ==
  IF read = Len(bytes) THEN [buffer |-> <<>>, cursor |-> 0]
  ELSE IF half THEN [buffer |-> SubSeq(bytes, read + 1, Len(bytes)), cursor |-> 0]
  ELSE [buffer |-> bytes, cursor |-> read]

Buffered == Len(buffer) - cursor
HasRoom(n) == Buffered + n <= max_frame_size + StreamPrefix

(* feed: a chunk that does not fit is refused; the caller feeds less of it. *)
Feed(n) ==
  /\ n <= Len(unread) /\ HasRoom(n)
  /\ \E half \in BOOLEAN :
       LET compacted == Compact(buffer, cursor, half) IN
       /\ buffer' = compacted.buffer \o SubSeq(unread, 1, n)
       /\ cursor' = compacted.cursor
  /\ unread' = SubSeq(unread, n + 1, Len(unread))
  /\ UNCHANGED <<stream, yielded>>

(* The frame whose length the first bytes give, if they are all there.     *)
AtCursor == buffer[cursor + 1][1]
End == cursor + Width(AtCursor)
FrameIsThere == Buffered >= StreamPrefix /\ End <= Len(buffer)

(* next_frame, next_record *)
NextFrame ==
  /\ FrameIsThere /\ stream[AtCursor].good
  /\ yielded' = Append(yielded, SubSeq(buffer, cursor + StreamPrefix + 1, End))
  /\ \E half \in BOOLEAN :
       LET compacted == Compact(buffer, End, half) IN
       buffer' = compacted.buffer /\ cursor' = compacted.cursor
  /\ UNCHANGED <<stream, unread>>

(* What of the stream the scanner has not returned yet.                    *)
Unreturned == SubSeq(buffer, cursor + 1, Len(buffer)) \o unread

(* next_frame fails, and reset. *)
ResetScanner ==
  /\ Buffered >= StreamPrefix /\ ~stream[AtCursor].good
  /\ buffer' = <<>> /\ cursor' = 0
  /\ unread' = SubSeq(Unreturned, Width(AtCursor) + 1, Len(Unreturned))
  /\ UNCHANGED <<stream, yielded>>

StreamNext ==
  \/ \E size \in 1..max_frame_size, good \in BOOLEAN : EncodeNext(size, good)
  \/ \E n \in 1..StreamPrefix + max_frame_size : Feed(n)
  \/ NextFrame \/ ResetScanner

StreamSpec == StreamInit /\ [][StreamNext]_streamvars

-----------------------------------------------------------------------------
(***************************************************************************)
(* Properties.                                                             *)
(***************************************************************************)

(* field_get. *)
FieldGet(p, name) == ValueOf(record[p].slots, TagOf(p, name))

(* In a process that sets its own fields or reads another's, but not both,  *)
(* each name reads back the value set last, or sent, and no other name     *)
(* does.  The exception are the vendor fields of a frame that was decoded  *)
(* before the process had a table: they are in the record, but no name     *)
(* leads to them, also when the table is created later.  And a frame       *)
(* decodes, its hash verified, unless a name in it is refused.             *)
FieldsReadBack ==
  /\ \A p \in SifProcesses, name \in DOMAIN Core \cup Vendors :
       FieldGet(p, name) =
         IF name \in DOMAIN truth[p] \ unentered[p] THEN truth[p][name] ELSE "not found"
  /\ wire # NoFrame => Decodes \/ \E i \in DOMAIN wire.names : wire.names[i] \in BadVendors

(* What the round trip of the tests (codec.rs:1011-1025) asserts inside    *)
(* the process that set the fields, asked of every process that decodes    *)
(* the frame.  No run checks it: TLC finds it violated by a reader that    *)
(* has not asked for a vendor name yet, whose register_vendor_tag enters   *)
(* nothing.                                                                *)
FieldsSurviveDecoding ==
  \A p \in SifProcesses : \A name \in DOMAIN truth[p] : FieldGet(p, name) = truth[p][name]

(* "`feed` accepts arbitrary chunks" (codec.rs:825): however the stream is  *)
(* cut, what has been returned is the good ones of the first n frames,     *)
(* each whole, once and in order; and the scanner always has a frame to    *)
(* return or to refuse, or room for one more byte.                         *)
FramesAreWhole ==
  /\ \E n \in 0..Len(stream) :
       /\ \A k \in DOMAIN yielded : \E i \in 1..n : stream[i].good /\ yielded[k] = Payload(i)
       /\ \A i \in 1..n : stream[i].good => \E k \in DOMAIN yielded : yielded[k] = Payload(i)
  /\ \A j, k \in DOMAIN yielded : j < k => yielded[j][1][1] < yielded[k][1][1]
  /\ FrameIsThere \/ HasRoom(1)

=============================================================================
