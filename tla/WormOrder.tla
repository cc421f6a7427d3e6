----------------------------- MODULE WormOrder -----------------------------
(***************************************************************************)
(* WormSink with a caller that delivers LSNs in any order and any number   *)
(* of times, with the right predecessor hash or a wrong one.  The only     *)
(* caller in the engine, the audit pipeline, delivers each once and in     *)
(* order (AuditPipeline); this module is about the reorder window, the gap *)
(* markers, rotation and what repeats do to them.                          *)
(***************************************************************************)
EXTENDS WormSink, FiniteSetTheorems

CONSTANTS
  MaxLsn,       \* bound: LSNs 1 .. MaxLsn
  MaxRepeats    \* bound: calls with an LSN that was taken before

ASSUME MaxLsnAssumption == MaxLsn \in Nat

VARIABLES
  delivered,   \* the LSNs for which some call was not turned down
  faulted,     \* some file operation has failed
  repeats,     \* how often an LSN was delivered that had been taken before
  doubled      \* a record came again, and in order, while its copy waited

vars == <<wvars, delivered, faulted, repeats, doubled>>

Init ==
  /\ WormInit
  /\ delivered = {} /\ faulted = FALSE
  /\ repeats = 0 /\ doubled = FALSE

RightHash(n) == <<IF n = 1 THEN None ELSE n - 1, n - 1>>

\* The hash of a record that is not the next one is not looked at: only the
\* next one comes with a wrong hash too.
Deliver(n) ==
  /\ \E h \in {RightHash(n), ZeroHash} :
       /\ h = ZeroHash => n = last_lsn + 1
       /\ WriteWormRecord([lsn |-> n, prev |-> h, content |-> n])
  /\ delivered' = IF wpc' = "idle" /\ result' = "broken"
                    THEN delivered ELSE delivered \cup {n}
  /\ repeats' = repeats + IF n \in delivered THEN 1 ELSE 0
  /\ repeats' <= MaxRepeats
  /\ doubled' = (doubled \/ (wpc' = "flush_write" /\ n \in Waiting))

Next ==
  /\ \/ \E n \in 1 .. MaxLsn : Deliver(n)
     \/ /\ WormStep \/ Expire \/ Tick \/ Flush \/ FlushFails \/ Close
        /\ UNCHANGED <<delivered, repeats, doubled>>
  /\ faulted' = (faulted \/ result' = "failed")

Spec == Init /\ [][Next]_vars

-----------------------------------------------------------------------------
(* Properties                                                              *)

\* Types of the sink's state and of the caller's.
TypeOK ==
  /\ WormTypeOK
  /\ delivered \subseteq 1 .. MaxLsn
  /\ faulted \in BOOLEAN
  /\ repeats \in Nat
  /\ doubled \in BOOLEAN

\* The LSNs that a step of the call under way has written but last_lsn does
\* not cover yet end here.
WrittenUpTo ==
  CASE wpc = "commit"     -> call.lsn
    [] wpc = "commit_gap" -> First - 1
    [] OTHER              -> last_lsn

Recorded == {worm[i].first :
               i \in {j \in DOMAIN worm : worm[j].kind = "record"}}
Marked   == UNION {worm[i].first .. worm[i].last :
                     i \in {j \in DOMAIN worm : worm[j].kind = "gap"}}

\* Read from the start the file accounts for every LSN exactly once, as a
\* record or inside a gap marker, in ascending order and up to last_lsn, in
\* whatever order and however often records come in: none is written twice,
\* out of order or skipped without a marker (flush_reorder_buffer,
\* check_reorder_window).  The exception is a record that comes again, and
\* now in order, while its copy waits: the call first flushes the copy and
\* whatever follows it, then writes the record once more and sets last_lsn
\* back to it (worm.rs:169-176).
TrailIsContiguous ==
  ~faulted /\ ~doubled =>
    /\ \A i \in DOMAIN worm :
         worm[i].first = IF i = 1 THEN 1 ELSE worm[i - 1].last + 1
    /\ WrittenUpTo = IF worm = <<>> THEN 0 ELSE worm[Len(worm)].last

\* Whatever is repeated, also in that exception: no LSN up to last_lsn is
\* missing from the file without a marker, so that a record dropped as late
\* is one the file accounts for (write_worm_record).
TrailHasNoHole == ~faulted => 1 .. last_lsn \subseteq Recorded \cup Marked

\* A record waiting in the reorder buffer is always beyond last_lsn, so that
\* it can still be written in order (first_key_value and BTreeMap order).
BufferIsAhead == \A n \in Waiting : n > last_lsn

\* What the sink keeps between any two steps: its types, a buffer that can
\* still be written, a trail in order and without repeats but for the
\* exception above, and one without holes in any case.
SinkInv == TypeOK /\ BufferIsAhead /\ TrailIsContiguous /\ TrailHasNoHole

\* What "Duplicate, remove silently" (worm.rs:209) has a reader expect of
\* repeats: no record is in the file twice.  No run checks it: TLC finds it
\* violated by 2 (which waits), 1, and 2 again, as said above.
NothingIsWrittenTwice ==
  ~faulted =>
    \A i, j \in DOMAIN worm :
      worm[i].kind = "record" /\ worm[j].kind = "record"
        /\ worm[i].first = worm[j].first => i = j

\* A record the sink took is in the file, waits in the reorder buffer, is
\* being written, or came after its LSN had been marked missing: no path
\* through the window forgets one.
NothingVanishes ==
  ~faulted =>
    delivered \subseteq Recorded \cup Waiting \cup {call.lsn} \cup Marked

\* Once closed, the file that close sealed is on the device completely.
ClosedIsDurable ==
  ~is_open /\ ~faulted =>
    \A i \in DOMAIN worm : worm[i].file = Current => Durable(worm[i])

\* A gap marker names at least one LSN, all of them missing.  The reference
\* says that a record that arrives within the window leaves no gap marked.
GapsAreMissing ==
  ~faulted =>
    \A i \in DOMAIN worm :
      worm[i].kind = "gap" =>
        /\ worm[i].first <= worm[i].last
        /\ (worm[i].first .. worm[i].last) \cap Recorded = {}

-----------------------------------------------------------------------------
(* Proofs, for any number of LSNs and of repeats.  The file has no hole     *)
(* because an entry ends at most one beyond what is covered.  It is in      *)
(* order because, as long as nothing is doubled, an entry is written only   *)
(* where the last one ended: the record of the call is the next one and     *)
(* does not wait at the same time, and a gap is marked only while something *)
(* waits.  There is a writer while the sink is open and nothing has failed. *)

Payloads == Nat \cup {None}
Records  == [lsn : 1 .. MaxLsn, prev : Payloads \X Int, content : Payloads]
InCall   == {"flush_write", "write", "commit"}

WellFormed(f) ==
  /\ f \in Seq(Entries(Payloads))
  /\ \A i \in 1 .. Len(f) : f[i].kind = "record" => f[i].first = f[i].last

LastIn(f) == IF Len(f) = 0 THEN 0 ELSE f[Len(f)].last

Covered(f, n) == \E i \in 1 .. Len(f) : f[i].first <= n /\ n <= f[i].last

\* f accounts for the LSNs 1 .. m in their order
Accounts(f, m) ==
  /\ \A i \in 1 .. Len(f) : f[i].first = IF i = 1 THEN 1 ELSE f[i - 1].last + 1
  /\ LastIn(f) = m

\* f covers the LSNs 1 .. m
Reaches(f, m) == \A n \in 1 .. m : Covered(f, n)

Sealed(f) == \A i \in 1 .. Len(f) : f[i].file = Current => f[i].layer = "media"

OrderTypes ==
  /\ is_open \in BOOLEAN /\ writer \in BOOLEAN /\ faulted \in BOOLEAN
  /\ last_lsn \in Nat /\ second \in Nat
  /\ reorder_start \in {"none", "waiting", "expired"}
  /\ wpc \in Flushing \cup {"idle", "write", "commit", "mark", "commit_gap", "close"}
  /\ result \in {"ok", "broken", "failed"}
  /\ WellFormed(worm)
  /\ delivered \subseteq 1 .. MaxLsn
  /\ repeats \in Nat /\ doubled \in BOOLEAN

WaitInv ==
  /\ Waiting \subseteq delivered
  /\ \A n \in Waiting : /\ n > last_lsn
                        /\ reorder_buffer[n] \in Records
                        /\ reorder_buffer[n].lsn = n
  /\ wpc \in {"mark", "commit_gap"} => Waiting # {}

CallInv ==
  /\ wpc # "idle" => is_open
  /\ wpc \in InCall => /\ call \in Records
                       /\ call.lsn \in delivered
                       /\ call.lsn <= last_lsn + 1
                       /\ ~doubled => call.lsn = last_lsn + 1 /\ call.lsn \notin Waiting
  /\ wpc \in {"write", "commit"} => \A n \in Waiting : n > call.lsn
  /\ wpc \notin InCall => call.lsn = 0

TrailInv ==
  ~faulted =>
    /\ ~doubled => Accounts(worm, WrittenUpTo)
    /\ Reaches(worm, last_lsn) /\ Reaches(worm, WrittenUpTo)
    /\ \A n \in delivered : Covered(worm, n) \/ n \in Waiting \/ n = call.lsn
    /\ is_open => writer
    /\ ~is_open => ~writer /\ Sealed(worm)

OrderIInv == OrderTypes /\ WaitInv /\ CallInv /\ TrailInv

\* Every set of naturals has a least element: otherwise the naturals below
\* all of it would be a finite set that is closed under successor.
LEMMA SmallestExists ==
  ASSUME NEW T \in SUBSET Nat, T # {}
  PROVE  Min(T) \in T /\ \A k \in T : Min(T) <= k
  <1> DEFINE below == {n \in Nat : \A k \in T : n < k}
             next  == [n \in below |-> n + 1]
  <1>1. ASSUME ~\E x \in T : \A k \in T : x <= k
        PROVE  FALSE
    <2>1. 0 \in below /\ \A n \in below : n + 1 \in below
      <3>1. 0 \in below
        BY <1>1
      <3>2. ASSUME NEW n \in below, n + 1 \notin below PROVE FALSE
        <4>1. PICK x \in T : x <= n + 1
          BY <3>2
        <4>2. \A k \in T : x <= k
          BY <4>1
        <4> QED BY <1>1, <4>2
      <3> QED BY <3>1, <3>2
    <2>2. IsFiniteSet(below)
      <3>1. PICK x \in T : TRUE
        OBVIOUS
      <3>2. below \in SUBSET Nat /\ x \in Nat /\ \A n \in below : n <= x
        BY <3>1
      <3> HIDE DEF below
      <3> QED BY <3>2, FS_BoundedSetOfNaturals
    <2>3. next \in [below -> below \ {0}]
      BY <2>1
    <2>4. \A m, n \in below : m # n => next[m] # next[n]
      OBVIOUS
    <2> HIDE DEF below, next
    <2>5. IsFiniteSet(below \ {0}) /\ Cardinality(below \ {0}) = Cardinality(below) - 1
      BY <2>1, <2>2, FS_RemoveElement
    <2>6. Cardinality(below) \in Nat
      BY <2>2, FS_CardinalityType
    <2>7. Cardinality(below \ {0}) < Cardinality(below)
      BY <2>5, <2>6
    <2> QED BY <2>2, <2>3, <2>4, <2>5, <2>7, FS_PigeonHole
  <1>2. PICK x \in T : \A k \in T : x <= k
    BY <1>1
  <1> QED BY <1>2 DEF Min

LEMMA WaitingNumbers ==
  ASSUME OrderTypes, WaitInv PROVE Waiting \subseteq Nat \ {0} /\ delivered \subseteq Nat \ {0}
  <1>1. Waiting \subseteq delivered /\ delivered \subseteq 1 .. MaxLsn
    BY DEF OrderTypes, WaitInv
  <1> QED BY <1>1, MaxLsnAssumption

LEMMA FirstIsLeast ==
  ASSUME OrderTypes, WaitInv, Waiting # {}
  PROVE  /\ First \in Waiting /\ First \in 1 .. MaxLsn
         /\ First > last_lsn /\ \A n \in Waiting : First <= n
  <1>1. Waiting \in SUBSET Nat /\ Waiting \subseteq 1 .. MaxLsn
    BY MaxLsnAssumption DEF OrderTypes, WaitInv
  <1> QED BY <1>1, SmallestExists DEF First, WaitInv

LEMMA EntryForm ==
  ASSUME NEW f, WellFormed(f), NEW i \in DOMAIN f
  PROVE  /\ i \in 1 .. Len(f) /\ Len(f) \in Nat /\ f[i].kind \in {"record", "gap"}
         /\ f[i].first \in Nat /\ f[i].last \in Nat
         /\ f[i].file \in Nat \cup {Replaced} /\ f[i].layer \in Layers
         /\ f[i].kind = "record" => f[i].first = f[i].last
  <1>1. i \in 1 .. Len(f) /\ Len(f) \in Nat /\ f[i] \in Entries(Payloads)
    BY DEF WellFormed
  <1> QED BY <1>1 DEF Entries, WellFormed

LEMMA AlikeAccounts ==
  ASSUME NEW f, NEW g, WellFormed(f), Alike(Payloads, f, g)
  PROVE  /\ WellFormed(g) /\ \A m : Accounts(f, m) => Accounts(g, m)
         /\ \A n : Covered(f, n) => Covered(g, n)
         /\ \A m : Reaches(f, m) => Reaches(g, m)
  <1> USE DEF SameEntry, Alike
  <1>1. Len(f) \in Nat /\ Len(g) = Len(f)
    BY DEF WellFormed
  <1>2. WellFormed(g)
    BY <1>1 DEF WellFormed
  <1>3. LastIn(g) = LastIn(f) /\ \A n : Covered(f, n) => Covered(g, n)
    BY <1>1 DEF LastIn, Covered
  <1>4. ASSUME NEW m, Accounts(f, m) PROVE Accounts(g, m)
    <2>1. \A i \in 1 .. Len(g) : g[i].first = IF i = 1 THEN 1 ELSE g[i - 1].last + 1
      BY <1>1, <1>4 DEF Accounts
    <2> QED BY <1>3, <1>4, <2>1 DEF Accounts
  <1> QED BY <1>2, <1>3, <1>4 DEF Reaches

LEMMA ExtendsWellFormed ==
  ASSUME NEW f, NEW g, NEW e, WellFormed(f), Extends(Payloads, f, g, e),
         e.kind = "record" => e.first = e.last
  PROVE  WellFormed(g)
  <1>1. Len(f) \in Nat
    BY DEF WellFormed
  <1> QED BY <1>1 DEF WellFormed, Extends, SameEntry

LEMMA ExtendsAccounts ==
  ASSUME NEW f, NEW g, NEW e, NEW m \in Nat, NEW n \in Nat,
         WellFormed(f), Accounts(f, m), Extends(Payloads, f, g, e),
         e.first = m + 1, e.last = n, m <= n
  PROVE  Accounts(g, n)
  <1> USE DEF SameEntry, Extends
  <1>1. Len(f) \in Nat /\ Len(g) = Len(f) + 1
    BY DEF WellFormed
  <1>2. \A i \in 1 .. Len(f) : g[i].first = f[i].first /\ g[i].last = f[i].last
    OBVIOUS
  <1>3. g[Len(g)].first = m + 1 /\ g[Len(g)].last = n
    BY <1>1
  <1>4. \A i \in 1 .. Len(g) : g[i].first = IF i = 1 THEN 1 ELSE g[i - 1].last + 1
    <2>1. ASSUME NEW i \in 1 .. Len(f)
          PROVE  g[i].first = IF i = 1 THEN 1 ELSE g[i - 1].last + 1
      <3>1. f[i].first = IF i = 1 THEN 1 ELSE f[i - 1].last + 1
        BY DEF Accounts
      <3>2. i # 1 => i - 1 \in 1 .. Len(f)
        BY <1>1
      <3> QED BY <1>2, <3>1, <3>2
    <2>2. CASE Len(f) = 0
      BY <1>1, <1>3, <2>2 DEF Accounts, LastIn
    <2>3. CASE Len(f) > 0
      <3>1. Len(f) \in 1 .. Len(f) /\ f[Len(f)].last = m
        BY <1>1, <2>3 DEF Accounts, LastIn
      <3>2. g[Len(f)].last = m
        BY <1>2, <3>1
      <3> QED BY <1>1, <1>3, <2>1, <2>3, <3>2
    <2> QED BY <1>1, <2>2, <2>3
  <1> QED BY <1>1, <1>3, <1>4 DEF Accounts, LastIn

LEMMA ExtendsReaches ==
  ASSUME NEW f, NEW g, NEW e, NEW m \in Nat, NEW n \in Nat,
         WellFormed(f), Reaches(f, m), Extends(Payloads, f, g, e),
         e.first \in Nat, e.first <= m + 1, e.last = n
  PROVE  /\ \A k : Covered(f, k) => Covered(g, k)
         /\ Reaches(g, m) /\ Reaches(g, n) /\ (e.first = n => Covered(g, n))
  <1> USE DEF SameEntry, Extends
  <1>1. Len(f) \in Nat /\ Len(g) = Len(f) + 1
    BY DEF WellFormed
  <1>2. \A i \in 1 .. Len(f) : g[i].first = f[i].first /\ g[i].last = f[i].last
    OBVIOUS
  <1>3. g[Len(g)].first = e.first /\ g[Len(g)].last = n
    BY <1>1
  <1>4. \A k : Covered(f, k) => Covered(g, k)
    BY <1>1, <1>2 DEF Covered
  <1>5. ASSUME NEW k \in 1 .. n PROVE Covered(g, k)
    <2>1. CASE k <= m
      BY <1>4, <2>1 DEF Reaches
    <2>2. CASE k > m
      <3>1. e.first <= k
        BY <2>2
      <3> QED BY <1>1, <1>3, <3>1 DEF Covered
    <2> QED BY <2>1, <2>2
  <1>6. ASSUME e.first = n PROVE Covered(g, n)
    <2>1. Len(g) \in 1 .. Len(g) /\ g[Len(g)].first <= n /\ n <= g[Len(g)].last
      BY <1>1, <1>3, <1>6
    <2> QED BY <2>1 DEF Covered
  <1> QED BY <1>4, <1>5, <1>6 DEF Reaches

LEMMA WriteRawKeepsForm ==
  ASSUME WellFormed(worm), NEW e \in Entries(Payloads), second \in Nat,
         e.kind = "record" => e.first = e.last, WriteRaw(e)
  PROVE  /\ WellFormed(worm') /\ UNCHANGED <<writer, second>>
         /\ writer => Extends(Payloads, worm, worm', e)
  <1>1. worm \in Seq(Entries(Payloads))
    BY DEF WellFormed
  <1>2. writer => Extends(Payloads, worm, worm', e)
    BY <1>1, WriteRawExtends
  <1>3. ~writer => worm' = worm
    BY DEF WriteRaw
  <1> QED BY <1>2, <1>3, ExtendsWellFormed DEF WriteRaw

LEMMA WriteRawFailsKeepsForm ==
  ASSUME WellFormed(worm), NEW e \in Entries(Payloads), second \in Nat,
         e.kind = "record" => e.first = e.last, WriteRawFails(e), writer \in BOOLEAN
  PROVE  WellFormed(worm') /\ writer' \in BOOLEAN /\ second' = second
  <1>1. worm \in Seq(Entries(Payloads))
    BY DEF WellFormed
  <1>2. worm' = worm \/ Extends(Payloads, worm, worm', e)
    BY <1>1, WriteRawFailsExtends
  <1>3. writer' \in BOOLEAN /\ second' = second
    BY DEF WriteRawFails
  <1> QED BY <1>2, <1>3, ExtendsWellFormed

LEMMA RecordEntryForm ==
  ASSUME NEW r \in Records
  PROVE  LET e == RecordEntry(r)
         IN  /\ e \in Entries(Payloads) /\ e.kind = "record"
             /\ e.first = r.lsn /\ e.last = r.lsn
  <1>1. r.lsn \in Nat /\ r.prev \in Payloads \X Int /\ r.content \in Payloads
    BY MaxLsnAssumption DEF Records
  <1> QED BY <1>1 DEF RecordEntry, Entry, Entries, Layers, Current

LEMMA GapEntryForm ==
  ASSUME NEW m \in Nat, NEW n \in Nat
  PROVE  LET e == GapEntry(m, n)
         IN  /\ e \in Entries(Payloads) /\ e.kind = "gap"
             /\ e.first = m /\ e.last = n
  BY DEF GapEntry, Entry, Entries, Layers, Current, ZeroHash, Payloads

LEMMA OrderInitHolds == Init => OrderIInv
  <1> SUFFICES ASSUME Init PROVE OrderIInv
    OBVIOUS
  <1> USE DEF Init, WormInit
  <1>1. OrderTypes
    <2>1. WellFormed(worm)
      BY DEF WellFormed
    <2> QED BY <2>1 DEF OrderTypes
  <1>2. WaitInv
    BY DEF WaitInv, Waiting
  <1>3. CallInv
    BY DEF CallInv, InCall, NoRecord
  <1>4. TrailInv
    BY DEF TrailInv, WrittenUpTo, Accounts, LastIn, Reaches
  <1> QED BY <1>1, <1>2, <1>3, <1>4 DEF OrderIInv

(* After a failure the types, the buffer and the end of the call are left. *)
LEMMA FaultKeeps ==
  ASSUME OrderIInv, faulted', faulted' \in BOOLEAN, result' = "failed", wpc' = "idle",
         call'.lsn = 0, WellFormed(worm'), writer' \in BOOLEAN,
         UNCHANGED <<is_open, last_lsn, second, reorder_start, delivered, repeats, doubled>>,
         Waiting' \subseteq Waiting,
         \A n \in Waiting' : reorder_buffer'[n] = reorder_buffer[n]
  PROVE  OrderIInv'
  <1> USE DEF OrderIInv
  <1>1. OrderTypes'
    BY DEF OrderTypes
  <1>2. WaitInv'
    BY DEF WaitInv
  <1>3. CallInv'
    BY DEF CallInv, InCall
  <1>4. TrailInv'
    BY DEF TrailInv
  <1> QED BY <1>1, <1>2, <1>3, <1>4

LEMMA DeliverKeeps ==
  ASSUME OrderIInv, NEW n \in 1 .. MaxLsn, Deliver(n),
         faulted' = (faulted \/ result' = "failed")
  PROVE  OrderIInv'
  <1> USE MaxLsnAssumption DEF OrderIInv
  <1>1. PICK h \in {RightHash(n), ZeroHash} :
          WriteWormRecord([lsn |-> n, prev |-> h, content |-> n])
    BY DEF Deliver
  <1> DEFINE r == [lsn |-> n, prev |-> h, content |-> n]
  <1>2. r \in Records /\ r.lsn = n
    BY DEF Records, RightHash, ZeroHash, Payloads
  <1> HIDE DEF r
  <1>3. /\ wpc = "idle" /\ is_open
        /\ UNCHANGED <<is_open, writer, last_lsn, worm, second>>
        /\ delivered' = IF wpc' = "idle" /\ result' = "broken"
                          THEN delivered ELSE delivered \cup {n}
        /\ doubled' = (doubled \/ (wpc' = "flush_write" /\ n \in Waiting))
    BY <1>1 DEF Deliver, WriteWormRecord, ReceiveInOrder, ReceiveBroken,
                ReceiveEarly, ReceiveLate, Receive
  <1>4. call.lsn = 0 /\ WrittenUpTo = last_lsn /\ last_lsn \in Nat
    BY <1>3 DEF CallInv, InCall, WrittenUpTo, OrderTypes
  <1>9. repeats' \in Nat /\ doubled' \in BOOLEAN
    <2>1. repeats' = repeats \/ repeats' = repeats + 1
      BY DEF Deliver, OrderTypes
    <2> QED BY <1>3, <2>1 DEF OrderTypes
  <1>10. wpc' # "flush_write" => doubled' = doubled
    BY <1>3 DEF OrderTypes
  <1>5. CASE ReceiveInOrder(r)
    <2>1. /\ n = last_lsn + 1 /\ wpc' = "flush_write" /\ call' = r
          /\ delivered' = delivered \cup {n}
          /\ UNCHANGED <<reorder_buffer, reorder_start, result>>
          /\ ~doubled' => ~doubled /\ n \notin Waiting
      BY <1>2, <1>3, <1>5 DEF ReceiveInOrder, InOrder
    <2>2. OrderTypes'
      BY <1>3, <1>9, <2>1 DEF OrderTypes, Flushing
    <2>3. WaitInv'
      BY <1>3, <2>1 DEF WaitInv, Waiting
    <2>4. CallInv'
      BY <1>2, <1>3, <1>4, <2>1 DEF CallInv, InCall, Waiting
    <2>5. TrailInv'
      BY <1>2, <1>3, <1>4, <2>1 DEF TrailInv, WrittenUpTo, OrderTypes, Waiting
    <2> QED BY <2>2, <2>3, <2>4, <2>5
  <1>6. CASE ReceiveBroken(r)
    <2>1. /\ result' = "broken" /\ delivered' = delivered /\ doubled' = doubled
          /\ UNCHANGED <<wpc, call, reorder_buffer, reorder_start>>
      BY <1>3, <1>6, <1>10 DEF ReceiveBroken
    <2>2. OrderTypes'
      BY <1>3, <1>9, <2>1 DEF OrderTypes
    <2>3. WaitInv' /\ CallInv'
      BY <1>3, <2>1 DEF WaitInv, CallInv, InCall, Waiting
    <2>4. TrailInv'
      BY <1>3, <1>4, <2>1 DEF TrailInv, WrittenUpTo, OrderTypes, Waiting
    <2> QED BY <2>2, <2>3, <2>4
  <1>7. CASE ReceiveEarly(r)
    <2>1. /\ n > last_lsn + 1 /\ call' = call
          /\ Waiting' = Waiting \cup {n}
          /\ \A k \in Waiting' : reorder_buffer'[k] =
                                   IF k = n THEN r ELSE reorder_buffer[k]
          /\ wpc' \in {"mark", "idle"} /\ result' \in {result, "ok"}
          /\ wpc' = "idle" => result' = "ok"
          /\ reorder_start' \in {reorder_start, "waiting"}
      BY <1>2, <1>3, <1>7 DEF ReceiveEarly, Waiting
    <2>2. delivered' = delivered \cup {n} /\ doubled' = doubled
      BY <1>3, <1>10, <2>1
    <2>3. OrderTypes'
      BY <1>3, <1>9, <2>1, <2>2 DEF OrderTypes
    <2>4. WaitInv'
      BY <1>2, <1>3, <1>4, <2>1, <2>2 DEF WaitInv
    <2>5. CallInv'
      BY <1>3, <1>4, <2>1, <2>2 DEF CallInv, InCall
    <2>6. TrailInv'
      BY <1>3, <1>4, <2>1, <2>2 DEF TrailInv, WrittenUpTo, OrderTypes
    <2> QED BY <2>3, <2>4, <2>5, <2>6
  <1>8. CASE ReceiveLate(r)
    <2>1. /\ n <= last_lsn /\ result' = "ok" /\ delivered' = delivered \cup {n}
          /\ UNCHANGED <<wpc, call, reorder_buffer, reorder_start, doubled>>
      BY <1>2, <1>3, <1>8, <1>10 DEF ReceiveLate
    <2>2. OrderTypes'
      BY <1>3, <1>9, <2>1 DEF OrderTypes
    <2>3. WaitInv' /\ CallInv'
      BY <1>3, <2>1 DEF WaitInv, CallInv, Waiting, InCall
    <2>4. TrailInv'
      <3>1. ~faulted => Covered(worm, n)
        BY <1>4, <2>1 DEF TrailInv, Reaches
      <3> QED BY <1>3, <1>4, <2>1, <3>1 DEF TrailInv, WrittenUpTo, OrderTypes, Waiting
    <2> QED BY <2>2, <2>3, <2>4
  <1> QED BY <1>1, <1>5, <1>6, <1>7, <1>8 DEF WriteWormRecord, r

(* The records of the buffer.  While a record of the call is under way the *)
(* first one cannot be next, because the call has the next LSN, unless it  *)
(* is doubled; what the file covers then still ends where last_lsn does.   *)
LEMMA FlushOneKeeps ==
  ASSUME OrderIInv, FlushOne \/ FlushOneFails, UNCHANGED <<delivered, repeats, doubled>>,
         faulted' = (faulted \/ result' = "failed")
  PROVE  OrderIInv'
  <1> USE DEF OrderIInv
  <1>1. NextReady /\ wpc \in Flushing
    BY DEF FlushOne, FlushOneFails, Flushing, WReturn, WGoto
  <1>2. /\ First \in Waiting /\ First \in 1 .. MaxLsn /\ First = last_lsn + 1
        /\ \A n \in Waiting : First <= n
    BY <1>1, FirstIsLeast DEF NextReady
  <1>3. /\ is_open
        /\ wpc \in InCall => /\ call \in Records /\ call.lsn \in delivered
                             /\ call.lsn <= last_lsn + 1 /\ doubled
        /\ wpc \notin InCall => call.lsn = 0
        /\ wpc \notin {"write", "commit", "mark", "commit_gap"}
    BY <1>1, <1>2 DEF CallInv, InCall, Flushing, OrderTypes
  <1> DEFINE r == reorder_buffer[First]
             e == RecordEntry(r)
  <1>4. r \in Records /\ r.lsn = First
    BY <1>2 DEF WaitInv
  <1>5. /\ e \in Entries(Payloads) /\ e.kind = "record"
        /\ e.first = First /\ e.last = First
    BY <1>4, RecordEntryForm
  <1> HIDE DEF r, e
  <1>6. /\ DOMAIN WithoutFirst = Waiting \ {First}
        /\ \A n \in Waiting \ {First} : WithoutFirst[n] = reorder_buffer[n]
    BY DEF WithoutFirst
  <1>7. WellFormed(worm) /\ second \in Nat /\ writer \in BOOLEAN /\ last_lsn \in Nat
        /\ faulted \in BOOLEAN /\ WrittenUpTo = last_lsn /\ First \in Nat
        /\ delivered \subseteq Nat
    BY <1>2, <1>3, MaxLsnAssumption DEF OrderTypes, WrittenUpTo
  <1>8. CASE FlushOne
    <2>1. /\ WriteRaw(e) /\ reorder_buffer' = WithoutFirst /\ last_lsn' = First
          /\ UNCHANGED <<is_open, reorder_start, wpc, call, result>>
      BY <1>8 DEF FlushOne, r, e
    <2>2. /\ WellFormed(worm') /\ UNCHANGED <<writer, second>>
          /\ writer => Extends(Payloads, worm, worm', e)
      BY <1>5, <1>7, <2>1, WriteRawKeepsForm
    <2>3. Waiting' = Waiting \ {First}
      BY <1>6, <2>1 DEF Waiting
    <2>4. OrderTypes'
      BY <1>2, <1>7, <2>1, <2>2 DEF OrderTypes
    <2>5. WaitInv'
      <3>1. \A n \in Waiting' : n > last_lsn' /\ reorder_buffer'[n] = reorder_buffer[n]
        <4>1. \A n \in Waiting : n \in Nat
          BY WaitingNumbers
        <4> QED BY <1>2, <1>6, <1>7, <2>1, <2>3, <4>1 DEF Waiting
      <3>2. \A n \in Waiting : reorder_buffer[n] \in Records /\ reorder_buffer[n].lsn = n
        BY DEF WaitInv
      <3>3. Waiting' \subseteq delivered'
        BY <2>3 DEF WaitInv
      <3>4. wpc' \notin {"mark", "commit_gap"}
        BY <1>3, <2>1
      <3>5. \A n \in Waiting' : reorder_buffer'[n] \in Records /\ reorder_buffer'[n].lsn = n
        BY <2>3, <3>1, <3>2
      <3> QED BY <3>1, <3>3, <3>4, <3>5 DEF WaitInv
    <2>6. CallInv'
      <3>1. wpc \in InCall => call.lsn <= last_lsn' + 1
        <4>1. call \in Records => call.lsn \in Nat
          BY MaxLsnAssumption DEF Records
        <4> QED BY <1>2, <1>3, <1>7, <2>1, <4>1
      <3> QED BY <1>3, <2>1, <3>1 DEF CallInv, InCall
    <2>7. TrailInv'
      <3>1. CASE faulted'
        BY <3>1 DEF TrailInv
      <3>2. CASE ~faulted'
        <4>1. /\ ~faulted /\ writer /\ Reaches(worm, last_lsn)
              /\ ~doubled => Accounts(worm, last_lsn)
          BY <1>3, <1>7, <3>2 DEF TrailInv
        <4>2. ~doubled => Accounts(worm', First)
          BY <1>2, <1>5, <1>7, <2>2, <4>1, ExtendsAccounts
        <4>3. WrittenUpTo' = First
          BY <1>3, <2>1 DEF WrittenUpTo
        <4>4. /\ \A k : Covered(worm, k) => Covered(worm', k)
              /\ Reaches(worm', First) /\ Covered(worm', First)
          BY <1>2, <1>5, <1>7, <2>2, <4>1, ExtendsReaches
        <4>5. \A n \in delivered : Covered(worm', n) \/ n \in Waiting \ {First} \/ n = call.lsn
          BY <4>1, <4>4 DEF TrailInv
        <4> QED BY <1>3, <2>1, <2>2, <2>3, <4>1, <4>2, <4>3, <4>4, <4>5 DEF TrailInv
      <3> QED BY <3>1, <3>2
    <2> QED BY <2>4, <2>5, <2>6, <2>7
  <1>9. CASE FlushOneFails
    <2>1. /\ WriteRawFails(e) /\ reorder_buffer' = WithoutFirst
          /\ wpc' = "idle" /\ call' = NoRecord /\ result' = "failed"
          /\ UNCHANGED <<is_open, last_lsn, reorder_start>>
      BY <1>9 DEF FlushOneFails, WReturn, WGoto, r, e
    <2>2. WellFormed(worm') /\ writer' \in BOOLEAN /\ second' = second
      BY <1>5, <1>7, <2>1, WriteRawFailsKeepsForm
    <2>3. /\ Waiting' \subseteq Waiting
          /\ \A n \in Waiting' : reorder_buffer'[n] = reorder_buffer[n]
      BY <1>6, <2>1 DEF Waiting
    <2> QED BY <1>7, <2>1, <2>2, <2>3, FaultKeeps DEF NoRecord
  <1> QED BY <1>8, <1>9

LEMMA FlushEndKeeps ==
  ASSUME OrderIInv, FlushDone, UNCHANGED <<delivered, repeats, doubled>>,
         faulted' = (faulted \/ result' = "failed")
  PROVE  OrderIInv'
  <1> USE DEF OrderIInv
  <1>1. /\ wpc \in Flushing
        /\ UNCHANGED <<is_open, writer, last_lsn, reorder_buffer, worm, second>>
        /\ reorder_start' \in {"none", reorder_start} /\ ~NextReady
        /\ \/ wpc = "flush_write" /\ wpc' = "write" /\ UNCHANGED <<call, result>>
           \/ wpc = "flush_gap" /\ wpc' = "idle" /\ call' = NoRecord /\ result' = "ok"
           \/ wpc = "flush_close" /\ wpc' = "close" /\ UNCHANGED <<call, result>>
    BY DEF FlushDone, WReturn, WGoto, Flushing
  <1>2. is_open /\ Waiting' = Waiting /\ (wpc = "flush_gap" => call.lsn = 0)
    BY <1>1 DEF CallInv, InCall, Waiting, Flushing
  <1>3. OrderTypes'
    BY <1>1 DEF OrderTypes, Flushing
  <1>4. WaitInv'
    BY <1>1, <1>2 DEF WaitInv
  <1>5. CallInv'
    <2>1. ASSUME wpc = "flush_write", NEW n \in Waiting PROVE n > call.lsn
      <3>1. /\ First > last_lsn /\ First # last_lsn + 1 /\ First <= n
            /\ First \in Nat /\ n \in Nat /\ last_lsn \in Nat
        BY <1>1, <2>1, FirstIsLeast, MaxLsnAssumption DEF NextReady, OrderTypes, WaitInv
      <3>2. call.lsn \in Nat /\ call.lsn <= last_lsn + 1
        BY <2>1, MaxLsnAssumption DEF CallInv, InCall, Records
      <3> QED BY <3>1, <3>2
    <2> QED BY <1>1, <1>2, <2>1 DEF CallInv, InCall, NoRecord
  <1>6. TrailInv'
    BY <1>1, <1>2 DEF TrailInv, WrittenUpTo, OrderTypes, NoRecord
  <1> QED BY <1>3, <1>4, <1>5, <1>6

(* The record of the call. *)
LEMMA WriteKeeps ==
  ASSUME OrderIInv, WriteRecord \/ WriteRecordFails, UNCHANGED <<delivered, repeats, doubled>>,
         faulted' = (faulted \/ result' = "failed")
  PROVE  OrderIInv'
  <1> USE DEF OrderIInv
  <1> DEFINE e == RecordEntry(call)
  <1>1. wpc = "write"
    BY DEF WriteRecord, WriteRecordFails, WReturn, WGoto
  <1>2. /\ is_open /\ call \in Records /\ call.lsn \in delivered
        /\ call.lsn \in Nat /\ call.lsn <= last_lsn + 1
        /\ ~doubled => call.lsn = last_lsn + 1
    BY <1>1, MaxLsnAssumption DEF CallInv, InCall, Records
  <1>3. /\ e \in Entries(Payloads) /\ e.kind = "record"
        /\ e.first = call.lsn /\ e.last = call.lsn
    BY <1>2, RecordEntryForm
  <1>4. WellFormed(worm) /\ second \in Nat /\ writer \in BOOLEAN /\ last_lsn \in Nat
        /\ faulted \in BOOLEAN /\ WrittenUpTo = last_lsn
    BY <1>1 DEF OrderTypes, WrittenUpTo
  <1>5. CASE WriteRecord
    <2>1. /\ WriteRaw(e) /\ wpc' = "commit"
          /\ UNCHANGED <<is_open, last_lsn, reorder_buffer, reorder_start, call, result>>
      BY <1>5 DEF WriteRecord, WGoto
    <2> HIDE DEF e
    <2>2. /\ WellFormed(worm') /\ UNCHANGED <<writer, second>>
          /\ writer => Extends(Payloads, worm, worm', e)
      BY <1>3, <1>4, <2>1, WriteRawKeepsForm
    <2>3. OrderTypes'
      BY <1>4, <2>1, <2>2 DEF OrderTypes
    <2>4. WaitInv' /\ CallInv'
      <3>1. WaitInv'
        BY <2>1 DEF WaitInv, Waiting
      <3>2. /\ \A n \in Waiting : n > call.lsn
            /\ ~doubled => call.lsn = last_lsn + 1 /\ call.lsn \notin Waiting
        BY <1>1 DEF CallInv, InCall
      <3> QED BY <1>2, <2>1, <3>1, <3>2 DEF CallInv, InCall, Waiting
    <2>5. TrailInv'
      <3>1. CASE faulted'
        BY <3>1 DEF TrailInv
      <3>2. CASE ~faulted'
        <4>1. /\ ~faulted /\ writer /\ Reaches(worm, last_lsn)
              /\ ~doubled => Accounts(worm, last_lsn)
          BY <1>2, <1>4, <3>2 DEF TrailInv
        <4>2. ~doubled => Accounts(worm', call.lsn)
          BY <1>2, <1>3, <1>4, <2>2, <4>1, ExtendsAccounts
        <4>3. WrittenUpTo' = call.lsn
          BY <2>1 DEF WrittenUpTo
        <4>4. /\ \A k : Covered(worm, k) => Covered(worm', k)
              /\ Reaches(worm', last_lsn) /\ Reaches(worm', call.lsn)
          BY <1>2, <1>3, <1>4, <2>2, <4>1, ExtendsReaches
        <4>5. \A n \in delivered : Covered(worm', n) \/ n \in Waiting \/ n = call.lsn
          BY <4>1, <4>4 DEF TrailInv
        <4> QED BY <1>2, <2>1, <2>2, <4>1, <4>2, <4>3, <4>4, <4>5 DEF TrailInv, Waiting
      <3> QED BY <3>1, <3>2
    <2> QED BY <2>3, <2>4, <2>5
  <1>6. CASE WriteRecordFails
    <2>1. /\ WriteRawFails(e) /\ wpc' = "idle" /\ call' = NoRecord /\ result' = "failed"
          /\ UNCHANGED <<is_open, last_lsn, reorder_buffer, reorder_start>>
      BY <1>6 DEF WriteRecordFails, WReturn, WGoto
    <2> HIDE DEF e
    <2>2. WellFormed(worm') /\ writer' \in BOOLEAN /\ second' = second
      BY <1>3, <1>4, <2>1, WriteRawFailsKeepsForm
    <2> QED BY <1>4, <2>1, <2>2, FaultKeeps DEF NoRecord, Waiting
  <1> QED BY <1>5, <1>6

LEMMA SyncKeepsForm ==
  ASSUME WellFormed(worm), worm' = worm \/ worm' = CurrentSynced(worm)
                             \/ worm' = Flushed(worm)
  PROVE  /\ WellFormed(worm') /\ \A m : Accounts(worm, m) => Accounts(worm', m)
         /\ \A n : Covered(worm, n) => Covered(worm', n)
         /\ \A m : Reaches(worm, m) => Reaches(worm', m)
  <1>1. Alike(Payloads, worm, worm')
    BY SameAlike, SyncedAlike, FlushedAlike DEF WellFormed
  <1> QED BY <1>1, AlikeAccounts

LEMMA CommitKeeps ==
  ASSUME OrderIInv, CommitRecord \/ CommitRecordFails, UNCHANGED <<delivered, repeats, doubled>>,
         faulted' = (faulted \/ result' = "failed")
  PROVE  OrderIInv'
  <1> USE DEF OrderIInv
  <1>1. wpc = "commit" /\ faulted \in BOOLEAN /\ last_lsn \in Nat /\ WellFormed(worm)
    BY DEF CommitRecord, CommitRecordFails, WReturn, WGoto, OrderTypes
  <1>2. /\ is_open /\ call \in Records /\ call.lsn \in Nat /\ WrittenUpTo = call.lsn
        /\ \A n \in Waiting : n > call.lsn
    BY <1>1, MaxLsnAssumption DEF CallInv, InCall, WrittenUpTo, Records
  <1>3. CASE CommitRecord
    <2>1. /\ wpc' = "idle" /\ call' = NoRecord /\ result' = "ok" /\ last_lsn' = call.lsn
          /\ worm' = worm \/ worm' = CurrentSynced(worm)
          /\ UNCHANGED <<is_open, writer, reorder_buffer, reorder_start, second>>
      BY <1>3 DEF CommitRecord, WReturn, WGoto, Fsync
    <2>2. /\ WellFormed(worm') /\ \A m : Accounts(worm, m) => Accounts(worm', m)
          /\ \A n : Covered(worm, n) => Covered(worm', n)
          /\ \A m : Reaches(worm, m) => Reaches(worm', m)
      BY <1>1, <2>1, SyncKeepsForm
    <2>3. OrderTypes'
      BY <1>1, <1>2, <2>1, <2>2 DEF OrderTypes
    <2>4. WaitInv'
      BY <1>2, <2>1 DEF WaitInv, Waiting
    <2>5. CallInv'
      BY <2>1 DEF CallInv, InCall, NoRecord
    <2>6. TrailInv'
      <3>1. WrittenUpTo' = call.lsn
        BY <2>1 DEF WrittenUpTo
      <3>2. ~faulted /\ call.lsn # 0 => Covered(worm, call.lsn)
        <4>1. ~faulted => Reaches(worm, call.lsn)
          BY <1>2 DEF TrailInv
        <4> QED BY <1>2, <4>1 DEF Reaches
      <3>3. \A n \in delivered : n \in Nat \ {0}
        BY WaitingNumbers
      <3> QED BY <1>1, <1>2, <2>1, <2>2, <3>1, <3>2, <3>3 DEF TrailInv, Waiting, OrderTypes
    <2> QED BY <2>3, <2>4, <2>5, <2>6
  <1>4. CASE CommitRecordFails
    <2>1. /\ wpc' = "idle" /\ call' = NoRecord /\ result' = "failed"
          /\ UNCHANGED <<is_open, writer, last_lsn, worm, reorder_buffer,
                         reorder_start, second>>
      BY <1>4 DEF CommitRecordFails, WReturn, WGoto, FsyncFails
    <2> QED BY <1>1, <2>1, FaultKeeps DEF NoRecord, Waiting, OrderTypes
  <1> QED BY <1>3, <1>4

(* The gap marker names the LSNs up to the first that waits. *)
LEMMA GapKeeps ==
  ASSUME OrderIInv, WriteGap \/ WriteGapFails, UNCHANGED <<delivered, repeats, doubled>>,
         faulted' = (faulted \/ result' = "failed")
  PROVE  OrderIInv'
  <1> USE DEF OrderIInv
  <1>1. wpc = "mark" /\ Waiting # {} /\ is_open /\ call.lsn = 0
    BY DEF WriteGap, WriteGapFails, WReturn, WGoto, WaitInv, CallInv, InCall
  <1>2. First \in Nat /\ First > last_lsn
    BY <1>1, FirstIsLeast, MaxLsnAssumption
  <1>3. WellFormed(worm) /\ second \in Nat /\ writer \in BOOLEAN /\ last_lsn \in Nat
        /\ faulted \in BOOLEAN /\ WrittenUpTo = last_lsn
    BY <1>1 DEF OrderTypes, WrittenUpTo
  <1>4. /\ Gap \in Entries(Payloads) /\ Gap.kind = "gap"
        /\ Gap.first = last_lsn + 1 /\ Gap.last = First - 1
    <2>1. last_lsn + 1 \in Nat /\ First - 1 \in Nat
      BY <1>2, <1>3
    <2> QED BY <2>1, GapEntryForm DEF Gap
  <1>5. CASE WriteGap
    <2>1. /\ WriteRaw(Gap) /\ wpc' = "commit_gap"
          /\ UNCHANGED <<is_open, last_lsn, reorder_buffer, reorder_start, call, result>>
      BY <1>5 DEF WriteGap, WGoto
    <2>2. /\ WellFormed(worm') /\ UNCHANGED <<writer, second>>
          /\ writer => Extends(Payloads, worm, worm', Gap)
      BY <1>3, <1>4, <2>1, WriteRawKeepsForm
    <2>3. OrderTypes'
      BY <1>3, <2>1, <2>2 DEF OrderTypes
    <2>4. WaitInv' /\ CallInv'
      BY <1>1, <2>1 DEF WaitInv, CallInv, InCall, Waiting
    <2>5. TrailInv'
      <3>1. CASE faulted'
        BY <3>1 DEF TrailInv
      <3>2. CASE ~faulted'
        <4>1. /\ ~faulted /\ writer /\ Reaches(worm, last_lsn)
              /\ ~doubled => Accounts(worm, last_lsn)
          BY <1>1, <1>3, <3>2 DEF TrailInv
        <4>2. First - 1 \in Nat /\ last_lsn <= First - 1 /\ last_lsn + 1 \in Nat
          BY <1>2, <1>3
        <4>3. ~doubled => Accounts(worm', First - 1)
          BY <1>3, <1>4, <2>2, <4>1, <4>2, ExtendsAccounts
        <4>4. WrittenUpTo' = First - 1
          BY <2>1 DEF WrittenUpTo, First, Waiting
        <4>5. /\ \A k : Covered(worm, k) => Covered(worm', k)
              /\ Reaches(worm', last_lsn) /\ Reaches(worm', First - 1)
          BY <1>3, <1>4, <2>2, <4>1, <4>2, ExtendsReaches
        <4>6. \A n \in delivered : Covered(worm', n) \/ n \in Waiting \/ n = call.lsn
          BY <4>1, <4>5 DEF TrailInv
        <4> QED BY <1>1, <2>1, <2>2, <4>1, <4>3, <4>4, <4>5, <4>6 DEF TrailInv, Waiting
      <3> QED BY <3>1, <3>2
    <2> QED BY <2>3, <2>4, <2>5
  <1>6. CASE WriteGapFails
    <2>1. /\ WriteRawFails(Gap) /\ wpc' = "idle" /\ call' = NoRecord /\ result' = "failed"
          /\ UNCHANGED <<is_open, last_lsn, reorder_buffer, reorder_start>>
      BY <1>6 DEF WriteGapFails, WReturn, WGoto
    <2>2. WellFormed(worm') /\ writer' \in BOOLEAN /\ second' = second
      BY <1>3, <1>4, <2>1, WriteRawFailsKeepsForm
    <2> QED BY <1>3, <2>1, <2>2, FaultKeeps DEF NoRecord, Waiting
  <1> QED BY <1>5, <1>6

LEMMA CommitGapKeeps ==
  ASSUME OrderIInv, CommitGap \/ CommitGapFails, UNCHANGED <<delivered, repeats, doubled>>,
         faulted' = (faulted \/ result' = "failed")
  PROVE  OrderIInv'
  <1> USE DEF OrderIInv
  <1>1. wpc = "commit_gap" /\ faulted \in BOOLEAN /\ last_lsn \in Nat /\ WellFormed(worm)
    BY DEF CommitGap, CommitGapFails, WReturn, WGoto, OrderTypes
  <1>2. Waiting # {} /\ is_open /\ call.lsn = 0 /\ WrittenUpTo = First - 1
    BY <1>1 DEF WaitInv, CallInv, InCall, WrittenUpTo
  <1>3. First \in Nat /\ First > last_lsn /\ \A n \in Waiting : First <= n
    BY <1>2, FirstIsLeast, MaxLsnAssumption
  <1>4. CASE CommitGap
    <2>1. /\ wpc' = "flush_gap" /\ last_lsn' = First - 1
          /\ worm' = worm \/ worm' = CurrentSynced(worm)
          /\ UNCHANGED <<is_open, writer, reorder_buffer, reorder_start, second, call,
                         result>>
      BY <1>4 DEF CommitGap, WGoto, Fsync
    <2>2. /\ WellFormed(worm') /\ \A m : Accounts(worm, m) => Accounts(worm', m)
          /\ \A n : Covered(worm, n) => Covered(worm', n)
          /\ \A m : Reaches(worm, m) => Reaches(worm', m)
      BY <1>1, <2>1, SyncKeepsForm
    <2>3. OrderTypes'
      BY <1>1, <1>3, <2>1, <2>2 DEF OrderTypes, Flushing
    <2>4. WaitInv'
      <3>1. \A n \in Waiting : n \in Nat
        BY WaitingNumbers
      <3>2. \A n \in Waiting : n > First - 1
        BY <1>3, <3>1
      <3> QED BY <2>1, <3>2 DEF WaitInv, Waiting
    <2>5. CallInv'
      BY <1>2, <2>1 DEF CallInv, InCall
    <2>6. TrailInv'
      <3>1. WrittenUpTo' = First - 1
        BY <2>1 DEF WrittenUpTo
      <3> QED BY <1>1, <1>2, <2>1, <2>2, <3>1 DEF TrailInv, Waiting
    <2> QED BY <2>3, <2>4, <2>5, <2>6
  <1>5. CASE CommitGapFails
    <2>1. /\ wpc' = "idle" /\ call' = NoRecord /\ result' = "failed"
          /\ UNCHANGED <<is_open, writer, last_lsn, worm, reorder_buffer,
                         reorder_start, second>>
      BY <1>5 DEF CommitGapFails, WReturn, WGoto, FsyncFails
    <2> QED BY <1>1, <2>1, FaultKeeps DEF NoRecord, Waiting, OrderTypes
  <1> QED BY <1>4, <1>5

(* What close has flushed and synchronised is on the device. *)
LEMMA CloseSeals ==
  ASSUME NEW f, WellFormed(f)
  PROVE  /\ Sealed(CurrentSynced(Flushed(f)))
         /\ Alike(Payloads, f, CurrentSynced(Flushed(f)))
  <1> DEFINE g == Flushed(f)
             h == CurrentSynced(g)
  <1>1. f \in Seq(Entries(Payloads)) /\ DOMAIN f = 1 .. Len(f)
    BY DEF WellFormed
  <1>2. Alike(Payloads, f, g)
    BY <1>1, FlushedAlike
  <1>3. g \in Seq(Entries(Payloads)) /\ Len(g) = Len(f)
    BY <1>2 DEF Alike
  <1>4. Alike(Payloads, g, h)
    BY <1>3, SyncedAlike
  <1>5. ASSUME NEW i \in 1 .. Len(f) PROVE g[i].layer \in {"cache", "media"}
    <2>1. f[i] \in Entries(Payloads) /\ f[i].layer \in {"buffer", "cache", "media"}
      BY <1>1, EntryForm DEF Layers
    <2>2. g[i] = IF f[i].layer = "buffer" THEN [f[i] EXCEPT !.layer = "cache"] ELSE f[i]
      BY <1>1 DEF Flushed, Promote
    <2> HIDE DEF g
    <2> QED BY <2>1, <2>2 DEF Entries
  <1> HIDE DEF g
  <1>6. ASSUME NEW i \in 1 .. Len(h), h[i].file = Current PROVE h[i].layer = "media"
    <2>1. i \in 1 .. Len(f) /\ i \in DOMAIN g /\ g[i] \in Entries(Payloads)
      BY <1>3, <1>4 DEF Alike
    <2>2. g[i].file = Current
      BY <1>6, <2>1 DEF CurrentSynced
    <2>3. h[i] = IF g[i].layer = "cache" THEN [g[i] EXCEPT !.layer = "media"] ELSE g[i]
      BY <2>1, <2>2 DEF CurrentSynced, Synced, Promote
    <2> HIDE DEF h
    <2> QED BY <1>5, <2>1, <2>3 DEF Entries
  <1>7. Alike(Payloads, f, h)
    BY <1>1, <1>2, <1>4, AlikeAlike
  <1> QED BY <1>6, <1>7 DEF Sealed, g

LEMMA CloseKeeps ==
  ASSUME OrderIInv, CloseFile \/ CloseFileFails, UNCHANGED <<delivered, repeats, doubled>>,
         faulted' = (faulted \/ result' = "failed")
  PROVE  OrderIInv'
  <1> USE DEF OrderIInv
  <1>1. wpc = "close" /\ faulted \in BOOLEAN /\ last_lsn \in Nat /\ WellFormed(worm)
    BY DEF CloseFile, CloseFileFails, WReturn, WGoto, OrderTypes
  <1>2. is_open /\ call.lsn = 0 /\ WrittenUpTo = last_lsn
    BY <1>1 DEF CallInv, InCall, WrittenUpTo
  <1>3. CASE CloseFile
    <2>1. /\ wpc' = "idle" /\ call' = NoRecord /\ result' = "ok"
          /\ worm' = IF writer THEN CurrentSynced(Flushed(worm)) ELSE worm
          /\ writer' = FALSE /\ is_open' = FALSE
          /\ UNCHANGED <<last_lsn, reorder_buffer, reorder_start, second>>
      BY <1>3 DEF CloseFile, WReturn, WGoto
    <2>2. /\ WellFormed(worm') /\ \A m : Accounts(worm, m) => Accounts(worm', m)
          /\ \A n : Covered(worm, n) => Covered(worm', n)
          /\ \A m : Reaches(worm, m) => Reaches(worm', m)
          /\ writer => Sealed(worm')
      BY <1>1, <2>1, CloseSeals, AlikeAccounts
    <2>3. OrderTypes'
      BY <1>1, <2>1, <2>2 DEF OrderTypes
    <2>4. WaitInv' /\ CallInv'
      BY <2>1 DEF WaitInv, CallInv, InCall, Waiting, NoRecord
    <2>5. TrailInv'
      <3>1. WrittenUpTo' = last_lsn
        BY <2>1 DEF WrittenUpTo
      <3> QED BY <1>1, <1>2, <2>1, <2>2, <3>1 DEF TrailInv, Waiting, NoRecord
    <2> QED BY <2>3, <2>4, <2>5
  <1>4. CASE CloseFileFails
    <2>1. /\ wpc' = "idle" /\ call' = NoRecord /\ result' = "failed"
          /\ worm' = worm \/ worm' = Flushed(worm)
          /\ UNCHANGED <<is_open, writer, last_lsn, reorder_buffer, reorder_start, second>>
      BY <1>4 DEF CloseFileFails, WReturn, WGoto
    <2>2. WellFormed(worm')
      BY <1>1, <2>1, SyncKeepsForm
    <2> QED BY <1>1, <2>1, <2>2, FaultKeeps DEF NoRecord, Waiting, OrderTypes
  <1> QED BY <1>3, <1>4

LEMMA IdleKeeps ==
  ASSUME OrderIInv, Expire \/ Tick \/ Flush \/ FlushFails \/ Close,
         UNCHANGED <<delivered, repeats, doubled>>, faulted' = (faulted \/ result' = "failed")
  PROVE  OrderIInv'
  <1> USE DEF OrderIInv
  <1>1. faulted \in BOOLEAN /\ WellFormed(worm) /\ second \in Nat
    BY DEF OrderTypes
  <1>2. CASE Expire \/ Tick
    <2>1. /\ UNCHANGED <<is_open, writer, last_lsn, reorder_buffer, worm, wpc, call, result>>
          /\ reorder_start' \in {reorder_start, "expired"} /\ second' \in Nat
      BY <1>1, <1>2 DEF Expire, Tick
    <2> QED BY <1>1, <2>1 DEF OrderTypes, WaitInv, CallInv, TrailInv, Waiting,
                              WrittenUpTo, First
  <1>3. CASE Flush
    <2>1. /\ wpc = "idle" /\ result' = "ok"
          /\ worm' = IF writer THEN Flushed(worm) ELSE worm
          /\ UNCHANGED <<is_open, writer, last_lsn, reorder_buffer, reorder_start,
                         second, wpc, call>>
      BY <1>3 DEF Flush
    <2>2. /\ WellFormed(worm') /\ \A m : Accounts(worm, m) => Accounts(worm', m)
          /\ \A n : Covered(worm, n) => Covered(worm', n)
          /\ \A m : Reaches(worm, m) => Reaches(worm', m)
      BY <1>1, <2>1, SyncKeepsForm
    <2>3. WrittenUpTo' = WrittenUpTo
      BY <2>1 DEF WrittenUpTo
    <2> QED BY <1>1, <2>1, <2>2, <2>3 DEF OrderTypes, WaitInv, CallInv, TrailInv, Waiting
  <1>4. CASE FlushFails
    <2>1. /\ wpc = "idle" /\ result' = "failed"
          /\ UNCHANGED <<is_open, writer, last_lsn, reorder_buffer, reorder_start,
                         worm, second, wpc, call>>
      BY <1>4 DEF FlushFails
    <2>2. call.lsn = 0 /\ writer \in BOOLEAN
      BY <2>1 DEF CallInv, InCall, OrderTypes
    <2> QED BY <1>1, <2>1, <2>2, FaultKeeps DEF Waiting
  <1>5. CASE Close
    <2>1. /\ wpc = "idle" /\ wpc' = "flush_close" /\ is_open
          /\ UNCHANGED <<is_open, writer, last_lsn, reorder_buffer, reorder_start,
                         worm, second, call, result>>
      BY <1>5 DEF Close, WGoto
    <2>2. WrittenUpTo' = WrittenUpTo
      BY <2>1 DEF WrittenUpTo
    <2>3. OrderTypes'
      BY <1>1, <2>1 DEF OrderTypes, Flushing
    <2> QED BY <1>1, <2>1, <2>2, <2>3 DEF WaitInv, CallInv, InCall, TrailInv, Waiting
  <1> QED BY <1>2, <1>3, <1>4, <1>5

LEMMA OrderInvariance == OrderIInv /\ [Next]_vars => OrderIInv'
  <1> SUFFICES ASSUME OrderIInv, [Next]_vars PROVE OrderIInv'
    OBVIOUS
  <1>1. CASE Next
    <2>1. faulted' = (faulted \/ result' = "failed")
      BY <1>1 DEF Next
    <2>2. CASE \E n \in 1 .. MaxLsn : Deliver(n)
      BY <2>1, <2>2, DeliverKeeps
    <2>3. CASE WormStep /\ UNCHANGED <<delivered, repeats, doubled>>
      BY <2>1, <2>3, FlushOneKeeps, FlushEndKeeps, WriteKeeps, CommitKeeps,
         GapKeeps, CommitGapKeeps, CloseKeeps DEF WormStep
    <2>4. CASE /\ Expire \/ Tick \/ Flush \/ FlushFails \/ Close
               /\ UNCHANGED <<delivered, repeats, doubled>>
      BY <2>1, <2>4, IdleKeeps
    <2> QED BY <1>1, <2>2, <2>3, <2>4 DEF Next
  <1>2. CASE UNCHANGED vars
    BY <1>2 DEF OrderIInv, OrderTypes, WaitInv, CallInv, TrailInv, Waiting,
                WrittenUpTo, First, vars, wvars
  <1> QED BY <1>1, <1>2

LEMMA OrderIsSafe == Spec => []OrderIInv
  <1> QED BY OrderInitHolds, OrderInvariance, PTL DEF Spec

LEMMA CoveredIsTold ==
  ASSUME OrderTypes, NEW n \in Nat, Covered(worm, n)
  PROVE  n \in Recorded \cup Marked
  <1>1. PICK i \in 1 .. Len(worm) : worm[i].first <= n /\ n <= worm[i].last
    BY DEF Covered
  <1>2. /\ i \in DOMAIN worm /\ worm[i].kind \in {"record", "gap"}
        /\ worm[i].first \in Nat /\ worm[i].last \in Nat
        /\ worm[i].kind = "record" => worm[i].first = worm[i].last
    <2>1. i \in DOMAIN worm
      BY DEF OrderTypes, WellFormed
    <2> QED BY <2>1, EntryForm DEF OrderTypes
  <1>3. CASE worm[i].kind = "record"
    BY <1>1, <1>2, <1>3 DEF Recorded
  <1>4. CASE worm[i].kind = "gap"
    BY <1>1, <1>2, <1>4 DEF Marked
  <1> QED BY <1>2, <1>3, <1>4

(* In whatever order and however often the LSNs come, with failures or     *)
(* without, what waits can still be written.  While no file operation has  *)
(* failed, the file leaves out no LSN up to last_lsn without a marker; and *)
(* it accounts for each LSN once and in order as long as no record comes   *)
(* again, in order, while its copy waits, the one repeat that the sink     *)
(* writes twice (write_worm_record, flush_reorder_buffer,                  *)
(* check_reorder_window).                                                  *)
THEOREM TrailIsOrdered == Spec => []SinkInv
  <1>1. OrderIInv => SinkInv
    <2> SUFFICES ASSUME OrderIInv PROVE SinkInv
      OBVIOUS
    <2> USE DEF OrderIInv
    <2>1. DOMAIN worm = 1 .. Len(worm) /\ Len(worm) \in Nat
      BY DEF OrderTypes, WellFormed
    <2>2. WormTypeOK
      <3>1. \A i \in DOMAIN worm :
              /\ worm[i].kind \in {"record", "gap"}
              /\ worm[i].first \in Nat /\ worm[i].last \in Nat
              /\ worm[i].file \in Nat \cup {Replaced} /\ worm[i].layer \in Layers
        BY EntryForm DEF OrderTypes
      <3>2. Waiting \subseteq Nat
        BY MaxLsnAssumption DEF OrderTypes, WaitInv
      <3> QED BY <3>1, <3>2 DEF OrderTypes, WormTypeOK
    <2>3. TypeOK
      BY <2>2 DEF TypeOK, OrderTypes
    <2>4. BufferIsAhead
      BY DEF BufferIsAhead, WaitInv
    <2>5. TrailIsContiguous
      <3>1. worm = <<>> <=> Len(worm) = 0
        BY DEF OrderTypes, WellFormed
      <3> QED BY <2>1, <3>1 DEF TrailIsContiguous, TrailInv, Accounts, LastIn
    <2>6. TrailHasNoHole
      BY CoveredIsTold DEF TrailHasNoHole, TrailInv, Reaches
    <2> QED BY <2>3, <2>4, <2>5, <2>6 DEF SinkInv
  <1> QED BY <1>1, OrderIsSafe, PTL

(* No record that the sink took is forgotten, also when records are         *)
(* repeated: each is in the file, in a gap, in the buffer or in the call    *)
(* under way (write_worm_record).                                           *)
THEOREM RecordsAreAccounted == Spec => []NothingVanishes
  <1>1. OrderIInv => NothingVanishes
    <2> SUFFICES ASSUME OrderIInv, ~faulted,
                        NEW n \in delivered, n \notin Waiting, n # call.lsn
                 PROVE  n \in Recorded \cup Marked
      BY DEF NothingVanishes
    <2>1. OrderTypes /\ n \in Nat /\ Covered(worm, n)
      BY MaxLsnAssumption DEF OrderIInv, TrailInv, OrderTypes
    <2> QED BY <2>1, CoveredIsTold
  <1> QED BY <1>1, OrderIsSafe, PTL

(* A close without a failure leaves the file it seals on the device (close).*)
THEOREM ClosedFilesAreDurable == Spec => []ClosedIsDurable
  <1>1. OrderIInv => ClosedIsDurable
    BY DEF OrderIInv, ClosedIsDurable, TrailInv, Sealed, Durable, OrderTypes, WellFormed
  <1> QED BY <1>1, OrderIsSafe, PTL

=============================================================================
