---------------------------- MODULE AuditVerify ----------------------------
(***************************************************************************)
(* dologctl verify-log, recovery-report and verify-anchor                  *)
(* (cli/src/commands/verify.rs), and the trails they read: what the stages *)
(* of the pipeline number, hash and sign (run_pipeline in                  *)
(* core/src/pipeline/stages.rs) as a file of SIF frames with the sidecar   *)
(* of its signatures, the WORM file of the audit pipeline, which is lines  *)
(* of text, or the anchors of one run.  A file is damaged by losing,       *)
(* altering, repeating or tearing what it holds; the engine never reads it *)
(* back, so that it is damaged once it is written.                         *)
(***************************************************************************)
EXTENDS Integers, Sequences, SequencesExt, FiniteSets, FiniteSetsExt

CONSTANTS
  Kinds,            \* of trail: among "frames", "worm" and "anchors"
  MaxTrail,         \* bound on the records or anchors of a run
  MaxRuns,          \* bound on the runs that append to the trail
  MaxDamage         \* bound on the damages

ASSUME VerifyAssumption == MaxRuns \in Nat \ {0}

VARIABLES
  kind,
  trail,            \* the file
  sidecar,          \* the lines of the sidecar
  run,              \* the current run of the engine
  next_lsn,         \* lsn_counter: it starts again with each run
  chain_end,        \* prev_content_hash and prev_lsn
  issued,           \* history: what each run signed, in order
  damage,           \* history: the number of damages
  mishap            \* history: a record was numbered and did not reach the file

verifyvars == <<kind, trail, sidecar, run, next_lsn, chain_end, issued, damage, mishap>>

NoHash == <<>>                             \* [0; 32]
Genesis == [hash |-> NoHash, lsn |-> 0]

VerifyInit ==
  /\ kind \in Kinds
  /\ trail = <<>> /\ sidecar = <<>>
  /\ run = 1 /\ next_lsn = 1 /\ chain_end = Genesis
  /\ issued = [r \in 1..MaxRuns |-> <<>>]
  /\ damage = 0 /\ mishap = FALSE

(***************************************************************************)
(* Writing.  A record's content is the run and the LSN that made it.       *)
(***************************************************************************)

(* A record: "ok" is that it decodes; hash covers the LSN and the content.  *)
NewRecord(audit) ==
  [lsn |-> next_lsn, body |-> run, ok |-> TRUE,
   hash |-> IF audit THEN <<next_lsn, run>> ELSE NoHash]

(* Mutant: the signature does not bind the predecessor. *)
SignatureMutant(rec, prev) == [lsn |-> rec.lsn, hash |-> rec.hash]

(* What is signed: SHA-256(lsn || content_hash || prev_hash). *)
Signature(rec, prev) == [lsn |-> rec.lsn, hash |-> rec.hash, prev |-> prev]

(* A signed record is the predecessor of the next, whether its sink writes  *)
(* it or not.                                                              *)
Assemble(audit, written) ==
  LET rec == NewRecord(audit) IN
  /\ kind = "frames" \/ (kind = "worm" /\ audit)
  /\ damage = 0 /\ next_lsn <= MaxTrail
  /\ next_lsn' = next_lsn + 1
  /\ trail' = IF written THEN Append(trail, rec) ELSE trail
  /\ mishap' = (mishap \/ ~written)
  /\ IF audit
     THEN /\ sidecar' = Append(sidecar, [lsn |-> rec.lsn, hash |-> rec.hash,
                                         sig |-> Signature(rec, chain_end)])
          /\ chain_end' = [hash |-> rec.hash, lsn |-> rec.lsn]
          /\ issued' = [issued EXCEPT ![run] = Append(@, rec)]
     ELSE UNCHANGED <<sidecar, chain_end, issued>>
  /\ UNCHANGED <<kind, run, damage>>

(* A processor fails after the record was numbered. *)
AbortAfterNumbering ==
  /\ kind # "anchors" /\ damage = 0 /\ next_lsn <= MaxTrail
  /\ next_lsn' = next_lsn + 1
  /\ mishap' = TRUE
  /\ UNCHANGED <<kind, trail, sidecar, run, chain_end, issued, damage>>

(* ExternalAnchor.create_anchor: the root is the LSN it covers. *)
IssueAnchor ==
  /\ kind = "anchors" /\ damage = 0 /\ next_lsn <= MaxTrail
  /\ LET anchor == [lsn |-> next_lsn, body |-> run, ok |-> TRUE,
                    hash |-> <<next_lsn, run>>]
     IN /\ trail' = Append(trail, anchor)
        /\ issued' = [issued EXCEPT ![run] = Append(@, anchor)]
  /\ next_lsn' = next_lsn + 1
  /\ UNCHANGED <<kind, sidecar, run, chain_end, damage, mishap>>

(* The files are opened for appending; the counter and the chain are new. *)
RestartEngine ==
  /\ kind # "anchors" /\ damage = 0 /\ run < MaxRuns
  /\ run' = run + 1 /\ next_lsn' = 1 /\ chain_end' = Genesis
  /\ UNCHANGED <<kind, trail, sidecar, issued, damage, mishap>>

(***************************************************************************)
(* Damage.  An altered record of the chain no longer decodes: its hash is  *)
(* checked; one outside of the chain may decode with other content.        *)
(***************************************************************************)

DamageTrail ==
  /\ damage < MaxDamage
  /\ damage' = damage + 1
  /\ \E i \in DOMAIN trail :
       \/ trail' = RemoveAt(trail, i)
       \/ trail' = InsertAt(trail, i, trail[i])
       \/ trail' = SubSeq(trail, 1, i - 1)
       \/ trail' = [trail EXCEPT ![i].body = 0, ![i].ok = trail[i].hash = NoHash]
       \/ i < Len(trail) /\ trail' = Append(RemoveAt(trail, i), trail[i])
  /\ UNCHANGED <<kind, sidecar, run, next_lsn, chain_end, issued, mishap>>

DamageSidecar ==
  /\ damage < MaxDamage
  /\ damage' = damage + 1
  /\ \E i \in DOMAIN sidecar :
       \/ sidecar' = RemoveAt(sidecar, i)
       \/ sidecar' = [sidecar EXCEPT ![i].sig = NoHash]
       \/ sidecar' = [sidecar EXCEPT ![i].hash = NoHash]
  /\ UNCHANGED <<kind, trail, run, next_lsn, chain_end, issued, mishap>>

VerifyNext ==
  \/ \E audit, written \in BOOLEAN : Assemble(audit, written)
  \/ AbortAfterNumbering \/ IssueAnchor \/ RestartEngine
  \/ DamageTrail \/ DamageSidecar

VerifySpec == VerifyInit /\ [][VerifyNext]_verifyvars

(***************************************************************************)
(* Verification, with the sidecar and the public key given.                *)
(***************************************************************************)

(* read_sif_file: the frames that decode, unless a length is too large; the *)
(* first bytes of a line of text, "lsn=", are such a length.               *)
Unreadable == kind = "worm" /\ trail # <<>>

(* Those of a list at some of its places, pushed one after the other. *)
Picked(recs, places) ==
  LET picked[i \in 0..Len(recs)] ==
        IF i = 0 THEN <<>>
        ELSE IF i \in places THEN Append(picked[i - 1], recs[i]) ELSE picked[i - 1]
  IN picked[Len(recs)]

FileRecords == Picked(trail, {i \in DOMAIN trail : trail[i].ok})

(* sort_by_key, which is stable: a record goes behind those not above it. *)
PutInOrder(recs, rec) ==
  InsertAt(recs, 1 + Cardinality({k \in DOMAIN recs : recs[k].lsn <= rec.lsn}), rec)

Sorted ==
  LET sorted[i \in 0..Len(FileRecords)] ==
        IF i = 0 THEN <<>> ELSE PutInOrder(sorted[i - 1], FileRecords[i])
  IN sorted[Len(FileRecords)]

(* verify_chain_link for every link, and no gap. *)
Linked(recs) == \A i \in 1..Len(recs)-1 : recs[i + 1].lsn = recs[i].lsn + 1

InChain(recs) == Picked(recs, {i \in DOMAIN recs : recs[i].hash # NoHash})

(* read_sidecar: a later line of an LSN replaces an earlier one. *)
Lines(lsn) == {i \in DOMAIN sidecar : sidecar[i].lsn = lsn}
Entry(lsn) == sidecar[Max(Lines(lsn))]

SignaturesHold(recs) ==
  \A i \in DOMAIN recs :
    LET prev == IF i = 1 THEN Genesis
                ELSE [hash |-> recs[i-1].hash, lsn |-> recs[i-1].lsn]
    IN /\ Lines(recs[i].lsn) # {}
       /\ Entry(recs[i].lsn).hash = recs[i].hash
       /\ Entry(recs[i].lsn).sig = Signature(recs[i], prev)

NoOrphans(recs) ==
  \A i \in DOMAIN sidecar : \E j \in DOMAIN recs : recs[j].lsn = sidecar[i].lsn

(* cmd_verify_log: an empty trail passes. *)
LogPasses ==
  /\ ~Unreadable
  /\ FileRecords # <<>> =>
       Linked(Sorted) /\ SignaturesHold(InChain(Sorted)) /\ NoOrphans(Sorted)

(* cmd_verify_anchor: the identifiers count from one and each signature,    *)
(* which covers identifier and root, holds; time does not go back here.    *)
IdsInOrder == \A i \in DOMAIN trail : trail[i].lsn = i
AnchorsPass == IdsInOrder /\ \A i \in DOMAIN trail : trail[i].ok

(* cmd_recovery_report: its status is Healthy, and the LSN to resume from. *)
Healthy == ~Unreadable /\ Linked(Sorted)

ResumeLsn ==
  Sorted[Max({n \in DOMAIN Sorted : Linked(SubSeq(Sorted, 1, n))})].lsn + 1

(***************************************************************************)
(* Properties.                                                             *)
(***************************************************************************)

(* "Exit `0` = chain intact; exit `2` = tampering or discontinuity detected" *)
(* (docs/en_US/guides/DologctlCommandReference.md:297): whatever damage a   *)
(* trail of one or several runs suffers, if it passes, the records of the  *)
(* chain that are left are the first ones that one run signed, unaltered;  *)
(* and a healthy trail is not told to resume with a number it holds.       *)
PassMeansIntact ==
  /\ kind = "frames" /\ LogPasses /\ FileRecords # <<>> =>
       \E r \in 1..MaxRuns : IsPrefix(InChain(Sorted), issued[r])
  /\ kind = "anchors" /\ AnchorsPass => IsPrefix(trail, issued[1])
  /\ kind # "anchors" /\ Healthy /\ FileRecords # <<>> =>
       \A i \in DOMAIN trail : trail[i].ok => trail[i].lsn < ResumeLsn

(* Not so: `verify-log` is for "a WORM audit log (takes a single SIF/WORM   *)
(* file path)" (docs/en_US/OperationsAndSecurity.md:458), and a trail that *)
(* one run wrote in full, and nothing damaged, does not pass.              *)
UndamagedTrailPasses ==
  damage = 0 /\ ~mishap /\ run = 1 => LogPasses

=============================================================================
