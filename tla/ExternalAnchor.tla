--------------------------- MODULE ExternalAnchor ---------------------------
(***************************************************************************)
(* ExternalAnchor (core/src/security/external_anchor.rs) as the audit      *)
(* pipeline drives it (process_audit_record in core/src/security/audit.rs, *)
(* SignatureEngine in core/src/security/signature.rs).  A chain hash is    *)
(* the LSN it covers; a root is the sequence of the hashes it was computed *)
(* from.  Posting an anchor changes nothing here, whatever comes of it.    *)
(***************************************************************************)
EXTENDS Integers, Sequences

CONSTANTS MaxSigned       \* bound on the records signed

VARIABLES
  lsn_counter,            \* SignatureEngine: the next LSN
  signed,                 \* the record signed and not yet committed, or 0
  audit_failed,           \* a sink failed: the pipeline stops
  chain_hashes,
  anchor_id_counter, anchor_history,
  interval_elapsed        \* the interval has passed since last_anchor_time

anchorvars == <<lsn_counter, signed, audit_failed, chain_hashes,
                anchor_id_counter, anchor_history, interval_elapsed>>

AnchorInit ==
  /\ lsn_counter = 1 /\ signed = 0 /\ audit_failed = FALSE
  /\ chain_hashes = <<>> /\ anchor_id_counter = 1 /\ anchor_history = <<>>
  /\ interval_elapsed \in BOOLEAN

IntervalElapses ==
  /\ ~interval_elapsed
  /\ interval_elapsed' = TRUE
  /\ UNCHANGED <<lsn_counter, signed, audit_failed, chain_hashes,
                 anchor_id_counter, anchor_history>>

Sign ==
  /\ signed = 0 /\ ~audit_failed
  /\ lsn_counter <= MaxSigned
  /\ signed' = lsn_counter
  /\ lsn_counter' = lsn_counter + 1
  /\ UNCHANGED <<audit_failed, chain_hashes, anchor_id_counter, anchor_history,
                 interval_elapsed>>

WriteFailed ==
  /\ signed # 0 /\ ~audit_failed
  /\ audit_failed' = TRUE
  /\ UNCHANGED <<lsn_counter, signed, chain_hashes, anchor_id_counter, anchor_history,
                 interval_elapsed>>

Anchor == [id |-> anchor_id_counter, last_lsn |-> lsn_counter - 1,
           root |-> Append(chain_hashes, signed)]

(* accumulate_hash, then maybe_anchor, under one lock: there is a hash now, *)
(* so that only the interval decides.                                      *)
Commit ==
  /\ signed # 0 /\ ~audit_failed
  /\ signed' = 0
  /\ IF interval_elapsed
     THEN /\ anchor_history' = Append(anchor_history, Anchor)
          /\ anchor_id_counter' = anchor_id_counter + 1
          /\ chain_hashes' = <<>>
          /\ interval_elapsed' \in BOOLEAN      \* an interval of zero
     ELSE /\ chain_hashes' = Append(chain_hashes, signed)
          /\ UNCHANGED <<anchor_history, anchor_id_counter, interval_elapsed>>
  /\ UNCHANGED <<lsn_counter, audit_failed>>

AnchorNext == IntervalElapses \/ Sign \/ WriteFailed \/ Commit

AnchorSpec == AnchorInit /\ [][AnchorNext]_anchorvars

(***************************************************************************)
(* Properties.                                                             *)
(***************************************************************************)

(* The LSNs behind from, up to to. *)
LsnsBehind(from, to) == [k \in 1..to - from |-> from + k]

(* The last LSN covered by the anchors before the i-th. *)
CoveredBefore(i) == IF i = 1 THEN 0 ELSE anchor_history[i - 1].last_lsn

LastCommitted == IF signed = 0 THEN lsn_counter - 1 ELSE lsn_counter - 2

(* "Each anchor proves that the audit chain up to last_lsn was intact"      *)
(* (external_anchor.rs:31): each anchor covers the LSNs behind those of the *)
(* anchor before it, exactly up to the one it names, and what no anchor    *)
(* covers is pending.                                                      *)
AnchorsCoverTheChain ==
  /\ \A i \in DOMAIN anchor_history :
       LET anchor == anchor_history[i] IN
       /\ anchor.id = i
       /\ CoveredBefore(i) < anchor.last_lsn
       /\ anchor.root = LsnsBehind(CoveredBefore(i), anchor.last_lsn)
  /\ chain_hashes = LsnsBehind(CoveredBefore(Len(anchor_history) + 1), LastCommitted)

=============================================================================
