---------------------------- MODULE ReplayGuard ----------------------------
(***************************************************************************)
(* The guard an audit consumer puts before what it receives                *)
(* (core/src/security/replay_guard.rs): records may arrive duplicated,     *)
(* reordered, altered or late.  Every operation runs under one mutex.      *)
(* The statistics are left out, but for what was accepted.                 *)
(***************************************************************************)
EXTENDS Integers, Sequences

CONSTANTS
  window_size,
  reject_gaps,      \* the production policy is TRUE
  MaxLsn,           \* bound on the LSNs that arrive
  Hashes            \* content hashes

ASSUME PolicyAssumption ==
  /\ window_size \in Nat \ {0}     \* ReplayGuardPolicy::validate
  /\ reject_gaps \in BOOLEAN
  /\ MaxLsn \in Nat

VARIABLES
  highest_lsn,
  entries,          \* the hash of each LSN retained
  order,            \* the LSNs retained, in the order of their arrival
  accepts           \* history: how often each LSN was accepted since the last reset

replayvars == <<highest_lsn, entries, order, accepts>>

Lsns == 1..MaxLsn

ReplayInit ==
  /\ highest_lsn = 0
  /\ entries = [l \in {} |-> 0]
  /\ order = <<>>
  /\ accepts = [l \in Lsns |-> 0]

(* Mutant: the LSN just behind the window is let in. *)
TooOldMutant(lsn) ==
  highest_lsn > window_size /\ lsn + window_size < highest_lsn

TooOld(lsn) ==
  highest_lsn > window_size /\ lsn + window_size <= highest_lsn

Gap(lsn) == reject_gaps /\ lsn > highest_lsn + 1

(* evict_to: at most one entry is too many, and it is the oldest to arrive. *)
Evicted(arrivals) ==
  IF Len(arrivals) > window_size THEN Tail(arrivals) ELSE arrivals

Held(arrivals) == {arrivals[i] : i \in 1..Len(arrivals)}

(* observe: an LSN that is retained is a duplicate or a conflict, whichever *)
(* its hash tells; those, an old LSN and a gap change nothing but counters. *)
Accept(lsn, hash) ==
  /\ lsn \notin DOMAIN entries
  /\ ~TooOld(lsn)
  /\ ~Gap(lsn)
  /\ highest_lsn' = IF lsn > highest_lsn THEN lsn ELSE highest_lsn
  /\ order' = Evicted(Append(order, lsn))
  /\ entries' = [l \in Held(order') |-> IF l = lsn THEN hash ELSE entries[l]]
  /\ accepts' = [accepts EXCEPT ![lsn] = @ + 1]

Reset ==
  /\ highest_lsn # 0
  /\ highest_lsn' = 0
  /\ entries' = [l \in {} |-> 0]
  /\ order' = <<>>
  /\ accepts' = [l \in Lsns |-> 0]

ReplayNext == Reset \/ \E lsn \in Lsns, hash \in Hashes : Accept(lsn, hash)

ReplaySpec == ReplayInit /\ [][ReplayNext]_replayvars

(***************************************************************************)
(* Properties.                                                             *)
(***************************************************************************)

(* "prevents duplicate delivery and obvious reordering from being silently *)
(* treated as fresh audit evidence" (replay_guard.rs:7): whatever arrives, *)
(* an LSN is accepted at most once, also after it has left the window, and *)
(* none is accepted before its predecessor.                                *)
AcceptedOnce ==
  \A lsn \in Lsns :
    /\ accepts[lsn] <= 1
    /\ accepts[lsn] = 1 /\ lsn > 1 => accepts[lsn - 1] = 1

=============================================================================
