---------------------------- MODULE KeyRotation ----------------------------
(***************************************************************************)
(* KeyRotationManager (core/src/security/key_rotation.rs).  Keys are       *)
(* numbered in the order in which they are generated; active_signing_keys  *)
(* is parallel to active_keys and is left out with the CRL, which records  *)
(* the revocations that revoked_keys holds.  Time is what lets a rotation  *)
(* become due: those initiated earlier first.                              *)
(***************************************************************************)
EXTENDS Integers, Sequences, SequencesExt, FiniteSetsExt

CONSTANTS MaxKeyPairs     \* bound on the key pairs generated

VARIABLES
  active_keys,
  primary_key_index,    \* counted from 1
  rotation_history,     \* events: [old, new, status, due]
  revoked_keys,
  pairs,                \* key pairs generated so far
  signers,              \* history: the keys records were signed with
  withdrawn             \* history: the keys a cancelled rotation took back

rotationvars == <<active_keys, primary_key_index, rotation_history,
                  revoked_keys, pairs, signers, withdrawn>>

RotationInit ==
  /\ active_keys = <<1>> /\ primary_key_index = 1
  /\ rotation_history = <<>>
  /\ revoked_keys = {} /\ pairs = 1
  /\ signers = {} /\ withdrawn = {}

rotation_in_progress == Len(active_keys) > 1
Primary == active_keys[primary_key_index]

Pending == {i \in DOMAIN rotation_history : rotation_history[i].status = "InProgress"}

(* The event in progress that was recorded last: revoking a key during a    *)
(* rotation ends it and leaves its event as it was.                        *)
Current == Max(Pending)

Settle(status) ==
  rotation_history' = [rotation_history EXCEPT ![Current].status = status]

GraceElapses ==
  \E i \in DOMAIN rotation_history :
    /\ ~rotation_history[i].due
    /\ \A j \in 1..i-1 : rotation_history[j].due
    /\ rotation_history' = [rotation_history EXCEPT ![i].due = TRUE]
    /\ UNCHANGED <<active_keys, primary_key_index, revoked_keys, pairs,
                   signers, withdrawn>>

InitiateRotation ==
  /\ ~rotation_in_progress
  /\ pairs < MaxKeyPairs
  /\ pairs' = pairs + 1
  /\ rotation_history' =
       Append(rotation_history, [old |-> Primary, new |-> pairs + 1,
                                 status |-> "InProgress", due |-> FALSE])
  /\ active_keys' = Append(active_keys, pairs + 1)
  /\ primary_key_index' = Len(active_keys')
  /\ UNCHANGED <<revoked_keys, signers, withdrawn>>

Other == IF primary_key_index = 1 THEN 2 ELSE 1

CompleteRotation ==
  /\ rotation_in_progress
  /\ Pending # {}
  /\ rotation_history[Current].due
  /\ revoked_keys' = revoked_keys \cup {active_keys[Other]}
  /\ active_keys' = RemoveAt(active_keys, Other)
  /\ primary_key_index' = IF Other < primary_key_index THEN primary_key_index - 1
                                                       ELSE primary_key_index
  /\ Settle("Completed")
  /\ UNCHANGED <<pairs, signers, withdrawn>>

(* Nothing is revoked: what the new key signed no longer verifies. *)
CancelRotation ==
  /\ rotation_in_progress
  /\ withdrawn' = withdrawn \cup {Primary}
  /\ active_keys' = RemoveAt(active_keys, primary_key_index)
  /\ primary_key_index' = 1
  /\ IF Pending # {} THEN Settle("Cancelled") ELSE UNCHANGED rotation_history
  /\ UNCHANGED <<revoked_keys, pairs, signers>>

(* Mutant: the index of the primary is not adjusted. *)
RevokeKeyMutant(key) ==
  /\ active_keys # <<key>>
  /\ revoked_keys' = revoked_keys \cup {key}
  /\ active_keys' = SelectSeq(active_keys, LAMBDA k : k # key)
  /\ UNCHANGED <<primary_key_index, rotation_history, pairs, signers, withdrawn>>

(* A key that is not active may be revoked too. *)
RevokeKey(key) ==
  LET at == SelectInSeq(active_keys, LAMBDA k : k = key) IN
  /\ active_keys # <<key>>
  /\ revoked_keys' = revoked_keys \cup {key}
  /\ IF at = 0 THEN UNCHANGED <<active_keys, primary_key_index>>
     ELSE /\ active_keys' = RemoveAt(active_keys, at)
          /\ primary_key_index' = IF at < primary_key_index THEN primary_key_index - 1
                                  ELSE IF at = primary_key_index THEN 1
                                  ELSE primary_key_index
  /\ UNCHANGED <<rotation_history, pairs, signers, withdrawn>>

SignRecord ==
  /\ signers' = signers \cup {Primary}
  /\ UNCHANGED <<active_keys, primary_key_index, rotation_history,
                 revoked_keys, pairs, withdrawn>>

(* verify_record_multi: an active key that is not revoked. *)
Verifies(key) == key \in ToSet(active_keys) \ revoked_keys

RotationNext ==
  \/ GraceElapses \/ InitiateRotation \/ CompleteRotation \/ CancelRotation
  \/ SignRecord \/ \E key \in 1..pairs : RevokeKey(key)

RotationSpec == RotationInit /\ [][RotationNext]_rotationvars

(***************************************************************************)
(* Properties.                                                             *)
(***************************************************************************)

(* Records signed in flight stay valid (key_rotation.rs:12): at any time the *)
(* primary key is one whose signatures verify, and what was ever signed    *)
(* verifies unless its key was revoked, superseded or withdrawn.           *)
SignaturesVerify ==
  /\ primary_key_index \in DOMAIN active_keys
  /\ Verifies(Primary)
  /\ \A key \in signers \ (revoked_keys \cup withdrawn) : Verifies(key)

(* A key is superseded only when the grace period of the rotation that      *)
(* replaces it is over, not that of an earlier one which a revocation broke *)
(* off.                                                                    *)
GraceIsRespected ==
  [][CompleteRotation =>
       \E i \in DOMAIN rotation_history :
          rotation_history[i].new = Primary /\ rotation_history[i].due]_rotationvars

=============================================================================
