------------------------------ MODULE AuditLog ------------------------------
(***************************************************************************)
(* What core/src/security/audit.rs promises: records that were accepted    *)
(* are persisted one by one in the order of their acceptance, until a      *)
(* persistence error, after which nothing is persisted any more.           *)
(***************************************************************************)
EXTENDS Naturals, Sequences

CONSTANT Items

VARIABLES
  pending,     \* accepted, not yet persisted, oldest first
  persisted,   \* persisted, oldest first
  failed       \* a persistence error has occurred

vars == <<pending, persisted, failed>>

Init ==
  /\ pending = <<>>
  /\ persisted = <<>>
  /\ failed = FALSE

Accept(x) ==
  /\ pending' = Append(pending, x)
  /\ UNCHANGED <<persisted, failed>>

Persist ==
  /\ ~failed
  /\ pending # <<>>
  /\ persisted' = Append(persisted, Head(pending))
  /\ pending' = Tail(pending)
  /\ UNCHANGED failed

\* The error concerns the oldest record, which is given up, or no record.
Fail ==
  /\ ~failed
  /\ failed' = TRUE
  /\ pending' = IF pending = <<>> THEN <<>> ELSE Tail(pending)
  /\ UNCHANGED persisted

GiveUp ==
  /\ failed
  /\ pending # <<>>
  /\ pending' = Tail(pending)
  /\ UNCHANGED <<persisted, failed>>

Next == (\E x \in Items : Accept(x)) \/ Persist \/ Fail \/ GiveUp

Spec == Init /\ [][Next]_vars

=============================================================================
