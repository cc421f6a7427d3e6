------------------------------ MODULE RecordSet ------------------------------
(***************************************************************************)
(* What core/src/buffer/object_pool.rs promises: a set of records, each of *)
(* them free, in the hands of one owner, or on its way back.               *)
(***************************************************************************)
CONSTANT Records

VARIABLE status   \* status[r] is "free", "owned" or "returning"

Init == status = [r \in Records |-> "free"]

Move(r, from, to) ==
  /\ status[r] = from
  /\ status' = [status EXCEPT ![r] = to]

Next == \E r \in Records :
  \/ Move(r, "free", "owned")        \* alloc
  \/ Move(r, "owned", "returning")   \* free is called
  \/ Move(r, "returning", "free")    \* free takes effect

Spec == Init /\ [][Next]_status

=============================================================================
