----------------------------- MODULE RecordPool -----------------------------
(***************************************************************************)
(* The record pool of core/src/buffer/object_pool.rs: a Treiber stack of   *)
(* record indices, one action per access to the shared head and to the     *)
(* links between nodes.                                                    *)
(*                                                                         *)
(* A record that alloc returned is counted in handed until somebody calls  *)
(* free on it: the thread that allocated it (an error path of dologger_log)*)
(* or the thread it was passed to through a ring (the pipeline consumers   *)
(* and cooperative helpers), so any thread that may free picks any record  *)
(* handed out.  The head is a bare index without a version tag, as in the  *)
(* code.  The statistics alloc_count and free_count and the contents of    *)
(* the records are left out.                                               *)
(***************************************************************************)
EXTENDS Naturals, FiniteSets

CONSTANTS
  Capacity,     \* number of records
  Allocators,   \* threads that call alloc
  Freers,       \* threads that call free
  None          \* usize::MAX: the end of the stack

ASSUME CapacityAssumption == Capacity \in Nat \ {0}
ASSUME NoneAssumption     == None \notin Nat

Threads == Allocators \cup Freers
Records == 0 .. Capacity - 1
Links   == Records \cup {None}

VARIABLES
  head,     \* top of the free stack
  next,     \* PoolNode::next of every record
  handed,   \* how many owners each record has
  pc,       \* where each thread is in alloc or free
  lhead,    \* its local head
  lnext,    \* alloc's local next
  index     \* the record a free returns

vars == <<head, next, handed, pc, lhead, lnext, index>>

Init ==
  /\ head = 0
  /\ next = [r \in Records |-> IF r + 1 < Capacity THEN r + 1 ELSE None]
  /\ handed = [r \in Records |-> 0]
  /\ pc = [t \in Threads |-> "idle"]
  /\ lhead = [t \in Threads |-> None]
  /\ lnext = [t \in Threads |-> None]
  /\ index = [t \in Threads |-> None]

Goto(t, from, to) ==
  /\ pc[t] = from
  /\ pc' = [pc EXCEPT ![t] = to]

ForgetLocals(t) ==
  /\ lhead' = [lhead EXCEPT ![t] = None]
  /\ lnext' = [lnext EXCEPT ![t] = None]

-----------------------------------------------------------------------------
(* alloc                                                                   *)

\* The load of head; the call ends with None on a stack that looks empty.
AllocLoadHead(t) ==
  /\ pc[t] \in {"idle", "alloc_retry"}
  /\ pc' = [pc EXCEPT ![t] = IF head = None THEN "idle" ELSE "alloc_next"]
  /\ lhead' = [lhead EXCEPT ![t] = head]
  /\ UNCHANGED <<head, next, handed, lnext, index>>

AllocLoadNext(t) ==
  /\ Goto(t, "alloc_next", "alloc_pop")
  /\ lnext' = [lnext EXCEPT ![t] = next[lhead[t]]]
  /\ UNCHANGED <<head, next, handed, lhead, index>>

\* compare_exchange_weak(head, next) succeeds ...
AllocPop_Mutant_Store(t) ==
  /\ Goto(t, "alloc_pop", "idle")
  /\ head' = lnext[t]
  /\ handed' = [handed EXCEPT ![lhead[t]] = @ + 1]
  /\ ForgetLocals(t)
  /\ UNCHANGED <<next, index>>

AllocPop(t) ==
  /\ head = lhead[t]
  /\ Goto(t, "alloc_pop", "idle")
  /\ head' = lnext[t]
  /\ handed' = [handed EXCEPT ![lhead[t]] = @ + 1]
  /\ ForgetLocals(t)
  /\ UNCHANGED <<next, index>>

\* ... or fails, possibly spuriously
AllocPopFails(t) ==
  /\ Goto(t, "alloc_pop", "alloc_retry")
  /\ ForgetLocals(t)
  /\ UNCHANGED <<head, next, handed, index>>

-----------------------------------------------------------------------------
(* free                                                                    *)

\* The caller gives its record up; free resets it before pushing it.
Free(t) ==
  /\ Goto(t, "idle", "free_load")
  /\ \E r \in Records :
       /\ handed[r] > 0
       /\ handed' = [handed EXCEPT ![r] = @ - 1]
       /\ index' = [index EXCEPT ![t] = r]
  /\ UNCHANGED <<head, next, lhead, lnext>>

FreeLoadHead(t) ==
  /\ Goto(t, "free_load", "free_link")
  /\ lhead' = [lhead EXCEPT ![t] = head]
  /\ UNCHANGED <<head, next, handed, lnext, index>>

FreeLink(t) ==
  /\ Goto(t, "free_link", "free_push")
  /\ next' = [next EXCEPT ![index[t]] = lhead[t]]
  /\ UNCHANGED <<head, handed, lhead, lnext, index>>

\* compare_exchange_weak(head, index) succeeds ...

FreePush(t) ==
  /\ head = lhead[t]
  /\ Goto(t, "free_push", "idle")
  /\ head' = index[t]
  /\ index' = [index EXCEPT ![t] = None]
  /\ ForgetLocals(t)
  /\ UNCHANGED <<next, handed>>

\* ... or fails, possibly spuriously
FreePushFails(t) ==
  /\ Goto(t, "free_push", "free_load")
  /\ ForgetLocals(t)
  /\ UNCHANGED <<head, next, handed, index>>

-----------------------------------------------------------------------------

Alloc(t) == \/ AllocLoadHead(t) \/ AllocLoadNext(t)
            \/ AllocPop(t) \/ AllocPopFails(t)

FreeStep(t) == \/ FreeLoadHead(t) \/ FreeLink(t)
               \/ FreePush(t) \/ FreePushFails(t)

Next == \/ \E t \in Allocators : Alloc(t)
        \/ \E t \in Freers : Free(t) \/ FreeStep(t)

Spec == Init /\ [][Next]_vars

-----------------------------------------------------------------------------
(* Properties                                                              *)

TypeOK ==
  /\ head \in Links
  /\ next \in [Records -> Links]
  /\ handed \in [Records -> Nat]
  /\ pc \in [Threads -> {"idle", "alloc_retry", "alloc_next", "alloc_pop",
                         "free_load", "free_link", "free_push"}]
  /\ lhead \in [Threads -> Links]
  /\ lnext \in [Threads -> Links]
  /\ index \in [Threads -> Links]

\* The records reachable from head, those alloc can hand out: the least set
\* that has the top of the stack and what its members link to.
Reachable(top, link) ==
  {r \in Records :
     \A S \in SUBSET Records :
       /\ top \in Records => top \in S
       /\ \A n \in S : link[n] \in Records => link[n] \in S
       => r \in S}

FreeRecords == Reachable(head, next)

Returning(r) == {t \in Threads : index[t] = r}

\* Every record has at most one owner, counting the thread that is returning
\* it, and a record that has an owner cannot be handed out.
ExclusiveOwner ==
  \A r \in Records :
    LET owners == handed[r] + Cardinality(Returning(r))
    IN  owners <= 1 /\ (r \in FreeRecords => owners = 0)

\* What a record is to those who use the pool.
Status ==
  LET free == FreeRecords
  IN  [r \in Records |-> CASE r \in free      -> "free"
                           [] handed[r] > 0 -> "owned"
                           [] OTHER         -> "returning"]

Set == INSTANCE RecordSet WITH status <- Status

\* The pool is a set of records that are free, owned or on their way back:
\* no record is lost from the stack, none is handed out twice, and a record
\* comes free again only through free.  This is Set!Spec: steps that change
\* nothing are named first, because TLC need not compute Status for them.
ImplementsRecordSet == Set!Init /\ [][UNCHANGED vars \/ Set!Next]_Status

=============================================================================
