-------------------------- MODULE ComponentProofs --------------------------
(***************************************************************************)
(* Proofs about the components that MCComponents checks side by side, one  *)
(* section for each, for every value of their constants.  The components   *)
(* share no state, so the theorems of two of them hold of any system that  *)
(* has both: the last section states them together.                        *)
(***************************************************************************)
EXTENDS RecordPool, RecordId, RateLimit, CircuitBreaker, Backpressure,
        ShmRegion, DependencyCheck, PluginHost, PluginStore, PluginMigration,
        FileSink, RemoteSinks, KeyRotation, ExternalAnchor, EmergencySpill,
        ConfigLoad, DomainTree, EngineRun, ReplayGuard, AuditVerify,
        SequenceTheorems, FiniteSetTheorems, TLAPS

(***************************************************************************)
(* Induction over data, without an operator as a parameter: a set of       *)
(* numbers stands for what is claimed of them, and a function for a step.  *)
(***************************************************************************)

(* A set of numbers has a member whose predecessor is not in it: the        *)
(* lowest.                                                                  *)
LEMMA FirstMissing ==
  ASSUME NEW T \in SUBSET Nat, T # {}
  PROVE  \E m \in T : m - 1 \notin T
  <1> DEFINE B == {0..n : n \in T}
  <1>1. \A n \in Nat : n \in 0..n
    OBVIOUS
  <1>2. IsWellFoundedOn(StrictSubsetOrdering(Nat), FiniteSubsetsOf(Nat))
    BY FS_StrictSubsetOrderingWellFounded
  <1>3. \A n \in Nat : 0..n \in FiniteSubsetsOf(Nat)
    BY FS_Interval DEF FiniteSubsetsOf
  <1>4. B \subseteq FiniteSubsetsOf(Nat) /\ B # {}
    BY <1>1, <1>3
  <1> HIDE DEF B
  <1>5. PICK x \in B : \A y \in B : ~(<<y, x>> \in StrictSubsetOrdering(Nat))
    BY <1>2, <1>4, WFMin
  <1>6. PICK m \in T : x = 0..m
    BY DEF B
  <1>7. ASSUME m - 1 \in T PROVE FALSE
    <2>1. m \in Nat /\ m - 1 \in Nat
      BY <1>1, <1>7
    <2>2. 0..(m - 1) \subseteq 0..m /\ m \in 0..m /\ m \notin 0..(m - 1)
      BY <2>1
    <2>3. 0..(m - 1) \in SUBSET Nat /\ 0..m \in SUBSET Nat
      BY <2>1
    <2>4. <<0..(m - 1), 0..m>> \in StrictSubsetOrdering(Nat)
      BY <2>2, <2>3 DEF StrictSubsetOrdering
    <2>5. 0..(m - 1) \in B
      BY <1>7 DEF B
    <2> QED BY <1>5, <1>6, <2>4, <2>5
  <1> QED BY <1>7

(* What holds of 0 and, with a number, of the next one holds of all.        *)
LEMMA CountingUp ==
  ASSUME NEW N \in SUBSET Nat, 0 \in N, \A n \in N : n + 1 \in N
  PROVE  N = Nat
  <1> SUFFICES ASSUME Nat \ N # {} PROVE FALSE
    OBVIOUS
  <1>1. PICK m \in Nat \ N : m - 1 \notin Nat \ N
    BY FirstMissing
  <1>2. m - 1 \in Nat
    BY <1>1
  <1> QED BY <1>1, <1>2

Stays(move, last, T) == \A i \in 1..last, x \in T : move[<<i, x>>] \in T

Taken(start, move, last, f) ==
  f[0] = start /\ \A i \in 1..last : f[i] = move[<<i, f[i - 1]>>]

(* A step that stays in a set can be taken any number of times.             *)
LEMMA StepsCanBeTaken ==
  ASSUME NEW T, NEW start \in T, NEW last \in Nat, NEW move, Stays(move, last, T)
  PROVE  \E f \in [0..last -> T] : Taken(start, move, last, f)
  <1> DEFINE N == {n \in Nat : n <= last => \E f \in [0..n -> T] : Taken(start, move, n, f)}
  <1>1. 0 \in N
    <2> DEFINE f == [i \in 0..0 |-> start]
    <2>1. f \in [0..0 -> T] /\ Taken(start, move, 0, f)
      BY DEF Taken
    <2> QED BY <2>1
  <1>2. ASSUME NEW n \in N PROVE n + 1 \in N
    <2> SUFFICES ASSUME n + 1 <= last PROVE \E g \in [0..n + 1 -> T] : Taken(start, move, n + 1, g)
      OBVIOUS
    <2>1. n \in Nat /\ n <= last
      OBVIOUS
    <2>2. PICK f \in [0..n -> T] : Taken(start, move, n, f)
      BY <2>1
    <2> DEFINE g == [i \in 0..n + 1 |-> IF i <= n THEN f[i] ELSE move[<<n + 1, f[n]>>]]
    <2>3. n \in 0..n /\ n + 1 \in 1..last
      BY <2>1
    <2>4. move[<<n + 1, f[n]>>] \in T
      BY <2>2, <2>3 DEF Stays
    <2>5. \A i \in 0..n + 1 : i <= n => i \in 0..n
      BY <2>1
    <2>6. g \in [0..n + 1 -> T]
      BY <2>2, <2>4, <2>5
    <2>7. \A i \in 0..n : g[i] = f[i]
      BY <2>1
    <2>8. g[n + 1] = move[<<n + 1, g[n]>>]
      <3>1. n + 1 \in 0..n + 1 /\ ~(n + 1 <= n)
        BY <2>1
      <3>2. g[n + 1] = move[<<n + 1, f[n]>>]
        BY <3>1
      <3> QED BY <2>3, <2>7, <3>2
    <2>9. 0 \in 0..n /\ \A i \in 1..n : i \in 0..n /\ i - 1 \in 0..n
      BY <2>1
    <2>10. g[0] = start /\ \A i \in 1..n : g[i] = move[<<i, g[i - 1]>>]
      BY <2>2, <2>7, <2>9 DEF Taken
    <2> HIDE DEF g
    <2>11. \A i \in 1..n + 1 : i \in 1..n \/ i = n + 1
      BY <2>1
    <2>12. n + 1 - 1 = n
      BY <2>1
    <2>13. \A i \in 1..n + 1 : g[i] = move[<<i, g[i - 1]>>]
      BY <2>8, <2>10, <2>11, <2>12
    <2> QED BY <2>6, <2>10, <2>13 DEF Taken
  <1>3. N = Nat
    BY <1>1, <1>2, CountingUp
  <1>4. last \in N
    BY <1>3
  <1> QED BY <1>4

SameSteps(f, g, last) ==
  f[0] = g[0] /\ \A i \in 1..last : f[i - 1] = g[i - 1] => f[i] = g[i]

(* Two functions that take the same steps from the same start agree.        *)
LEMMA StepsAgree ==
  ASSUME NEW last \in Nat, NEW f, NEW g, SameSteps(f, g, last)
  PROVE  \A i \in 0..last : f[i] = g[i]
  <1> DEFINE N == {n \in Nat : n <= last => f[n] = g[n]}
  <1>1. 0 \in N
    BY DEF SameSteps
  <1>2. ASSUME NEW n \in N PROVE n + 1 \in N
    <2>1. n \in Nat /\ (n + 1 <= last => n + 1 \in 1..last /\ n + 1 - 1 = n /\ n <= last)
      OBVIOUS
    <2> QED BY <2>1 DEF SameSteps
  <1>3. N = Nat
    BY <1>1, <1>2, CountingUp
  <1> QED BY <1>3

(***************************************************************************)
(* Record pool (RecordPool)                                                *)
(*                                                                         *)
(* The stack is read through what is reachable from its head.  The proof   *)
(* needs that one thread allocates: its swap then finds the successor it   *)
(* has loaded, because nobody else takes a record off the stack. With two, *)
(* another may (the ABA problem of RecordPoolAba.cfg).                     *)
(***************************************************************************)

(* Reachable is closed under the links, and the least such set.             *)
LEMMA ReachableIsClosed ==
  ASSUME NEW top, NEW link
  PROVE  /\ Reachable(top, link) \subseteq Records
         /\ top \in Records => top \in Reachable(top, link)
         /\ \A n \in Reachable(top, link) :
              link[n] \in Records => link[n] \in Reachable(top, link)
  BY DEF Reachable

(* Any other set closed like that has all that is reachable.                *)
LEMMA ReachableIsLeast ==
  ASSUME NEW top, NEW link, NEW S \in SUBSET Records,
         top \in Records => top \in S,
         \A n \in S : link[n] \in Records => link[n] \in S
  PROVE  Reachable(top, link) \subseteq S
  BY DEF Reachable

(* Where a thread is inside alloc, and inside free.                         *)
Allocating == {"alloc_retry", "alloc_next", "alloc_pop"}
Freeing    == {"free_load", "free_link", "free_push"}

(* What a thread remembers of the stack is still true where it counts.      *)
ThreadInv ==
  \A t \in Threads :
    /\ pc[t] \in Allocating => t \in Allocators
    /\ pc[t] \in Freeing <=> index[t] # None
    /\ pc[t] \in {"alloc_next", "alloc_pop"} => lhead[t] \in FreeRecords
    /\ pc[t] = "alloc_pop" => lnext[t] = next[lhead[t]]
    /\ pc[t] = "free_push" => next[index[t]] = lhead[t]

(* A record is in one place: on the stack, with an owner, or with a thread  *)
(* that returns it.                                                         *)
PlaceInv ==
  /\ \A rec \in Records : handed[rec] \in {0, 1}
  /\ \A rec \in FreeRecords : handed[rec] = 0
  /\ \A t \in Threads : index[t] # None =>
       /\ handed[index[t]] = 0 /\ index[t] \notin FreeRecords
       /\ \A u \in Threads : index[u] = index[t] => u = t
  /\ \A rec \in Records : rec \in FreeRecords \/ handed[rec] = 1 \/ \E t \in Threads : index[t] = rec

(* Nothing links back to the top, and no two links meet.                    *)
StackInv ==
  \A n \in FreeRecords : next[n] \in Records =>
    /\ next[n] # head
    /\ \A m \in FreeRecords : next[m] = next[n] => m = n

PoolInv == TypeOK /\ ThreadInv /\ PlaceInv /\ StackInv

(* At first every record is on the stack: object_pool.rs links each one to  *)
(* the next.                                                                *)
LEMMA PoolInit == Init => PoolInv /\ Set!Init
  <1> SUFFICES ASSUME Init PROVE PoolInv /\ Set!Init
    OBVIOUS
  <1> USE DEF Init
  <1>1. 0 \in Records /\ \A rec \in Records : rec \in Nat
    BY CapacityAssumption DEF Records
  <1>2. \A rec \in Records : rec + 1 \in Records <=> rec + 1 < Capacity
    BY CapacityAssumption DEF Records
  <1>3. None \notin Records
    BY <1>1, NoneAssumption
  <1>4. TypeOK
    BY <1>1, <1>2, <1>3 DEF TypeOK, Links
  <1>5. FreeRecords = Records
    <2>1. SUFFICES ASSUME NEW S \in SUBSET Records, 0 \in S,
                          \A n \in S : next[n] \in Records => next[n] \in S,
                          Records \ S # {}
                   PROVE  FALSE
      <3>1. \A S \in SUBSET Records :
              /\ 0 \in S /\ (\A n \in S : next[n] \in Records => next[n] \in S)
              => Records \ S = {}
        BY <2>1
      <3> QED BY <1>1, <3>1 DEF FreeRecords, Reachable
    <2>2. PICK m \in Records \ S : m - 1 \notin Records \ S
      <3>1. Records \ S \in SUBSET Nat
        BY CapacityAssumption DEF Records
      <3> QED BY <2>1, <3>1, FirstMissing
    <2>3. m # 0 /\ m - 1 \in Records /\ (m - 1) + 1 = m
      BY <1>1, <2>1, <2>2, CapacityAssumption DEF Records
    <2>4. next[m - 1] = m
      BY <2>2, <2>3, <1>2
    <2> QED BY <2>1, <2>2, <2>3, <2>4
  <1>6. ThreadInv
    BY DEF ThreadInv, Allocating, Freeing
  <1>7. PlaceInv
    BY <1>5 DEF PlaceInv
  <1>8. StackInv
    <2>1. \A n \in Records : next[n] \in Records => next[n] = n + 1
      BY <1>3
    <2>2. \A n \in Records : n + 1 # 0
      BY <1>1
    <2>3. \A m, n \in Records : m + 1 = n + 1 => m = n
      BY <1>1
    <2> QED BY <2>1, <2>2, <2>3, <1>5 DEF StackInv
  <1>9. Set!Init
    BY <1>5 DEF Set!Init, Status
  <1> QED BY <1>4, <1>6, <1>7, <1>8, <1>9 DEF PoolInv

(* The free records are closed under the head and the links.                *)
LEMMA FreeRecordsFacts ==
  /\ FreeRecords \subseteq Records
  /\ head \in Records => head \in FreeRecords
  /\ \A n \in FreeRecords : next[n] \in Records => next[n] \in FreeRecords
  BY ReachableIsClosed DEF FreeRecords

(* usize::MAX is not the index of a record.                                 *)
LEMMA NoneIsNoRecord == None \notin Records
  BY NoneAssumption, CapacityAssumption DEF Records

(* What is free depends on the head and the links alone.                    *)
LEMMA FreeRecordsStay ==
  ASSUME UNCHANGED <<head, next>> PROVE FreeRecords' = FreeRecords
  BY DEF FreeRecords, Reachable

(* A step that leaves the stack and the owners alone.                       *)
LEMMA LoadsKeep ==
  ASSUME PoolInv, UNCHANGED <<head, next, handed, index>>, TypeOK', ThreadInv'
  PROVE  PoolInv' /\ Status' = Status
  <1>1. FreeRecords' = FreeRecords
    BY FreeRecordsStay
  <1>2. PlaceInv'
    BY <1>1 DEF PoolInv, PlaceInv
  <1>3. StackInv'
    BY <1>1 DEF PoolInv, StackInv
  <1>4. Status' = Status
    BY <1>1 DEF Status
  <1> QED BY <1>2, <1>3, <1>4 DEF PoolInv

(* What alloc loads from the head is on the stack.                          *)
LEMMA AllocLoadHeadKeeps ==
  ASSUME PoolInv, NEW t \in Allocators, AllocLoadHead(t)
  PROVE  PoolInv' /\ Status' = Status
  <1> USE DEF AllocLoadHead
  <1>0. t \in Threads
    BY DEF Threads
  <1>1. TypeOK'
    BY <1>0 DEF PoolInv, TypeOK
  <1>2. FreeRecords' = FreeRecords
    BY FreeRecordsStay
  <1>3. head # None => head \in FreeRecords
    BY FreeRecordsFacts DEF PoolInv, TypeOK, Links
  <1>4. ThreadInv'
    BY <1>0, <1>2, <1>3 DEF PoolInv, TypeOK, ThreadInv, Allocating, Freeing
  <1> QED BY <1>1, <1>4, LoadsKeep

(* The successor alloc loads is that of a record still on the stack.        *)
LEMMA AllocLoadNextKeeps ==
  ASSUME PoolInv, NEW t \in Allocators, AllocLoadNext(t)
  PROVE  PoolInv' /\ Status' = Status
  <1> USE DEF AllocLoadNext, Goto
  <1>0. t \in Threads
    BY DEF Threads
  <1>1. lhead[t] \in Records
    BY <1>0, FreeRecordsFacts DEF PoolInv, ThreadInv
  <1>2. TypeOK'
    BY <1>0, <1>1 DEF PoolInv, TypeOK
  <1>3. FreeRecords' = FreeRecords
    BY FreeRecordsStay
  <1>4. ThreadInv'
    BY <1>0, <1>3 DEF PoolInv, TypeOK, ThreadInv, Allocating, Freeing
  <1> QED BY <1>2, <1>4, LoadsKeep

(* A failed swap of alloc changes nothing but the locals of the thread.     *)
LEMMA AllocPopFailsKeeps ==
  ASSUME PoolInv, NEW t \in Allocators, AllocPopFails(t)
  PROVE  PoolInv' /\ Status' = Status
  <1> USE DEF AllocPopFails, Goto, ForgetLocals
  <1>0. t \in Threads
    BY DEF Threads
  <1>1. TypeOK'
    BY <1>0 DEF PoolInv, TypeOK, Links
  <1>2. FreeRecords' = FreeRecords
    BY FreeRecordsStay
  <1>3. ThreadInv'
    BY <1>0, <1>2 DEF PoolInv, TypeOK, ThreadInv, Allocating, Freeing
  <1> QED BY <1>1, <1>3, LoadsKeep

(* free may load any head: it checks it again when it swaps.                *)
LEMMA FreeLoadHeadKeeps ==
  ASSUME PoolInv, NEW t \in Freers, FreeLoadHead(t)
  PROVE  PoolInv' /\ Status' = Status
  <1> USE DEF FreeLoadHead, Goto
  <1>0. t \in Threads
    BY DEF Threads
  <1>1. TypeOK'
    BY <1>0 DEF PoolInv, TypeOK
  <1>2. FreeRecords' = FreeRecords
    BY FreeRecordsStay
  <1>3. ThreadInv'
    BY <1>0, <1>2 DEF PoolInv, TypeOK, ThreadInv, Allocating, Freeing
  <1> QED BY <1>1, <1>3, LoadsKeep

(* A failed swap of free leaves the record with the thread.                 *)
LEMMA FreePushFailsKeeps ==
  ASSUME PoolInv, NEW t \in Freers, FreePushFails(t)
  PROVE  PoolInv' /\ Status' = Status
  <1> USE DEF FreePushFails, Goto, ForgetLocals
  <1>0. t \in Threads
    BY DEF Threads
  <1>1. TypeOK'
    BY <1>0 DEF PoolInv, TypeOK, Links
  <1>2. FreeRecords' = FreeRecords
    BY FreeRecordsStay
  <1>3. ThreadInv'
    BY <1>0, <1>2 DEF PoolInv, TypeOK, ThreadInv, Allocating, Freeing
  <1> QED BY <1>1, <1>3, LoadsKeep

(* The only thread that takes records from the stack swings the head to the *)
(* successor the old head still has.                                        *)
LEMMA AllocPopKeeps ==
  ASSUME PoolInv, NEW t, Allocators = {t}, AllocPop(t)
  PROVE  PoolInv' /\ Set!Next
  <1> DEFINE rec == head
  <1> USE DEF AllocPop, Goto, ForgetLocals
  <1>0. t \in Threads
    BY DEF Threads
  <1>1. /\ rec \in FreeRecords /\ rec \in Records /\ head' = next[rec]
        /\ next' = next
        /\ handed' = [handed EXCEPT ![rec] = handed[rec] + 1] /\ handed[rec] = 0
    BY <1>0, FreeRecordsFacts DEF PoolInv, ThreadInv, PlaceInv
  <1>2. head' \in Links /\ next[rec] \in Links
    BY <1>1 DEF PoolInv, TypeOK
  <1>3. TypeOK'
    BY <1>0, <1>1, <1>2 DEF PoolInv, TypeOK, Links
  <1>4. FreeRecords' = FreeRecords \ {rec}
    <2>1. FreeRecords' = Reachable(next[rec], next)
      BY <1>1 DEF FreeRecords, Reachable
    <2>2. Reachable(next[rec], next) \subseteq FreeRecords \ {rec}
      <3>1. \A n \in FreeRecords : next[n] \in Records => next[n] \in FreeRecords \ {rec}
        BY FreeRecordsFacts DEF PoolInv, StackInv
      <3>2. FreeRecords \ {rec} \in SUBSET Records
        BY FreeRecordsFacts
      <3> QED BY <1>1, <3>1, <3>2, ReachableIsLeast
    <2>3. FreeRecords \subseteq Reachable(next[rec], next) \cup {rec}
      <3> DEFINE S == Reachable(next[rec], next) \cup {rec}
      <3>1. S \in SUBSET Records
        BY <1>1, ReachableIsClosed
      <3>2. \A n \in S : next[n] \in Records => next[n] \in S
        BY ReachableIsClosed
      <3>3. rec \in S
        OBVIOUS
      <3> HIDE DEF S
      <3>4. FreeRecords \subseteq S
        BY <3>1, <3>2, <3>3, ReachableIsLeast DEF FreeRecords
      <3> QED BY <3>4 DEF S
    <2> QED BY <2>1, <2>2, <2>3
  <1>5. ThreadInv'
    <2>1. \A u \in Threads : u # t =>
            /\ pc'[u] = pc[u] /\ lhead'[u] = lhead[u] /\ lnext'[u] = lnext[u]
            /\ pc[u] \notin Allocating
      BY DEF PoolInv, TypeOK, ThreadInv
    <2>2. pc'[t] = "idle" /\ index'[t] = index[t] /\ index[t] = None
      BY <1>0 DEF PoolInv, TypeOK, ThreadInv, Freeing
    <2> QED BY <2>1, <2>2, <1>1 DEF PoolInv, ThreadInv, Allocating, Freeing
  <1>6. PlaceInv'
    <2>1. \A q \in Records : handed'[q] = IF q = rec THEN 1 ELSE handed[q]
      BY <1>1 DEF PoolInv, TypeOK
    <2>2. index' = index
      OBVIOUS
    <2>3. \A u \in Threads : index[u] # None => index[u] # rec /\ index[u] \in Records
      BY <1>1 DEF PoolInv, TypeOK, Links, PlaceInv
    <2>4. \A q \in Records : handed'[q] \in {0, 1}
      BY <2>1 DEF PoolInv, PlaceInv
    <2>5. \A q \in FreeRecords' : handed'[q] = 0
      BY <2>1, <1>4, FreeRecordsFacts DEF PoolInv, PlaceInv
    <2>6. \A u \in Threads : index'[u] # None =>
            /\ handed'[index'[u]] = 0 /\ index'[u] \notin FreeRecords'
            /\ \A v \in Threads : index'[v] = index'[u] => v = u
      BY <2>1, <2>2, <2>3, <1>4 DEF PoolInv, PlaceInv
    <2>7. \A q \in Records : q \in FreeRecords' \/ handed'[q] = 1
                                 \/ \E u \in Threads : index'[u] = q
      BY <2>1, <2>2, <1>4 DEF PoolInv, PlaceInv
    <2> QED BY <2>4, <2>5, <2>6, <2>7 DEF PlaceInv
  <1>7. StackInv'
    BY <1>1, <1>4 DEF PoolInv, StackInv
  <1>8. Set!Next
    <2>1. Status[rec] = "free"
      BY <1>1 DEF Status
    <2>2. Status' = [Status EXCEPT ![rec] = "owned"]
      <3>1. \A q \in Records : handed'[q] = IF q = rec THEN 1 ELSE handed[q]
        BY <1>1 DEF PoolInv, TypeOK
      <3>2. Status'[rec] = "owned"
        BY <1>1, <1>4, <3>1 DEF Status
      <3>3. \A q \in Records : q # rec => Status'[q] = Status[q]
        BY <1>4, <3>1 DEF Status
      <3> HIDE DEF rec, AllocPop, Goto, ForgetLocals
      <3> QED BY <3>2, <3>3 DEF Status
    <2> QED BY <1>1, <2>1, <2>2 DEF Set!Next, Set!Move
  <1> QED BY <1>3, <1>5, <1>6, <1>7, <1>8 DEF PoolInv

(* A call of free moves a record from its owner to the thread.              *)
LEMMA FreeKeeps ==
  ASSUME PoolInv, NEW t \in Freers, Free(t) PROVE PoolInv' /\ Set!Next
  <1>0. t \in Threads
    BY DEF Threads
  <1>1. PICK rec \in Records :
          /\ handed[rec] > 0
          /\ handed' = [handed EXCEPT ![rec] = @ - 1]
          /\ index' = [index EXCEPT ![t] = rec]
    BY DEF Free
  <1>2. /\ UNCHANGED <<head, next, lhead, lnext>>
        /\ pc[t] = "idle" /\ pc' = [pc EXCEPT ![t] = "free_load"]
    BY DEF Free, Goto
  <1>3. handed[rec] = 1 /\ index[t] = None
    BY <1>0, <1>1, <1>2 DEF PoolInv, PlaceInv, ThreadInv, Freeing
  <1>4. \A q \in Records : handed'[q] = IF q = rec THEN 0 ELSE handed[q]
    BY <1>1, <1>3 DEF PoolInv, TypeOK
  <1>5. /\ FreeRecords' = FreeRecords /\ FreeRecords \subseteq Records
        /\ rec \notin FreeRecords
    BY <1>2, <1>3, FreeRecordsStay, FreeRecordsFacts DEF PoolInv, PlaceInv
  <1>6. \A u \in Threads : index'[u] = IF u = t THEN rec ELSE index[u]
    BY <1>1 DEF PoolInv, TypeOK
  <1>7. \A u \in Threads : index[u] # None => index[u] \in Records /\ index[u] # rec
    BY <1>3 DEF PoolInv, TypeOK, Links, PlaceInv
  <1>8. TypeOK'
    <2>1. handed' \in [Records -> Nat]
      BY <1>1, <1>3 DEF PoolInv, TypeOK
    <2> QED BY <2>1, <1>0, <1>1, <1>2 DEF PoolInv, TypeOK, Links
  <1>9. ThreadInv'
    <2>1. rec # None
      BY NoneIsNoRecord
    <2>2. \A u \in Threads : pc'[u] = IF u = t THEN "free_load" ELSE pc[u]
      BY <1>2 DEF PoolInv, TypeOK
    <2> QED BY <1>2, <1>5, <1>6, <2>1, <2>2
               DEF PoolInv, ThreadInv, Allocating, Freeing
  <1>10. PlaceInv'
    <2>1. \A q \in Records : handed'[q] \in {0, 1}
      BY <1>4 DEF PoolInv, PlaceInv
    <2>2. \A q \in FreeRecords : handed'[q] = 0
      BY <1>4, <1>5 DEF PoolInv, PlaceInv
    <2>3. \A u \in Threads : index'[u] # None =>
            /\ handed'[index'[u]] = 0 /\ index'[u] \notin FreeRecords
            /\ \A v \in Threads : index'[v] = index'[u] => v = u
      BY <1>4, <1>5, <1>6, <1>7 DEF PoolInv, PlaceInv
    <2>4. \A q \in Records : q \in FreeRecords \/ handed'[q] = 1
                                 \/ \E u \in Threads : index'[u] = q
      <3>1. index'[t] = rec
        BY <1>0, <1>6
      <3>2. \A q \in Records, u \in Threads : index[u] = q => index'[u] = q
        BY <1>3, <1>6, NoneIsNoRecord
      <3> QED BY <1>0, <1>4, <3>1, <3>2 DEF PoolInv, PlaceInv
    <2> QED BY <1>5, <2>1, <2>2, <2>3, <2>4 DEF PlaceInv
  <1>11. StackInv'
    BY <1>2, <1>5 DEF PoolInv, StackInv
  <1>12. Set!Next
    <2>1. Status[rec] = "owned"
      BY <1>1, <1>5 DEF Status
    <2>2. Status' = [Status EXCEPT ![rec] = "returning"]
      <3>1. Status'[rec] = "returning"
        BY <1>4, <1>5 DEF Status
      <3>2. \A q \in Records : q # rec => Status'[q] = Status[q]
        BY <1>4, <1>5 DEF Status
      <3> QED BY <3>1, <3>2 DEF Status
    <2> QED BY <2>1, <2>2 DEF Set!Next, Set!Move
  <1> QED BY <1>8, <1>9, <1>10, <1>11, <1>12 DEF PoolInv

(* free links a record that is not on the stack: what the top leads to      *)
(* stays the same.                                                          *)
LEMMA FreeLinkKeeps ==
  ASSUME PoolInv, NEW t \in Freers, FreeLink(t)
  PROVE  PoolInv' /\ Status' = Status
  <1> DEFINE rec == index[t]
  <1> USE DEF FreeLink, Goto
  <1>0. t \in Threads
    BY DEF Threads
  <1>1. rec \in Records /\ rec \notin FreeRecords /\ rec # None
    BY <1>0 DEF PoolInv, TypeOK, Links, ThreadInv, Freeing, PlaceInv
  <1>2. /\ \A n \in Records : next'[n] = IF n = rec THEN lhead[t] ELSE next[n]
        /\ UNCHANGED <<head, handed, lhead, lnext, index>>
    BY DEF PoolInv, TypeOK
  <1>3. TypeOK'
    BY <1>0, <1>1 DEF PoolInv, TypeOK
  <1>4. FreeRecords' = FreeRecords
    <2>1. FreeRecords' = Reachable(head, next')
      BY <1>2 DEF FreeRecords, Reachable
    <2>2. Reachable(head, next') \subseteq FreeRecords
      <3>1. /\ FreeRecords \in SUBSET Records
            /\ (head \in Records => head \in FreeRecords)
        BY FreeRecordsFacts
      <3>2. \A n \in FreeRecords : next'[n] \in Records => next'[n] \in FreeRecords
        BY <1>1, <1>2, FreeRecordsFacts
      <3> DEFINE link == next'  S == FreeRecords
      <3>3. \A n \in S : link[n] \in Records => link[n] \in S
        BY <3>2
      <3> HIDE DEF FreeLink, Goto, link, S
      <3>4. Reachable(head, link) \subseteq S
        <4>1. S \in SUBSET Records /\ (head \in Records => head \in S)
          BY <3>1 DEF S
        <4> QED BY <3>3, <4>1, ReachableIsLeast
      <3> QED BY <3>4 DEF link, S
    <2>3. FreeRecords \subseteq Reachable(head, next')
      <3> DEFINE S == Reachable(head, next') \cap FreeRecords
      <3>1. S \in SUBSET Records /\ (head \in Records => head \in S)
        BY FreeRecordsFacts, ReachableIsClosed
      <3>2. \A n \in S : next[n] \in Records => next[n] \in S
        BY <1>1, <1>2, FreeRecordsFacts, ReachableIsClosed
      <3> HIDE DEF S
      <3>3. FreeRecords \subseteq S
        BY <3>1, <3>2, ReachableIsLeast DEF FreeRecords
      <3> QED BY <3>3 DEF S
    <2> QED BY <2>1, <2>2, <2>3
  <1>5. \A n \in FreeRecords : n \in Records /\ next'[n] = next[n]
    BY <1>1, <1>2, FreeRecordsFacts
  <1>6. ThreadInv'
    <2>1. \A u \in Threads : pc'[u] = IF u = t THEN "free_push" ELSE pc[u]
      BY DEF PoolInv, TypeOK
    <2>2. next'[index[t]] = lhead[t]
      BY <1>1, <1>2
    <2>3. \A u \in Threads : u # t /\ pc[u] = "free_push" => next'[index[u]] = next[index[u]]
      <3>1. \A u \in Threads : pc[u] = "free_push" => index[u] # None /\ index[u] \in Records
        BY DEF PoolInv, ThreadInv, Freeing, TypeOK, Links
      <3> QED BY <1>0, <1>1, <1>2, <3>1 DEF PoolInv, PlaceInv
    <2> QED BY <1>1, <1>2, <1>4, <1>5, <2>1, <2>2, <2>3
               DEF PoolInv, ThreadInv, Allocating, Freeing
  <1>7. PlaceInv'
    BY <1>2, <1>4 DEF PoolInv, PlaceInv
  <1>8. StackInv'
    BY <1>2, <1>4, <1>5 DEF PoolInv, StackInv
  <1>9. Status' = Status
    BY <1>2, <1>4 DEF Status
  <1> QED BY <1>3, <1>6, <1>7, <1>8, <1>9 DEF PoolInv

(* The swap of free puts a record that links to the head on top of it.      *)
LEMMA FreePushKeeps ==
  ASSUME PoolInv, NEW t \in Freers, FreePush(t) PROVE PoolInv' /\ Set!Next
  <1> DEFINE rec == index[t]
  <1> USE DEF FreePush, Goto, ForgetLocals
  <1>0. t \in Threads
    BY DEF Threads
  <1>1. /\ rec \in Records /\ rec \notin FreeRecords /\ rec # None
        /\ handed[rec] = 0
    BY <1>0 DEF PoolInv, TypeOK, Links, ThreadInv, Freeing, PlaceInv
  <1>2. next[rec] = head /\ head' = rec /\ next' = next /\ handed' = handed
    BY <1>0 DEF PoolInv, ThreadInv
  <1>3. TypeOK'
    BY <1>0, <1>1 DEF PoolInv, TypeOK, Links
  <1>4. FreeRecords' = FreeRecords \cup {rec}
    <2>1. FreeRecords' = Reachable(rec, next)
      BY <1>2 DEF FreeRecords, Reachable
    <2>2. Reachable(rec, next) \subseteq FreeRecords \cup {rec}
      <3> DEFINE S == FreeRecords \cup {rec}
      <3>1. S \in SUBSET Records /\ rec \in S
        BY <1>1, FreeRecordsFacts
      <3>2. \A n \in S : next[n] \in Records => next[n] \in S
        BY <1>2, FreeRecordsFacts
      <3> HIDE DEF S
      <3>3. Reachable(rec, next) \subseteq S
        BY <3>1, <3>2, ReachableIsLeast
      <3> QED BY <3>3 DEF S
    <2>3. rec \in Reachable(rec, next)
      BY <1>1, ReachableIsClosed
    <2>4. FreeRecords \subseteq Reachable(rec, next)
      <3> DEFINE S == Reachable(rec, next)
      <3>1. S \in SUBSET Records /\ (head \in Records => head \in S)
        BY <1>2, <2>3, ReachableIsClosed
      <3>2. \A n \in S : next[n] \in Records => next[n] \in S
        BY ReachableIsClosed
      <3> HIDE DEF S
      <3> QED BY <3>1, <3>2, ReachableIsLeast DEF FreeRecords, S
    <2> QED BY <2>1, <2>2, <2>3, <2>4
  <1>5. \A u \in Threads : index'[u] = IF u = t THEN None ELSE index[u]
    BY DEF PoolInv, TypeOK
  <1>6. ThreadInv'
    <2>1. \A u \in Threads :
            /\ pc'[u] = IF u = t THEN "idle" ELSE pc[u]
            /\ u # t => lhead'[u] = lhead[u] /\ lnext'[u] = lnext[u]
      BY DEF PoolInv, TypeOK
    <2> QED BY <1>2, <1>4, <1>5, <2>1
               DEF PoolInv, ThreadInv, Allocating, Freeing
  <1>7. PlaceInv'
    <2>1. \A u \in Threads : u # t /\ index[u] # None => index[u] # rec
      BY <1>0, <1>1 DEF PoolInv, PlaceInv
    <2>2. \A q \in FreeRecords' : handed'[q] = 0
      BY <1>1, <1>2, <1>4 DEF PoolInv, PlaceInv
    <2>3. \A u \in Threads : index'[u] # None =>
            /\ handed'[index'[u]] = 0 /\ index'[u] \notin FreeRecords'
            /\ \A v \in Threads : index'[v] = index'[u] => v = u
      BY <1>2, <1>4, <1>5, <2>1 DEF PoolInv, PlaceInv
    <2>4. \A q \in Records : q \in FreeRecords' \/ handed'[q] = 1
                                 \/ \E u \in Threads : index'[u] = q
      BY <1>2, <1>4, <1>5 DEF PoolInv, PlaceInv
    <2> QED BY <1>2, <2>2, <2>3, <2>4 DEF PoolInv, PlaceInv
  <1>8. StackInv'
    <2>1. ASSUME NEW n \in FreeRecords', next[n] \in Records
          PROVE  next[n] # rec
      BY <2>1, <1>1, <1>2, <1>4, FreeRecordsFacts
    <2>2. ASSUME NEW n \in FreeRecords', next[n] \in Records,
                 NEW m \in FreeRecords', next[m] = next[n]
          PROVE  m = n
      BY <2>2, <1>2, <1>4 DEF PoolInv, StackInv
    <2> QED BY <1>2, <2>1, <2>2 DEF StackInv
  <1>9. Set!Next
    <2>1. Status[rec] = "returning"
      BY <1>1 DEF Status
    <2>2. Status' = [Status EXCEPT ![rec] = "free"]
      <3>1. Status'[rec] = "free"
        BY <1>1, <1>4 DEF Status
      <3>2. \A q \in Records : q # rec => Status'[q] = Status[q]
        BY <1>2, <1>4 DEF Status
      <3> QED BY <3>1, <3>2 DEF Status
    <2> QED BY <1>1, <2>1, <2>2 DEF Set!Next, Set!Move
  <1> QED BY <1>3, <1>6, <1>7, <1>8, <1>9 DEF PoolInv

(* With one thread that allocates, every step keeps the invariant and moves *)
(* at most one record of the set.                                           *)
LEMMA PoolStep ==
  ASSUME NEW a, Allocators = {a}, PoolInv, [Next]_vars
  PROVE  PoolInv' /\ [Set!Next]_Status
  <1>1. ASSUME NEW t \in Allocators, Alloc(t)
        PROVE  PoolInv' /\ [Set!Next]_Status
    BY <1>1, AllocLoadHeadKeeps, AllocLoadNextKeeps, AllocPopKeeps,
       AllocPopFailsKeeps
       DEF Alloc
  <1>2. ASSUME NEW t \in Freers, Free(t) \/ FreeStep(t)
        PROVE  PoolInv' /\ [Set!Next]_Status
    BY <1>2, FreeKeeps, FreeLoadHeadKeeps, FreeLinkKeeps, FreePushKeeps,
       FreePushFailsKeeps
       DEF FreeStep
  <1>3. ASSUME UNCHANGED vars PROVE PoolInv' /\ [Set!Next]_Status
    <2>1. UNCHANGED <<head, next, handed, pc, lhead, lnext, index>>
      BY <1>3 DEF vars
    <2>2. TypeOK' /\ ThreadInv'
      BY <2>1, FreeRecordsStay DEF PoolInv, TypeOK, ThreadInv
    <2> QED BY <2>1, <2>2, LoadsKeep
  <1> QED BY <1>1, <1>2, <1>3 DEF Next

(* With one thread that allocates and any number that free, the Treiber     *)
(* stack implements a set of records: each is free, owned or on its way     *)
(* back, and alloc and free take effect one record at a time at their       *)
(* compare-and-swap.                                                        *)
THEOREM PoolIsASet ==
  ASSUME NEW a, Allocators = {a}
  PROVE  Spec => ImplementsRecordSet /\ Set!Spec
  <1>1. Init => PoolInv /\ Set!Init
    BY PoolInit
  <1>2. PoolInv /\ [Next]_vars => PoolInv' /\ [Set!Next]_Status
    BY PoolStep
  <1>3. [Set!Next]_Status => [UNCHANGED vars \/ Set!Next]_Status
    OBVIOUS
  <1> QED BY <1>1, <1>2, <1>3, PTL DEF Spec, ImplementsRecordSet, Set!Spec

(* Every record is on the stack, with an owner, or with a thread that       *)
(* returns it.                                                              *)
NothingIsLost ==
  \A rec \in Records : rec \in FreeRecords \/ handed[rec] = 1 \/ Returning(rec) # {}

(* With one thread that allocates, a record has one owner until it is       *)
(* returned (what the safety comment at object_pool.rs:30 says) and none is *)
(* lost.                                                                    *)
THEOREM OneOwner ==
  ASSUME NEW a, Allocators = {a}
  PROVE  Spec => [](ExclusiveOwner /\ NothingIsLost)
  <1>1. Init => PoolInv
    BY PoolInit
  <1>2. PoolInv /\ [Next]_vars => PoolInv'
    BY PoolStep
  <1>3. PoolInv => ExclusiveOwner /\ NothingIsLost
    <2> SUFFICES ASSUME PoolInv PROVE ExclusiveOwner /\ NothingIsLost
      OBVIOUS
    <2>1. NothingIsLost
      BY DEF PoolInv, PlaceInv, NothingIsLost, Returning
    <2>2. ASSUME NEW rec \in Records
          PROVE  /\ handed[rec] + Cardinality(Returning(rec)) <= 1
                 /\ rec \in FreeRecords => handed[rec] + Cardinality(Returning(rec)) = 0
      <3>1. handed[rec] \in {0, 1} /\ (rec \in FreeRecords => handed[rec] = 0)
        BY DEF PoolInv, PlaceInv
      <3>2. CASE Returning(rec) = {}
        <4>1. Cardinality(Returning(rec)) = 0
          BY <3>2, FS_EmptySet
        <4> QED BY <3>1, <4>1
      <3>3. ASSUME NEW t \in Returning(rec)
            PROVE  /\ handed[rec] = 0 /\ rec \notin FreeRecords
                   /\ Cardinality(Returning(rec)) = 1
        <4>1. t \in Threads /\ index[t] = rec /\ rec # None
          BY <3>3, NoneIsNoRecord DEF Returning
        <4>2. Returning(rec) = {t}
          BY <4>1 DEF Returning, PoolInv, PlaceInv
        <4> QED BY <4>1, <4>2, FS_Singleton DEF PoolInv, PlaceInv
      <3> QED BY <3>1, <3>2, <3>3
    <2> QED BY <2>1, <2>2 DEF ExclusiveOwner
  <1> QED BY <1>1, <1>2, <1>3, PTL DEF Spec

(***************************************************************************)
(* Record identifiers (RecordId)                                           *)
(*                                                                         *)
(* The age of an identifier, counted in numbers taken since, is bounded by *)
(* what its own caller has let pass.                                       *)
(***************************************************************************)

(* The variables are what record_id.rs declares them to be.                 *)
IdTypes ==
  /\ now_ms \in Nat /\ sequence \in Nat /\ taken_in_ms \in Nat
  /\ id_pc \in [IdCallers -> {"idle", "stamped", "blocked", "retry"}]
  /\ timestamp_ms \in [IdCallers -> Nat] /\ outrun \in [IdCallers -> Nat]
  /\ ids \subseteq [ms : Nat, seq : Nat, outrun : Nat]

(* An identifier of this millisecond is not older than the numbers taken    *)
(* in it; one with the stamp of a call under way is not older than those   *)
(* and the numbers the others have taken since.                            *)
ClockInv ==
  /\ taken_in_ms <= MaxPerMs
  /\ \A c \in IdCallers : timestamp_ms[c] <= now_ms
  /\ \A x \in ids : x.ms <= now_ms /\ x.seq < sequence

AgeInv ==
  /\ \A x \in ids : x.ms = now_ms => sequence - x.seq <= taken_in_ms
  /\ \A c \in IdCallers, x \in ids :
       id_pc[c] = "stamped" /\ x.ms = timestamp_ms[c]
         => sequence - x.seq <= outrun[c] + MaxPerMs

IdInv == IdTypes /\ ClockInv /\ AgeInv /\ IdsAreUnique

(* Two numbers with the same masked value are a turn of the sequence apart. *)
LEMMA ATurnApart ==
  ASSUME NEW x \in Nat, NEW y \in Nat, x < y, Masked(x) = Masked(y)
  PROVE  y - x >= SequenceSize
  <1> DEFINE S == SequenceSize  p == x \div S  q == y \div S  m == x % S
  <1>1. /\ p \in Int /\ q \in Int /\ m \in Int /\ S \in Nat /\ S > 0
        /\ x = S * p + m /\ y = S * q + m
    BY IdAssumption DEF Masked
  <1> HIDE DEF S, p, q, m
  <1>2. S * q - S * p = S * (q - p)
    BY <1>1
  <1>3. S * (q - p) > 0
    BY <1>1, <1>2
  <1>4. q - p >= 1
    <2>1. SUFFICES ASSUME p - q >= 0 PROVE FALSE
      BY <1>1
    <2>2. S * (p - q) >= 0
      BY <1>1, <2>1
    <2> QED BY <1>1, <1>3, <2>2
  <1>5. S * (q - p - 1) >= 0
    BY <1>1, <1>4
  <1>6. S * (q - p - 1) = S * (q - p) - S
    BY <1>1
  <1> QED BY <1>1, <1>2, <1>5, <1>6 DEF S

(* A number taken from the sequence keeps the invariant.                    *)
LEMMA TakeSequenceKeeps ==
  ASSUME IdInv, NEW c \in IdCallers, TakeSequence(c) PROVE IdInv'
  <1> DEFINE new == [ms |-> timestamp_ms[c], seq |-> sequence, outrun |-> outrun[c]]
  <1> USE DEF IdInv
  <1>1. /\ sequence \in Nat /\ sequence' = sequence + 1
        /\ taken_in_ms \in Nat /\ taken_in_ms' = taken_in_ms + 1
        /\ taken_in_ms < MaxPerMs /\ MaxPerMs \in Nat
        /\ id_pc[c] = "stamped" /\ id_pc'[c] # "stamped"
        /\ \A d \in IdCallers : d # c => id_pc'[d] = id_pc[d]
        /\ UNCHANGED <<now_ms, timestamp_ms>>
    BY IdAssumption DEF TakeSequence, IdTypes
  <1>2. /\ new \in [ms : Nat, seq : Nat, outrun : Nat]
        /\ new.ms = timestamp_ms[c] /\ new.seq = sequence
        /\ new.outrun = outrun[c]
    BY DEF IdTypes
  <1> HIDE DEF new
  <1>3. ids' \subseteq ids \cup {new}
    BY DEF TakeSequence, new
  <1>4. \A x \in ids : x.ms \in Nat /\ x.seq \in Nat /\ x.outrun \in Nat
    BY DEF IdTypes
  <1>5. IdTypes'
    <2>1. id_pc' \in [IdCallers -> {"idle", "stamped", "blocked", "retry"}]
      BY DEF TakeSequence, IdTypes
    <2>2. outrun' \in [IdCallers -> Nat]
      BY DEF TakeSequence, IdTypes
    <2> QED BY <1>1, <1>2, <1>3, <2>1, <2>2 DEF IdTypes
  <1>6. ClockInv'
    BY <1>1, <1>2, <1>3, <1>4 DEF ClockInv, IdTypes
  <1>7. ASSUME NEW x \in ids', x.ms = now_ms
        PROVE  sequence' - x.seq <= taken_in_ms'
    BY <1>1, <1>2, <1>3, <1>4, <1>7 DEF AgeInv
  <1>8. ASSUME NEW d \in IdCallers, NEW x \in ids', id_pc'[d] = "stamped",
               x.ms = timestamp_ms[d]
        PROVE  sequence' - x.seq <= outrun'[d] + MaxPerMs
    <2>1. d # c /\ id_pc[d] = "stamped" /\ outrun[d] \in Nat
      BY <1>1, <1>8 DEF IdTypes
    <2>2. outrun'[d] = outrun[d] + 1
      BY <2>1 DEF TakeSequence
    <2> QED BY <1>1, <1>2, <1>3, <1>4, <1>8, <2>1, <2>2 DEF AgeInv
  <1>9. AgeInv'
    BY <1>1, <1>7, <1>8 DEF AgeInv
  <1>10. ASSUME NEW x \in ids', NEW y \in ids', x.seq < y.seq, x.ms = y.ms,
                Masked(x.seq) = Masked(y.seq)
         PROVE  y.outrun >= SequenceSize - MaxPerMs
    <2>1. CASE y \in ids
      <3>1. x \in ids
        BY <1>1, <1>2, <1>3, <1>4, <1>10, <2>1 DEF ClockInv
      <3> QED BY <1>10, <2>1, <3>1 DEF IdsAreUnique
    <2>2. CASE y = new
      <3>1. x \in ids /\ x.ms = timestamp_ms[c]
        BY <1>1, <1>2, <1>3, <1>4, <1>10, <2>2
      <3>2. sequence - x.seq <= outrun[c] + MaxPerMs
        BY <1>1, <3>1 DEF AgeInv
      <3>3. sequence - x.seq >= SequenceSize
        BY <1>1, <1>2, <1>4, <1>10, <2>2, <3>1, ATurnApart
      <3>4. /\ outrun[c] \in Nat /\ sequence \in Nat /\ x.seq \in Nat
            /\ SequenceSize \in Nat /\ MaxPerMs \in Nat
        BY <1>1, <1>4, <3>1, IdAssumption DEF IdTypes
      <3> QED BY <1>2, <2>2, <3>2, <3>3, <3>4
    <2> QED BY <1>3, <2>1, <2>2
  <1>11. IdsAreUnique'
    BY <1>10 DEF IdsAreUnique, Masked
  <1> QED BY <1>5, <1>6, <1>9, <1>11

(* So does every other step.                                                *)
LEMMA IdStepKeeps == ASSUME IdInv, [IdNext]_idvars PROVE IdInv'
  <1> USE DEF IdInv, IdTypes, ClockInv, AgeInv
  <1>1. CASE NextMs
    <2>1. /\ IdTypes' /\ ClockInv'
          /\ UNCHANGED <<sequence, id_pc, timestamp_ms, outrun, ids>>
          /\ \A x \in ids : x.ms # now_ms'
      BY <1>1, IdAssumption DEF NextMs
    <2> QED BY <2>1 DEF IdsAreUnique
  <1>2. ASSUME NEW c \in IdCallers, ReadClock(c) PROVE IdInv'
    <2>1. /\ IdTypes' /\ ClockInv'
          /\ UNCHANGED <<now_ms, sequence, taken_in_ms, ids>>
      BY <1>2 DEF ReadClock
    <2>2. ASSUME NEW d \in IdCallers, NEW x \in ids, id_pc'[d] = "stamped",
                 x.ms = timestamp_ms'[d]
          PROVE  sequence - x.seq <= outrun'[d] + MaxPerMs
      <3>1. CASE d = c
        <4>1. timestamp_ms'[d] = now_ms /\ outrun'[d] = 0
          BY <1>2, <3>1 DEF ReadClock
        <4>2. sequence - x.seq <= taken_in_ms /\ taken_in_ms <= MaxPerMs
          BY <2>2, <4>1
        <4>3. x.seq \in Nat
          OBVIOUS
        <4> QED BY <4>1, <4>2, <4>3, IdAssumption
      <3>2. CASE d # c
        BY <1>2, <2>2, <3>2 DEF ReadClock
      <3> QED BY <3>1, <3>2
    <2> QED BY <2>1, <2>2 DEF IdsAreUnique
  <1>3. ASSUME NEW c \in IdCallers, Unblock(c) PROVE IdInv'
    BY <1>3 DEF Unblock, IdsAreUnique
  <1>4. CASE UNCHANGED idvars
    BY <1>4 DEF idvars, IdsAreUnique
  <1> QED BY <1>1, <1>2, <1>3, <1>4, TakeSequenceKeeps DEF IdNext

(* Two identifiers are equal only if one of the two calls was outrun by     *)
(* nearly a full turn of the sequence between its clock and its number, for *)
(* every number of callers, rate and width of the sequence.                 *)
THEOREM IdsKeep == IdSpec => []IdsAreUnique
  <1>1. IdInit => IdInv
    BY IdAssumption DEF IdInit, IdInv, IdTypes, ClockInv, AgeInv, IdsAreUnique
  <1>2. IdInv => IdsAreUnique
    BY DEF IdInv
  <1> QED BY <1>1, <1>2, IdStepKeeps, PTL DEF IdSpec

(***************************************************************************)
(* Rate limit (RateLimit)                                                  *)
(*                                                                         *)
(* An account of tokens: what is there and what was taken is at most the   *)
(* burst and the refills of the time that has passed.                      *)
(***************************************************************************)

(* Where a caller is in try_acquire.                                        *)
RateSteps == {"idle", "refill", "refill CAS", "take", "take CAS", "allowed"}

(* The callers that have taken a token and not returned yet.                *)
Allowed == {c \in RateCallers : rate_pc[c] = "allowed"}

(* The counters of the limiter. tokens may fall below zero in the model     *)
(* only as an integer; taken is history.                                    *)
RateTypes ==
  /\ burst_size \in Nat /\ time \in Nat /\ last_refill \in Nat
  /\ tokens \in Int /\ taken \in Nat /\ allowed_count \in Nat
  /\ rate_pc \in [RateCallers -> RateSteps]
  /\ read_time \in [RateCallers -> Nat] /\ loaded \in [RateCallers -> Int]

(* The clock a caller has read, and that of the last refill, have passed.   *)
TimeInv ==
  /\ last_refill <= time
  /\ \A c \in RateCallers : read_time[c] <= time

(* Tokens still there and tokens taken are paid for by the burst and the    *)
(* refills up to last_refill.                                               *)
TokensInv ==
  tokens + taken <= burst_size + TokensPerRefill * (last_refill \div 2)

(* Every token taken allows one record.                                     *)
TakenInv == taken = allowed_count + Cardinality(Allowed)

RateInv == RateTypes /\ TimeInv /\ TokensInv /\ TakenInv

(* The invariant holds of a fresh limiter.                                  *)
LEMMA RateInitHolds == RateInit => RateInv
  <1> SUFFICES ASSUME RateInit PROVE RateInv
    OBVIOUS
  <1>1. RateTypes
    BY RateAssumption DEF RateInit, RateTypes, RateSteps
  <1>2. Allowed = {} /\ Cardinality(Allowed) = 0
    BY FS_EmptySet DEF RateInit, Allowed
  <1>3. TimeInv
    BY DEF RateInit, TimeInv
  <1>4. TokensInv
    BY RateAssumption DEF RateInit, TokensInv
  <1> QED BY <1>1, <1>2, <1>3, <1>4 DEF RateInv, TakenInv, RateInit

(* The intervals between two refills add up to at most those since the first. *)
LEMMA RefillsAddUp ==
  ASSUME NEW n \in Nat, NEW from \in Nat, NEW to \in Nat
  PROVE  n * (from \div 2) + ((to - from) \div 2) * n <= n * (to \div 2)
  <1> DEFINE a == from \div 2  b == (to - from) \div 2  c == to \div 2
  <1>1. a \in Nat /\ b \in Int /\ c \in Nat /\ a + b <= c
    OBVIOUS
  <1> HIDE DEF a, b, c
  <1>2. n * (c - a - b) >= 0
    BY <1>1
  <1>3. n * (c - a - b) = n * c - n * a - b * n
    BY <1>1
  <1>4. n * c \in Int /\ n * a \in Int /\ b * n \in Int
    BY <1>1
  <1>5. n * a + b * n <= n * c
    BY <1>2, <1>3, <1>4
  <1> QED BY <1>5 DEF a, b, c

(* A later time is worth at least as many refills.                          *)
LEMMA RefillsGrow ==
  ASSUME NEW n \in Nat, NEW from \in Nat, NEW to \in Nat, from <= to
  PROVE  n * (from \div 2) <= n * (to \div 2)
  <1> DEFINE a == from \div 2  c == to \div 2
  <1>1. a \in Nat /\ c \in Nat /\ a <= c
    OBVIOUS
  <1> HIDE DEF a, c
  <1>2. n * (c - a) >= 0
    BY <1>1
  <1>3. n * (c - a) = n * c - n * a
    BY <1>1
  <1>4. n * c \in Int /\ n * a \in Int
    BY <1>1
  <1>5. n * a <= n * c
    BY <1>2, <1>3, <1>4
  <1> QED BY <1>5 DEF a, c

(* Every step keeps the types,                                              *)
LEMMA RateTypesKeep == ASSUME RateInv, RateNext PROVE RateTypes'
  <1> USE DEF RateInv, RateTypes
  <1>1. CASE TimePasses
    BY <1>1 DEF TimePasses, counts
  <1>2. ASSUME NEW c \in RateCallers, LockAndReadTime(c) PROVE RateTypes'
    BY <1>2 DEF LockAndReadTime, limits, counts, RateSteps
  <1>3. ASSUME NEW c \in RateCallers,
               Load(c, "refill", "refill CAS") \/ Load(c, "take", "take CAS")
        PROVE  RateTypes'
    BY <1>3 DEF Load, limits, counts, RateSteps
  <1>4. ASSUME NEW c \in RateCallers, StoreRefill(c) PROVE RateTypes'
    <2>1. Refilled(c) \in Int
      <3>1. (read_time[c] - last_refill) \div 2 \in Int
        OBVIOUS
      <3>2. ((read_time[c] - last_refill) \div 2) * TokensPerRefill \in Int
        BY <3>1, RateAssumption
      <3> QED BY <3>2 DEF Refilled, AtMost, Interval
    <2> QED BY <1>4, <2>1 DEF StoreRefill, limits, counts, RateSteps
  <1>5. ASSUME NEW c \in RateCallers, Refuse(c) PROVE RateTypes'
    BY <1>5 DEF Refuse, limits, RateSteps
  <1>6. ASSUME NEW c \in RateCallers, TakeToken(c) PROVE RateTypes'
    <2>1. rate_pc' \in [RateCallers -> RateSteps]
      BY <1>6 DEF TakeToken, RateSteps
    <2>2. tokens' \in Int /\ taken' \in Nat
      <3>1. tokens \in Int /\ taken \in Nat
        OBVIOUS
      <3>2. \/ tokens' = tokens - 1 /\ taken' = taken + 1
            \/ tokens' = tokens /\ taken' = taken
        BY <1>6 DEF TakeToken
      <3> QED BY <3>1, <3>2
    <2>3. UNCHANGED <<burst_size, time, last_refill, allowed_count, read_time, loaded>>
      BY <1>6 DEF TakeToken, limits, counts
    <2> QED BY <2>1, <2>2, <2>3
  <1>7. ASSUME NEW c \in RateCallers, Allow(c) PROVE RateTypes'
    <2>1. rate_pc' \in [RateCallers -> RateSteps]
      BY <1>7 DEF Allow, RateSteps
    <2>2. allowed_count' \in Nat
      BY <1>7 DEF Allow
    <2>3. UNCHANGED <<burst_size, time, last_refill, tokens, taken, read_time, loaded>>
      BY <1>7 DEF Allow, limits
    <2> QED BY <2>1, <2>2, <2>3
  <1> QED BY <1>1, <1>2, <1>3, <1>4, <1>5, <1>6, <1>7 DEF RateNext

(* the clocks,                                                              *)
LEMMA TimeKeeps == ASSUME RateInv, RateNext PROVE TimeInv'
  <1> USE DEF RateInv, RateTypes, TimeInv
  <1>1. CASE TimePasses
    BY <1>1 DEF TimePasses
  <1>2. ASSUME NEW c \in RateCallers, LockAndReadTime(c) PROVE TimeInv'
    BY <1>2 DEF LockAndReadTime, limits
  <1>3. ASSUME NEW c \in RateCallers, StoreRefill(c) PROVE TimeInv'
    BY <1>3 DEF StoreRefill, limits
  <1>4. CASE UNCHANGED <<time, last_refill, read_time>>
    BY <1>4
  <1> QED BY <1>1, <1>2, <1>3, <1>4
             DEF RateNext, Load, Refuse, TakeToken, Allow, limits

(* the account of the tokens: a refill whose compare-and-swap fails loses   *)
(* its tokens but never grants more,                                        *)
LEMMA TokensKeep == ASSUME RateInv, RateNext PROVE TokensInv'
  <1> USE DEF RateInv, RateTypes, TokensInv
  <1>1. ASSUME NEW c \in RateCallers, StoreRefill(c) PROVE TokensInv'
    <2>1. CASE tokens # loaded[c]
      BY <1>1, <2>1 DEF StoreRefill, limits
    <2>2. CASE tokens = loaded[c]
      <3> DEFINE gain == ((read_time[c] - last_refill) \div 2) * TokensPerRefill
                 old == TokensPerRefill * (last_refill \div 2)
                 new == TokensPerRefill * (read_time[c] \div 2)
      <3>1. old + gain <= new
        BY RefillsAddUp, RateAssumption
      <3>2. old \in Int /\ gain \in Int /\ new \in Int
        BY RateAssumption
      <3>3. /\ tokens' = AtMost(burst_size, tokens + gain)
            /\ last_refill' = read_time[c]
            /\ burst_size' = burst_size /\ taken' = taken
        BY <1>1, <2>2 DEF StoreRefill, Refilled, Interval, limits
      <3>4. tokens + taken <= burst_size + old
        OBVIOUS
      <3> HIDE DEF gain, old, new
      <3>5. tokens' <= tokens + gain /\ tokens' \in Int
        BY <3>2, <3>3 DEF AtMost
      <3>6. tokens' + taken' <= burst_size' + new
        BY <3>1, <3>2, <3>3, <3>4, <3>5
      <3> QED BY <3>3, <3>6 DEF new
    <2> QED BY <2>1, <2>2
  <1>2. ASSUME NEW c \in RateCallers, TakeToken(c) PROVE TokensInv'
    <2>1. TokensPerRefill * (last_refill \div 2) \in Int
      BY RateAssumption
    <2>2. tokens' + taken' = tokens + taken
      <3>1. tokens \in Int /\ taken \in Nat
        OBVIOUS
      <3>2. \/ tokens' = tokens - 1 /\ taken' = taken + 1
            \/ tokens' = tokens /\ taken' = taken
        BY <1>2 DEF TakeToken
      <3> QED BY <3>1, <3>2
    <2>3. UNCHANGED <<burst_size, last_refill>>
      BY <1>2 DEF TakeToken, limits
    <2> QED BY <2>1, <2>2, <2>3
  <1>3. CASE UNCHANGED <<tokens, taken, burst_size, last_refill>>
    BY <1>3
  <1> QED BY <1>1, <1>2, <1>3
             DEF RateNext, TimePasses, LockAndReadTime, Load, Refuse, Allow,
                 limits

(* There are finitely many callers.                                         *)
LEMMA AllowedIsFinite == IsFiniteSet(Allowed) /\ Cardinality(Allowed) \in Nat
  BY RateAssumption, FS_Subset, FS_CardinalityType DEF Allowed

(* and the account of the records let through.                              *)
LEMMA TakenKeeps == ASSUME RateInv, RateNext PROVE TakenInv'
  <1> USE DEF RateInv, RateTypes
  <1>0. /\ taken \in Nat /\ allowed_count \in Nat
        /\ taken = allowed_count + Cardinality(Allowed)
    BY DEF TakenInv
  <1>1. ASSUME NEW c \in RateCallers, TakeToken(c), tokens = loaded[c]
        PROVE  TakenInv'
    <2>1. Allowed' = Allowed \cup {c} /\ c \notin Allowed
      BY <1>1 DEF TakeToken, Allowed
    <2>2. Cardinality(Allowed') = Cardinality(Allowed) + 1
      BY <2>1, AllowedIsFinite, FS_AddElement
    <2>3. taken' = taken + 1 /\ allowed_count' = allowed_count
      BY <1>1 DEF TakeToken, counts
    <2> QED BY <1>0, <2>2, <2>3, AllowedIsFinite DEF TakenInv
  <1>2. ASSUME NEW c \in RateCallers, Allow(c) PROVE TakenInv'
    <2>1. Allowed' = Allowed \ {c} /\ c \in Allowed
      BY <1>2 DEF Allow, Allowed
    <2>2. Cardinality(Allowed') = Cardinality(Allowed) - 1
      BY <2>1, AllowedIsFinite, FS_RemoveElement
    <2>3. taken' = taken /\ allowed_count' = allowed_count + 1
      BY <1>2 DEF Allow
    <2> QED BY <1>0, <2>2, <2>3, AllowedIsFinite DEF TakenInv
  <1>3. CASE UNCHANGED <<taken, allowed_count>> /\ Allowed' = Allowed
    BY <1>0, <1>3 DEF TakenInv
  <1>4. CASE TimePasses
    BY <1>3, <1>4 DEF TimePasses, counts, Allowed
  <1>5. ASSUME NEW c \in RateCallers,
               \/ LockAndReadTime(c) \/ Load(c, "refill", "refill CAS")
               \/ StoreRefill(c) \/ Load(c, "take", "take CAS") \/ Refuse(c)
               \/ TakeToken(c) /\ tokens # loaded[c]
        PROVE  TakenInv'
    <2>1. UNCHANGED <<taken, allowed_count>>
      BY <1>5 DEF LockAndReadTime, Load, StoreRefill, Refuse, TakeToken, counts
    <2>2. /\ rate_pc' = [rate_pc EXCEPT ![c] = rate_pc'[c]]
          /\ rate_pc[c] # "allowed" /\ rate_pc'[c] # "allowed"
      BY <1>5 DEF LockAndReadTime, Load, StoreRefill, Refuse, TakeToken
    <2>3. Allowed' = Allowed
      BY <2>2 DEF Allowed
    <2> QED BY <1>3, <2>1, <2>3
  <1> QED BY <1>1, <1>2, <1>4, <1>5 DEF RateNext

(* Together: the invariant is inductive.                                    *)
LEMMA RateStepKeeps == ASSUME RateInv, [RateNext]_ratevars PROVE RateInv'
  <1>1. CASE RateNext
    BY <1>1, RateTypesKeep, TimeKeeps, TokensKeep, TakenKeeps DEF RateInv
  <1>2. CASE UNCHANGED ratevars
    BY <1>2
       DEF ratevars, limits, counts, RateInv, RateTypes, TimeInv, TokensInv,
           TakenInv, Allowed
  <1> QED BY <1>1, <1>2

(* It bounds what has been let through.                                     *)
LEMMA RateInvBounds == RateInv => RateIsBounded
  <1> SUFFICES ASSUME RateInv PROVE RateIsBounded
    OBVIOUS
  <1> USE RateAssumption DEF RateInv, RateTypes
  <1>1. allowed_count <= taken
    BY AllowedIsFinite DEF TakenInv
  <1>2. TokensPerRefill * (last_refill \div 2) <= TokensPerRefill * (time \div 2)
    BY RefillsGrow DEF TimeInv
  <1>3. tokens + taken <= burst_size + TokensPerRefill * (time \div 2)
    <2>1. /\ TokensPerRefill * (last_refill \div 2) \in Int
          /\ TokensPerRefill * (time \div 2) \in Int
      OBVIOUS
    <2> QED BY <1>2, <2>1 DEF TokensInv
  <1> QED BY <1>1, <1>3 DEF RateIsBounded, Interval

(* The rate limiter never lets more records through than its burst and the  *)
(* tokens of the time that has passed, however its callers interleave.      *)
THEOREM RateKeeps == RateSpec => []RateIsBounded
  <1> QED BY RateInitHolds, RateStepKeeps, RateInvBounds, PTL DEF RateSpec

(***************************************************************************)
(* Circuit breaker (CircuitBreaker)                                        *)
(*                                                                         *)
(* The probes let through and those that remain are at most the configured *)
(* number.                                                                 *)
(***************************************************************************)

(* The state word and the probe counters.                                   *)
BreakerTypes ==
  /\ circuit \in {"Closed", "Open", "HalfOpen"}
  /\ probes_remaining \in Nat /\ probes \in Nat

(* The bound on the probes is inductive with the types.                     *)
BreakerInv == BreakerTypes /\ ProbesAreBounded

(* Every step of the breaker keeps it.                                      *)
LEMMA BreakerStepKeeps ==
  ASSUME BreakerInv, [BreakerNext]_breakervars PROVE BreakerInv'
  <1> USE DEF BreakerInv, BreakerTypes, ProbesAreBounded, Goes
  <1>1. ASSUME NEW c \in Callers, HalfOpen(c) PROVE BreakerInv'
    BY <1>1, BreakerAssumption DEF HalfOpen
  <1>2. ASSUME NEW c \in Callers, Probe(c) PROVE BreakerInv'
    <2>1. probes' = probes + 1 /\ probes_remaining' = probes_remaining - 1
      BY <1>2 DEF Probe
    <2>2. probes_remaining > 0 /\ circuit' = circuit /\ circuit = "HalfOpen"
      BY <1>2 DEF Probe
    <2> QED BY <2>1, <2>2, BreakerAssumption
  <1>3. ASSUME NEW c \in Callers, ReportSuccess(c) PROVE BreakerInv'
    BY <1>3 DEF ReportSuccess
  <1>4. ASSUME NEW c \in Callers, ReportFailure(c) PROVE BreakerInv'
    BY <1>4 DEF ReportFailure
  <1>5. ASSUME NEW c \in Callers, EndReset(c) PROVE BreakerInv'
    BY <1>5 DEF EndReset
  <1>6. ASSUME UNCHANGED <<circuit, probes_remaining, probes>>
        PROVE  BreakerInv'
    BY <1>6
  <1> QED BY <1>1, <1>2, <1>3, <1>4, <1>5, <1>6
             DEF BreakerNext, Request, Report, TimeoutElapses, Admit, Succeed,
                 Fail, BeginReset, breakervars

(* A half-open circuit lets no more than half_open_max_requests probes      *)
(* through before it decides, for any number of callers.                    *)
THEOREM ProbesKeep == BreakerSpec => []ProbesAreBounded
  <1>1. BreakerInit => BreakerInv
    BY DEF BreakerInit, BreakerInv, BreakerTypes, ProbesAreBounded
  <1>2. BreakerInv => ProbesAreBounded
    BY DEF BreakerInv
  <1> QED BY <1>1, <1>2, BreakerStepKeeps, PTL DEF BreakerSpec

(***************************************************************************)
(* Backpressure (Backpressure)                                             *)
(*                                                                         *)
(* The time stamp of the overload and the overload itself, related through *)
(* what the one checker is about to do.                                    *)
(***************************************************************************)

(* The fill level, the emergency flag, and what a checker has read.         *)
PressureTypes ==
  /\ fill \in Nat /\ emergency \in BOOLEAN
  /\ since \in {"none", "fresh", "old"} /\ overload \in {"none", "fresh", "old"}
  /\ check \in [Checkers -> [pc : {"idle", "decide", "forget"}, fill : Nat,
                             emergency : BOOLEAN]]

(* A checker that has read the ring below 95%, or ended an emergency, is on *)
(* its way to clear the time stamp.                                        *)
Clears(c) ==
  check[c].pc = "forget" \/ (check[c].pc = "decide" /\ check[c].fill < 950)

(* A time stamp that is fresh or old stands for an overload at least as     *)
(* old, unless the checker is about to clear it.                            *)
StampInv ==
  \A c \in Checkers :
    /\ since = "old" => overload = "old" \/ Clears(c)
    /\ since = "fresh" => overload # "none" \/ Clears(c)
    /\ check[c].pc = "decide" /\ check[c].fill > 950 => overload # "none"

PressureInv == PressureTypes /\ StampInv

(* The record of a checker after its decision.                              *)
LEMMA DecidesTyped ==
  ASSUME PressureTypes, NEW c \in Checkers, NEW to \in {"idle", "forget"}, Decides(c, to)
  PROVE  /\ check' \in [Checkers -> [pc : {"idle", "decide", "forget"}, fill : Nat,
                                     emergency : BOOLEAN]]
         /\ check'[c].pc = to /\ check'[c].fill = check[c].fill
         /\ check[c].pc = "decide" /\ overload' = overload /\ fill' = fill
  <1> DEFINE state == [check[c] EXCEPT !.pc = to]
  <1>1. /\ state \in [pc : {"idle", "decide", "forget"}, fill : Nat, emergency : BOOLEAN]
        /\ state.pc = to /\ state.fill = check[c].fill
    BY DEF PressureTypes
  <1>2. check' = [check EXCEPT ![c] = state]
    BY DEF Decides
  <1> HIDE DEF state
  <1> QED BY <1>1, <1>2 DEF Decides, PressureTypes

(* With one thread that checks, every step keeps the invariant.             *)
LEMMA PressureStepKeeps ==
  ASSUME NEW c, Checkers = {c}, PressureInv, [PressureNext]_pressurevars
  PROVE  PressureInv'
  <1> USE DEF PressureInv
  <1>1. ASSUME NEW ratio \in Fills, NEW level \in RecordLevels, Evaluate(ratio, level)
        PROVE  PressureInv'
    BY <1>1, PressureAssumption DEF Evaluate, PressureTypes, StampInv, Clears
  <1>2. CASE FiveSecondsPass
    BY <1>2 DEF FiveSecondsPass, PressureTypes, StampInv, Clears
  <1>3. CASE ReadLevel(c)
    <2> DEFINE state == [pc |-> "decide", fill |-> fill, emergency |-> emergency]
    <2>1. /\ check[c].pc = "idle" /\ check' = [check EXCEPT ![c] = state]
          /\ UNCHANGED <<fill, emergency, since>>
          /\ overload' = IF fill < 950 THEN "none"
                 ELSE IF fill > 950 /\ overload = "none" THEN "fresh"
                 ELSE overload
      BY <1>3 DEF ReadLevel
    <2>2. check'[c].pc = "decide" /\ check'[c].fill = fill
      BY <2>1 DEF PressureTypes
    <2>3. PressureTypes'
      BY <2>1 DEF PressureTypes
    <2>4. /\ since = "old" => overload = "old"
          /\ since = "fresh" => overload # "none"
      BY <2>1 DEF StampInv, Clears
    <2>5. fill \in Nat
      BY DEF PressureTypes
    <2> QED BY <2>1, <2>2, <2>3, <2>4, <2>5 DEF StampInv, Clears
  <1>4. CASE Overloaded(c)
    <2>1. /\ check'[c].pc = "idle" /\ check[c].pc = "decide"
          /\ check[c].fill > 950
          /\ PressureTypes' /\ overload' = overload
          /\ since' = since \/ (since' = "fresh" /\ since = "none")
      BY <1>4, DecidesTyped DEF Overloaded, PressureTypes
    <2>2. overload # "none" /\ check[c].fill \in Nat
      BY <2>1 DEF StampInv, PressureTypes
    <2>3. since = "old" => overload = "old"
      BY <2>1, <2>2 DEF StampInv, Clears
    <2> QED BY <2>1, <2>2, <2>3 DEF StampInv
  <1>5. CASE Recover(c)
    <2>1. /\ check'[c].pc = "forget" /\ PressureTypes' 
      BY <1>5, DecidesTyped DEF Recover, PressureTypes
    <2> QED BY <2>1 DEF StampInv, Clears
  <1>6. CASE ForgetOverload(c)
    <2> DEFINE state == [check[c] EXCEPT !.pc = "idle"]
    <2>1. state \in [pc : {"idle", "decide", "forget"}, fill : Nat, emergency : BOOLEAN]
          /\ state.pc = "idle"
      BY DEF PressureTypes
    <2>2. /\ check' = [check EXCEPT ![c] = state] /\ since' = "none"
          /\ UNCHANGED <<fill, emergency, overload>>
      BY <1>6 DEF ForgetOverload
    <2> HIDE DEF state
    <2>3. PressureTypes' /\ check'[c].pc = "idle"
      BY <2>1, <2>2 DEF PressureTypes
    <2> QED BY <2>2, <2>3 DEF StampInv
  <1>7. CASE Relieved(c)
    <2>1. /\ check'[c].pc = "idle" /\ check[c].pc = "decide"
          /\ check[c].fill <= 950
          /\ PressureTypes' /\ overload' = overload
          /\ since' = IF check[c].fill < 950 THEN "none" ELSE since
      BY <1>7, DecidesTyped DEF Relieved, PressureTypes
    <2>2. check[c].fill >= 950 => ~Clears(c)
      BY <2>1 DEF Clears, PressureTypes
    <2>3. check[c].fill \in Nat
      BY DEF PressureTypes
    <2> QED BY <2>1, <2>2, <2>3 DEF StampInv
  <1>8. CASE UNCHANGED pressurevars
    BY <1>8 DEF pressurevars, PressureTypes, StampInv, Clears
  <1> QED BY <1>1, <1>2, <1>3, <1>4, <1>5, <1>6, <1>7, <1>8
             DEF PressureNext, CheckEmergency

(* The step that enters the emergency finds the ring overloaded for five    *)
(* seconds.                                                                 *)
LEMMA EmergencyStep ==
  ASSUME NEW c, Checkers = {c}, PressureInv, [PressureNext]_pressurevars,
         ~emergency, emergency'
  PROVE  overload = "old"
  <1>1. Overloaded(c) /\ since = "old"
    <2>1. CASE \E ratio \in Fills, level \in RecordLevels : Evaluate(ratio, level)
      BY <2>1 DEF Evaluate
    <2>2. CASE FiveSecondsPass
      BY <2>2 DEF FiveSecondsPass
    <2>3. CASE CheckEmergency(c)
      <3>1. ~ReadLevel(c) /\ ~Recover(c) /\ ~ForgetOverload(c) /\ ~Relieved(c)
        BY DEF ReadLevel, Recover, ForgetOverload, Relieved
      <3> QED BY <2>3, <3>1 DEF CheckEmergency, Overloaded
    <2>4. CASE UNCHANGED pressurevars
      BY <2>4 DEF pressurevars
    <2> QED BY <2>1, <2>2, <2>3, <2>4 DEF PressureNext
  <1>2. check[c].pc = "decide" /\ check[c].fill > 950 /\ check[c].fill \in Nat
    BY <1>1 DEF Overloaded, Decides, PressureInv, PressureTypes
  <1> QED BY <1>1, <1>2 DEF PressureInv, StampInv, Clears

(* With one thread that polls check_emergency, emergency mode begins only   *)
(* after the ring has been above 95% for five seconds without a reading     *)
(* below. (With two it may begin on a stamp the other one left.)            *)
THEOREM EmergencyIsJustified ==
  ASSUME NEW c, Checkers = {c} PROVE PressureSpec => EmergencyIsEarned
  <1>1. PressureInit => PressureInv
    <2> SUFFICES ASSUME PressureInit PROVE PressureInv
      OBVIOUS
    <2>1. PressureTypes
      BY DEF PressureInit, PressureTypes
    <2>2. StampInv
      BY DEF PressureInit, StampInv
    <2> QED BY <2>1, <2>2 DEF PressureInv
  <1>2. PressureInv /\ [PressureNext]_pressurevars => PressureInv'
    BY PressureStepKeeps
  <1>3. PressureInv /\ [PressureNext]_pressurevars
          => [~emergency /\ emergency' => overload = "old"]_pressurevars
    BY EmergencyStep
  <1> QED BY <1>1, <1>2, <1>3, PTL DEF PressureSpec, EmergencyIsEarned

(***************************************************************************)
(* Shared memory region (ShmRegion)                                        *)
(*                                                                         *)
(* The header of a region follows the life of its sink.                    *)
(***************************************************************************)

Fresh == {"new", "created"}

(* The thread runs only while the sink is open, and the header of a region  *)
(* follows its sink.                                                       *)
RegionInv ==
  /\ process \in Processes
  /\ header \in [Processes -> {Zeroed, Alive, Dead}]
  /\ \A p \in Processes : p > process => header[p] = Zeroed
  /\ sink \in Fresh => header[process] = Zeroed
  /\ sink = "open" => header[process] = Alive
  /\ sink \in {"marked", "shut"} => header[process] = Dead
  /\ sink = "closed" => header[process] \in {Zeroed, Dead}
  /\ sink \in {"created", "open"} /\ running => mapped
  /\ consumer # "joined" => sink = "open" /\ running

(* Steps that leave the headers, the process and the sink alone.            *)
LEMMA OtherSteps ==
  ASSUME RegionInv, UNCHANGED <<header, process, running, sink, mapped>>,
         consumer' # "joined" => sink = "open" /\ running
  PROVE  RegionInv'
  BY DEF RegionInv, Fresh

(* The consumer thread never writes to a region that is unmapped or marked  *)
(* dead (Engine::shutdown joins it before ShmSink::close), and a region    *)
(* closed in order is marked so, with any number of restarts.              *)
THEOREM WriterIsJoined == ShmRegionSpec => []NoWriterRacesTheClose
  <1>1. ShmRegionInit => RegionInv
    BY ProcessAssumption
       DEF ShmRegionInit, RegionInv, Processes, Fresh, Zeroed, Alive, Dead
  <1>2. RegionInv /\ [ShmRegionNext]_regionvars => RegionInv'
    <2> SUFFICES ASSUME RegionInv, [ShmRegionNext]_regionvars PROVE RegionInv'
      OBVIOUS
    <2> USE DEF Processes, Fresh, Zeroed, Alive, Dead
    <2>1. CASE CreateRegion
      BY <2>1 DEF CreateRegion, SinkStep, RegionInv
    <2>2. CASE OpenFails
      BY <2>2 DEF OpenFails, SinkStep, RegionInv
    <2>3. CASE InitHeader
      BY <2>3 DEF InitHeader, SinkStep, RegionInv
    <2>4. CASE BeginWrite
      BY <2>4, OtherSteps DEF BeginWrite, SinkStep, RegionInv
    <2>5. CASE EndWrite
      BY <2>5, OtherSteps DEF EndWrite, SinkStep, RegionInv
    <2>6. CASE JoinPipeline
      BY <2>6, OtherSteps DEF JoinPipeline, SinkStep, RegionInv
    <2>7. CASE MarkDead
      BY <2>7 DEF MarkDead, SinkStep, RegionInv
    <2>8. CASE SetClosed
      BY <2>8 DEF SetClosed, SinkStep, RegionInv
    <2>9. CASE DropMapping
      BY <2>9 DEF DropMapping, SinkStep, RegionInv
    <2>10. CASE Exit
      BY <2>10 DEF Exit, RegionInv
    <2>11. CASE Restart
      BY <2>11, ProcessAssumption DEF Restart, RegionInv
    <2>12. CASE ToolReads
      BY <2>12, OtherSteps DEF ToolReads, RegionInv
    <2>13. CASE ToolUnlinks
      BY <2>13, OtherSteps DEF ToolUnlinks, RegionInv
    <2>14. CASE UNCHANGED regionvars
      BY <2>14, OtherSteps DEF regionvars, RegionInv
    <2> QED BY <2>1, <2>2, <2>3, <2>4, <2>5, <2>6, <2>7, <2>8, <2>9, <2>10,
               <2>11, <2>12, <2>13, <2>14
               DEF ShmRegionNext
  <1>3. RegionInv => NoWriterRacesTheClose
    BY DEF RegionInv, NoWriterRacesTheClose, Fresh, Zeroed, Alive, Dead
  <1> QED BY <1>1, <1>2, <1>3, PTL DEF ShmRegionSpec

(***************************************************************************)
(* Plugin dependencies (DependencyCheck)                                   *)
(*                                                                         *)
(* The invariant of the depth-first search: as long as no cycle was met,   *)
(* the plugins it has finished with depend only on such plugins, and no set*)
(* of them waits for each other.                                           *)
(***************************************************************************)

(* The plugins of path, and those the search has finished with.             *)
OnPath == {path[i] : i \in 1..Len(path)}
Finished == visited \ OnPath

(* The members of K wait for each other.                                    *)
Knot(K) == K # {} /\ \A p \in K : \E q \in K : Needs(p, q)

(* The variables are what detect_cycles declares, and the path and the      *)
(* iterators over neighbours have the same depth.                           *)
SearchTypes ==
  /\ requires \in [Plugins -> SUBSET (Plugins \cup {Unprovided})]
  /\ visited \subseteq Plugins
  /\ path \in Seq(Plugins) /\ unexplored \in Seq(SUBSET Plugins)
  /\ Len(unexplored) = Len(path)

(* The search stands on one simple path of dependencies.                    *)
PathInv ==
  /\ OnPath \subseteq visited
  /\ \A i, j \in 1..Len(path) : path[i] = path[j] => i = j
  /\ \A i \in 1..Len(path) : i + 1 \in 1..Len(path) => path[i + 1] \in DependsOn(path[i])
  /\ \A i \in 1..Len(path) : unexplored[i] \subseteq DependsOn(path[i])

(* Until a cycle is met, a plugin the search has finished with depends only *)
(* on such plugins, and none of them wait for each other.                   *)
FinishedInv ==
  /\ \A p \in Finished : DependsOn(p) \subseteq Finished
  /\ \A K \in SUBSET Finished : ~Knot(K)
  /\ \A i \in 1..Len(path) : \A q \in DependsOn(path[i]) \ unexplored[i] :
       q \in Finished \/ (i + 1 \in 1..Len(path) /\ q = path[i + 1])

(* A chain reported is a cycle.                                             *)
ChainsInv ==
  \A chain \in cycles :
    /\ chain \in Seq(Plugins) /\ chain # <<>>
    /\ \A i \in 1..Len(chain) : Needs(chain[i], chain[IF i = Len(chain) THEN 1 ELSE i + 1])

(* The invariant of the search.                                             *)
DependencyInv ==
  /\ SearchTypes /\ PathInv /\ ChainsInv
  /\ cycles = {} => FinishedInv

(* The edges of the graph are the needs between plugins.                    *)
LEMMA NeedsIsDependsOn ==
  ASSUME SearchTypes, NEW p \in Plugins, NEW q \in Plugins
  PROVE  Needs(p, q) <=> q \in DependsOn(p)
  BY DEF Needs, DependsOn, SearchTypes

(* An edge leads to another plugin.                                         *)
LEMMA DependsOnPlugins ==
  ASSUME NEW p PROVE DependsOn(p) \subseteq Plugins /\ p \notin DependsOn(p)
  BY DEF DependsOn

(* When the search has ended, the invariant says that it found a cycle      *)
(* exactly if there is one.                                                 *)
LEMMA CyclesAreRight ==
  ASSUME DependencyInv PROVE CyclesAreFound
  <1> USE DEF DependencyInv
  <1>1. \A chain \in cycles :
          \A i \in DOMAIN chain : Needs(chain[i], chain[IF i = Len(chain) THEN 1 ELSE i + 1])
    BY DEF ChainsInv
  <1>2. ASSUME path = <<>>, \A p \in Plugins \ visited : DependsOn(p) = {}
        PROVE  satisfied <=>
                 /\ \A p \in Plugins : requires[p] \subseteq Plugins
                 /\ \A S \in (SUBSET Plugins) \ {{}} : \E p \in S : \A q \in S : ~Needs(p, q)
    <2>1. missing_required = {} <=> \A p \in Plugins : requires[p] \subseteq Plugins
      BY DependencyAssumption DEF missing_required, SearchTypes
    <2>2. ASSUME cycles = {}, NEW S \in (SUBSET Plugins) \ {{}}
          PROVE  \E p \in S : \A q \in S : ~Needs(p, q)
      <3>1. SUFFICES ASSUME Knot(S) PROVE FALSE
        <4>1. S # {}
          OBVIOUS
        <4> QED BY <4>1, Zenon DEF Knot
      <3>2. S \subseteq visited
        BY <3>1, <1>2, NeedsIsDependsOn DEF Knot
      <3>3. Finished = visited
        BY <1>2 DEF Finished, OnPath
      <3> QED BY <2>2, <3>1, <3>2, <3>3 DEF FinishedInv
    <2>3. ASSUME NEW chain \in cycles
          PROVE  \E S \in (SUBSET Plugins) \ {{}} : Knot(S)
      <3> DEFINE S == {chain[i] : i \in 1..Len(chain)}
      <3>1. /\ chain \in Seq(Plugins) /\ chain # <<>> /\ Len(chain) \in Nat
            /\ Len(chain) > 0
        BY EmptySeq, LenProperties DEF ChainsInv
      <3>2. S \in (SUBSET Plugins) \ {{}}
        <4>1. \A i \in 1..Len(chain) : chain[i] \in Plugins
          BY <3>1, ElementOfSeq
        <4>2. 1 \in 1..Len(chain)
          BY <3>1
        <4>3. chain[1] \in S
          BY <4>2
        <4> QED BY <4>1, <4>3
      <3>3. ASSUME NEW i \in 1..Len(chain)
            PROVE  \E q \in S : Needs(chain[i], q)
        <4>1. (IF i = Len(chain) THEN 1 ELSE i + 1) \in 1..Len(chain)
          BY <3>1
        <4>2. Needs(chain[i], chain[IF i = Len(chain) THEN 1 ELSE i + 1])
          BY DEF ChainsInv
        <4> QED BY <4>1, <4>2
      <3>4. Knot(S)
        <4>1. S # {}
          BY <3>2
        <4>2. \A p \in S : \E q \in S : Needs(p, q)
          BY <3>3
        <4> QED BY <4>1, <4>2 DEF Knot
      <3> QED BY <3>2, <3>4
    <2>4. satisfied <=> missing_required = {} /\ cycles = {}
      BY DEF satisfied
    <2>5. (\E S \in (SUBSET Plugins) \ {{}} : Knot(S))
            => ~ \A S \in (SUBSET Plugins) \ {{}} : \E p \in S : \A q \in S : ~Needs(p, q)
      BY DEF Knot
    <2> QED BY <2>1, <2>2, <2>3, <2>4, <2>5
  <1> QED BY <1>1, <1>2 DEF CyclesAreFound

(* A plugin enters the path: its path is one longer, and what was on it     *)
(* stays where it was.                                                      *)
LEMMA EnterKeeps ==
  ASSUME SearchTypes, PathInv, NEW n \in Plugins, n \notin visited, DependencyInv,
         NEW rest \in Seq(SUBSET Plugins), Len(rest) = Len(path),
         \A i \in 1..Len(path) : rest[i] \subseteq unexplored[i],
         \A i \in 1..Len(path) : i # Len(path) => rest[i] = unexplored[i],
         path # <<>> => unexplored[Len(path)] \ rest[Len(path)] = {n} ,
         path # <<>> => n \in DependsOn(path[Len(path)]),
         visited' = visited \cup {n}, path' = Append(path, n),
         unexplored' = Append(rest, DependsOn(n)),
         UNCHANGED <<requires, cycles>>
  PROVE  DependencyInv'
  <1> DEFINE N == Len(path)
  <1>1. N \in Nat /\ path \in [1..N -> Plugins]
    BY LenProperties DEF SearchTypes
  <1>2. /\ path' \in Seq(Plugins) /\ Len(path') = N + 1
        /\ \A i \in 1..N : path'[i] = path[i]
        /\ path'[N + 1] = n
    BY AppendProperties DEF SearchTypes
  <1>3. /\ unexplored' \in Seq(SUBSET Plugins) /\ Len(unexplored') = N + 1
        /\ \A i \in 1..N : unexplored'[i] = rest[i]
        /\ unexplored'[N + 1] = DependsOn(n)
    <2>1. DependsOn(n) \in SUBSET Plugins
      BY DependsOnPlugins
    <2> QED BY <2>1, AppendProperties
  <1>4. \A p : DependsOn(p)' = DependsOn(p)
    BY DEF DependsOn
  <1>5. SearchTypes'
    BY <1>2, <1>3 DEF SearchTypes
  <1>6. \A i \in 1..N + 1 : i \in 1..N \/ i = N + 1
    BY <1>1
  <1>7. N + 1 \notin 1..N /\ 1..N \subseteq 1..N + 1 /\ N + 1 \in 1..N + 1
    BY <1>1
  <1>8. OnPath' = OnPath \cup {n}
    BY <1>2, <1>6, <1>7 DEF OnPath
  <1>9. n \notin OnPath
    BY DEF PathInv
  <1>10. \A i \in 1..N : path[i] \in OnPath
    BY DEF OnPath
  <1>11. PathInv'
    <2>1. OnPath' \subseteq visited'
      BY <1>8 DEF PathInv
    <2>2. ASSUME NEW i \in 1..N + 1, NEW j \in 1..N + 1, path'[i] = path'[j]
          PROVE  i = j
      BY <2>2, <1>2, <1>6, <1>9, <1>10 DEF PathInv
    <2>3. ASSUME NEW i \in 1..N + 1, i + 1 \in 1..N + 1
          PROVE  path'[i + 1] \in DependsOn(path'[i])
      <3>1. CASE i + 1 \in 1..N
        <4>1. i \in 1..N
          BY <3>1, <1>1
        <4> QED BY <3>1, <4>1, <1>2 DEF PathInv
      <3>2. CASE i = N
        <4>1. path # <<>> /\ i \in 1..N
          BY <3>2, <1>1, EmptySeq DEF SearchTypes
        <4> QED BY <3>2, <4>1, <1>2
      <3> QED BY <3>1, <3>2, <2>3, <1>1
    <2>4. ASSUME NEW i \in 1..N + 1
          PROVE  unexplored'[i] \subseteq DependsOn(path'[i])
      BY <1>2, <1>3, <1>6 DEF PathInv
    <2> QED BY <2>1, <2>2, <2>3, <2>4, <1>2, <1>4 DEF PathInv
  <1>12. Finished' = Finished
    BY <1>8 DEF Finished, PathInv
  <1>13. ChainsInv'
    BY DEF ChainsInv, Needs, DependencyInv
  <1>14. ASSUME cycles' = {} PROVE FinishedInv'
    <2>1. FinishedInv
      BY <1>14 DEF DependencyInv
    <2>2. \A p \in Finished' : DependsOn(p)' \subseteq Finished'
      BY <2>1, <1>12, <1>4 DEF FinishedInv
    <2>3. \A K \in SUBSET Finished' : ~Knot(K)'
      BY <2>1, <1>12 DEF FinishedInv, Knot, Needs
    <2>4. ASSUME NEW i \in 1..N + 1, NEW q \in DependsOn(path'[i]) \ unexplored'[i]
          PROVE  q \in Finished \/ (i + 1 \in 1..N + 1 /\ q = path'[i + 1])
      <3>1. CASE i = N + 1
        BY <3>1, <1>2, <1>3
      <3>2. CASE i \in 1..N /\ i # N
        <4>1. i + 1 \in 1..N /\ i + 1 \in 1..N + 1
          BY <3>2, <1>1
        <4>2. q \in DependsOn(path[i]) \ unexplored[i]
          BY <3>2, <1>2, <1>3
        <4>3. q \in Finished \/ q = path[i + 1]
          BY <3>2, <4>2, <2>1 DEF FinishedInv
        <4> QED BY <4>1, <4>3, <1>2
      <3>3. CASE i \in 1..N /\ i = N
        <4>1. path # <<>>
          BY <3>3, <1>1, EmptySeq DEF SearchTypes
        <4>2. i + 1 \notin 1..N
          BY <3>3, <1>1
        <4>3. q \in (DependsOn(path[i]) \ unexplored[i]) \cup {n}
          BY <3>3, <4>1, <1>2, <1>3
        <4>4. q \in Finished \/ q = n
          BY <3>3, <4>2, <4>3, <2>1 DEF FinishedInv
        <4> QED BY <3>3, <4>4, <1>2, <1>7
      <3> QED BY <3>1, <3>2, <3>3, <1>6
    <2> QED BY <2>2, <2>3, <2>4, <1>2, <1>4, <1>12 DEF FinishedInv
  <1> QED BY <1>5, <1>11, <1>13, <1>14 DEF DependencyInv

(* A search from a new root keeps the invariant.                            *)
LEMMA RootKeeps ==
  ASSUME DependencyInv, Root PROVE DependencyInv'
  <1>1. PICK n \in Plugins \ visited : Enter(n)
    BY DEF Root
  <1>2. path = <<>> /\ UNCHANGED <<requires, cycles>>
    BY DEF Root
  <1>3. SearchTypes /\ PathInv
    BY DEF DependencyInv
  <1>4. Len(path) = 0 /\ 1..Len(path) = {}
    BY <1>2
  <1> QED BY <1>1, <1>2, <1>3, <1>4, EnterKeeps DEF Enter, SearchTypes

(* The neighbours under way are those of the last plugin of the path.       *)
LEMMA TheLastNeighbours ==
  ASSUME SearchTypes, NEW n \in Neighbours
  PROVE  /\ path # <<>> /\ Len(path) \in Nat /\ Len(path) \in 1..Len(path)
         /\ Neighbours = unexplored[Len(path)]
         /\ Looked(n) = [unexplored EXCEPT ![Len(path)] = unexplored[Len(path)] \ {n}]
         /\ Looked(n) \in Seq(SUBSET Plugins) /\ Len(Looked(n)) = Len(path)
         /\ \A i \in 1..Len(path) :
              Looked(n)[i] = IF i = Len(path) THEN unexplored[i] \ {n} ELSE unexplored[i]
  <1>1. path # <<>> /\ Neighbours = unexplored[Len(path)]
    BY DEF Neighbours, Last, SearchTypes
  <1>2. Len(path) \in Nat /\ Len(path) \in 1..Len(path)
    BY <1>1, EmptySeq, LenProperties DEF SearchTypes
  <1>3. Looked(n) = [unexplored EXCEPT ![Len(path)] = unexplored[Len(path)] \ {n}]
    BY DEF Looked, ReplaceAt, Last, SearchTypes
  <1>4. unexplored[Len(path)] \ {n} \in SUBSET Plugins
    BY <1>2, ElementOfSeq DEF SearchTypes
  <1>5. Len(unexplored) = Len(path) /\ unexplored \in Seq(SUBSET Plugins)
    BY DEF SearchTypes
  <1>6. /\ Looked(n) \in Seq(SUBSET Plugins) /\ Len(Looked(n)) = Len(path)
        /\ \A i \in 1..Len(path) :
             Looked(n)[i] = IF i = Len(path) THEN unexplored[Len(path)] \ {n} ELSE unexplored[i]
    BY <1>2, <1>3, <1>4, <1>5, ExceptSeq
  <1> QED BY <1>1, <1>2, <1>3, <1>6

(* So does a descent to a plugin not visited before,                        *)
LEMMA DescendKeeps ==
  ASSUME DependencyInv, Descend PROVE DependencyInv'
  <1>1. PICK n \in Neighbours :
          /\ n \notin visited
          /\ visited' = visited \cup {n}
          /\ path' = Append(path, n)
          /\ unexplored' = Append(Looked(n), DependsOn(n))
    BY DEF Descend
  <1>2. UNCHANGED <<requires, cycles>>
    BY DEF Descend
  <1>3. SearchTypes /\ PathInv
    BY DEF DependencyInv
  <1>4. n \in DependsOn(path[Len(path)]) /\ n \in Plugins
    BY <1>3, TheLastNeighbours, DependsOnPlugins DEF PathInv
  <1>5. unexplored[Len(path)] \ Looked(n)[Len(path)] = {n}
    BY <1>3, TheLastNeighbours
  <1> QED BY <1>1, <1>2, <1>3, <1>4, <1>5, TheLastNeighbours, EnterKeeps

(* the meeting of one visited before: on the path it closes a cycle, off    *)
(* the path it is finished,                                                 *)
LEMMA MeetKeeps ==
  ASSUME DependencyInv, Meet PROVE DependencyInv'
  <1> DEFINE N == Len(path)
  <1>1. PICK n \in Neighbours :
          /\ n \in visited
          /\ unexplored' = Looked(n)
          /\ cycles' = IF Contains(path, n)
                       THEN cycles \cup {SubSeq(path, Position(n), Len(path))}
                       ELSE cycles
    BY DEF Meet
  <1>2. UNCHANGED <<requires, visited, path>>
    BY DEF Meet
  <1>3. SearchTypes /\ PathInv /\ ChainsInv
    BY DEF DependencyInv
  <1>4. /\ N \in Nat /\ N \in 1..N /\ N + 1 \notin 1..N
        /\ unexplored' \in Seq(SUBSET Plugins) /\ Len(unexplored') = N
        /\ \A i \in 1..N :
             unexplored'[i] = IF i = N THEN unexplored[i] \ {n} ELSE unexplored[i]
    <2>1. N \in Nat /\ N \in 1..N
      BY <1>3, TheLastNeighbours
    <2>2. N + 1 \notin 1..N
      BY <2>1
    <2> QED BY <1>1, <1>3, <2>1, <2>2, TheLastNeighbours
  <1>5. n \in DependsOn(path[N]) /\ n \in Plugins
    BY <1>3, TheLastNeighbours, DependsOnPlugins DEF PathInv
  <1>6. \A p : DependsOn(p)' = DependsOn(p)
    BY <1>2 DEF DependsOn
  <1>7. OnPath' = OnPath /\ Finished' = Finished
    BY <1>2 DEF OnPath, Finished
  <1>8. SearchTypes'
    BY <1>2, <1>3, <1>4 DEF SearchTypes
  <1>9. PathInv'
    BY <1>2, <1>3, <1>4, <1>6, <1>7 DEF PathInv
  <1>10. ChainsInv'
    <2>1. SUFFICES ASSUME Contains(path, n)
                   PROVE  LET chain == SubSeq(path, Position(n), N)
                          IN  /\ chain \in Seq(Plugins) /\ chain # <<>>
                              /\ \A i \in 1..Len(chain) :
                                   Needs(chain[i], chain[IF i = Len(chain) THEN 1 ELSE i + 1])
      <3>1. \A p, q : Needs(p, q)' = Needs(p, q)
        BY <1>2 DEF Needs
      <3> QED BY <1>1, <1>3, <3>1 DEF ChainsInv
    <2> DEFINE m == Position(n)  chain == SubSeq(path, m, N)
    <2>2. m \in 1..N /\ path[m] = n
      BY <2>1 DEF Position, Contains
    <2>3. \A i \in m..N : path[i] \in Plugins
      BY <2>2, <1>4, ElementOfSeq, <1>3 DEF SearchTypes
    <2>4. /\ chain \in Seq(Plugins) /\ Len(chain) = N - m + 1
          /\ \A i \in 1..N - m + 1 : chain[i] = path[m + i - 1]
      <3> HIDE DEF m
      <3> QED BY <2>2, <2>3, <1>4, SubSeqProperties
    <2> HIDE DEF m, chain
    <2>5. chain # <<>>
      BY <2>2, <2>4, <1>4
    <2>6. \A i \in 1..N - 1 : path[i + 1] \in DependsOn(path[i])
      <3>1. \A i \in 1..N - 1 : i \in 1..N /\ i + 1 \in 1..N
        BY <1>4
      <3> QED BY <3>1, <1>3 DEF PathInv
    <2>7. \A p \in Plugins, q \in Plugins : q \in DependsOn(p) => Needs(p, q)
      BY <1>3, NeedsIsDependsOn
    <2>8. ASSUME NEW i \in 1..Len(chain)
          PROVE  Needs(chain[i], chain[IF i = Len(chain) THEN 1 ELSE i + 1])
      <3>1. /\ m + i - 1 \in m..N /\ chain[i] = path[m + i - 1]
            /\ path[m + i - 1] \in Plugins
        <4>1. N \in Nat /\ m \in 1..N /\ i \in 1..N - m + 1
          BY <2>2, <2>4, <1>4
        <4>2. m + i - 1 \in m..N
          BY <4>1
        <4> QED BY <4>1, <4>2, <2>3, <2>4
      <3>2. CASE i = Len(chain)
        <4>1. m + i - 1 = N
          BY <3>2, <2>2, <2>4, <1>4
        <4>2. chain[1] = n
          BY <2>2, <2>4, <1>4
        <4> QED BY <3>1, <3>2, <4>1, <4>2, <2>7, <1>5
      <3>3. CASE i # Len(chain)
        <4>1. /\ i + 1 \in 1..N - m + 1 /\ m + i - 1 \in 1..N - 1
              /\ m + (i + 1) - 1 = (m + i - 1) + 1 /\ m + (i + 1) - 1 \in m..N
          BY <3>3, <2>2, <2>4, <1>4
        <4>2. chain[i + 1] = path[(m + i - 1) + 1] /\ chain[i + 1] \in Plugins
          BY <4>1, <2>3, <2>4
        <4>3. path[(m + i - 1) + 1] \in DependsOn(path[m + i - 1])
          BY <4>1, <2>6
        <4> QED BY <3>1, <3>3, <4>2, <4>3, <2>7
      <3> QED BY <3>2, <3>3
    <2> QED BY <2>4, <2>5, <2>8 DEF m, chain
  <1>11. ASSUME cycles' = {} PROVE FinishedInv'
    <2>1. cycles = {} /\ ~Contains(path, n)
      BY <1>1, <1>11
    <2>2. FinishedInv
      BY <2>1 DEF DependencyInv
    <2>3. n \in Finished
      BY <2>1, <1>1 DEF Finished, OnPath, Contains
    <2>4. \A p \in Finished' : DependsOn(p)' \subseteq Finished'
      BY <2>2, <1>6, <1>7 DEF FinishedInv
    <2>5. \A K \in SUBSET Finished' : ~Knot(K)'
      BY <2>2, <1>2, <1>7 DEF FinishedInv, Knot, Needs
    <2>6. \A i \in 1..N : \A q \in DependsOn(path[i]) \ unexplored'[i] :
            q \in Finished \/ (i + 1 \in 1..N /\ q = path[i + 1])
      BY <2>2, <2>3, <1>4 DEF FinishedInv
    <2> QED BY <2>4, <2>5, <2>6, <1>2, <1>6, <1>7 DEF FinishedInv
  <1> QED BY <1>8, <1>9, <1>10, <1>11 DEF DependencyInv

(* The front of a sequence.                                                 *)
LEMMA FrontOf ==
  ASSUME NEW S, NEW s, NEW n \in Nat, \A i \in 1..n : s[i] \in S
  PROVE  /\ SubSeq(s, 1, n) \in Seq(S) /\ Len(SubSeq(s, 1, n)) = n
         /\ \A i \in 1..n : SubSeq(s, 1, n)[i] = s[i]
  <1>1. /\ SubSeq(s, 1, n) \in Seq(S)
        /\ Len(SubSeq(s, 1, n)) = IF 1 <= n THEN n - 1 + 1 ELSE 0
        /\ \A i \in 1..n - 1 + 1 : SubSeq(s, 1, n)[i] = s[1 + i - 1]
    BY SubSeqProperties
  <1>2. n - 1 + 1 = n /\ (IF 1 <= n THEN n - 1 + 1 ELSE 0) = n
    OBVIOUS
  <1>3. \A i \in 1..n : 1 + i - 1 = i
    OBVIOUS
  <1> QED BY <1>1, <1>2, <1>3

(* and the return from one whose neighbours are all explored: they are      *)
(* finished, so it waits for none of them and no knot goes through it.      *)
LEMMA BacktrackKeeps ==
  ASSUME DependencyInv, Backtrack PROVE DependencyInv'
  <1> DEFINE N == Len(path)  x == path[N]
  <1>1. /\ path # <<>> /\ Neighbours = {}
        /\ path' = SubSeq(path, 1, N - 1)
        /\ unexplored' = SubSeq(unexplored, 1, N - 1)
        /\ UNCHANGED <<requires, visited, cycles>>
    BY DEF Backtrack, Front, DependencyInv, SearchTypes
  <1>2. SearchTypes /\ PathInv /\ ChainsInv
    BY DEF DependencyInv
  <1>3. /\ N \in Nat /\ N \in 1..N /\ N + 1 \notin 1..N
        /\ N - 1 \in Nat /\ 1..N - 1 \subseteq 1..N /\ N \notin 1..N - 1
    BY <1>1, <1>2, EmptySeq, LenProperties DEF SearchTypes
  <1>4. unexplored[N] = {}
    BY <1>1, <1>2 DEF Neighbours, Last, SearchTypes
  <1>5. /\ path' \in Seq(Plugins) /\ Len(path') = N - 1
        /\ \A i \in 1..N - 1 : path'[i] = path[i]
    <2>1. \A i \in 1..N - 1 : path[i] \in Plugins
      BY <1>2, <1>3, ElementOfSeq DEF SearchTypes
    <2> DEFINE k == N - 1
    <2>2. k \in Nat
      BY <1>3
    <2> HIDE DEF k
    <2>3. /\ SubSeq(path, 1, k) \in Seq(Plugins) /\ Len(SubSeq(path, 1, k)) = k
          /\ \A i \in 1..k : SubSeq(path, 1, k)[i] = path[i]
      <3>1. \A i \in 1..k : path[i] \in Plugins
        BY <2>1 DEF k
      <3> QED BY <2>2, <3>1, FrontOf
    <2> QED BY <1>1, <2>3 DEF k
  <1>6. /\ unexplored' \in Seq(SUBSET Plugins) /\ Len(unexplored') = N - 1
        /\ \A i \in 1..N - 1 : unexplored'[i] = unexplored[i]
    <2>1. \A i \in 1..N - 1 : unexplored[i] \in SUBSET Plugins
      BY <1>2, <1>3, ElementOfSeq DEF SearchTypes
    <2> DEFINE k == N - 1
    <2>2. k \in Nat
      BY <1>3
    <2> HIDE DEF k
    <2>3. /\ SubSeq(unexplored, 1, k) \in Seq(SUBSET Plugins)
          /\ Len(SubSeq(unexplored, 1, k)) = k
          /\ \A i \in 1..k : SubSeq(unexplored, 1, k)[i] = unexplored[i]
      <3>1. \A i \in 1..k : unexplored[i] \in SUBSET Plugins
        BY <2>1 DEF k
      <3> QED BY <2>2, <3>1, FrontOf
    <2> QED BY <1>1, <2>3 DEF k
  <1>7. \A p : DependsOn(p)' = DependsOn(p)
    BY <1>1 DEF DependsOn
  <1>8. SearchTypes'
    BY <1>1, <1>2, <1>5, <1>6 DEF SearchTypes
  <1>9. \A i \in 1..N : i \in 1..N - 1 \/ i = N
    BY <1>3
  <1>10. OnPath = OnPath' \cup {x} /\ x \notin OnPath' /\ x \in OnPath
    <2>1. OnPath' = {path[i] : i \in 1..N - 1}
      BY <1>5 DEF OnPath
    <2>2. OnPath = {path[i] : i \in 1..N}
      BY DEF OnPath
    <2>3. \A i \in 1..N - 1 : path[i] # x
      BY <1>2, <1>3 DEF PathInv
    <2> QED BY <1>3, <1>9, <2>1, <2>2, <2>3
  <1>11. Finished' = Finished \cup {x} /\ x \notin Finished /\ x \in Plugins
    BY <1>1, <1>2, <1>10 DEF Finished, PathInv, SearchTypes
  <1>12. PathInv'
    <2>1. \A i \in 1..N - 1 : i + 1 \in 1..N - 1 => path'[i + 1] \in DependsOn(path'[i])
      BY <1>2, <1>3, <1>5 DEF PathInv
    <2>2. \A i, j \in 1..N - 1 : path'[i] = path'[j] => i = j
      BY <1>2, <1>3, <1>5 DEF PathInv
    <2>3. \A i \in 1..N - 1 : unexplored'[i] \subseteq DependsOn(path'[i])
      BY <1>2, <1>3, <1>5, <1>6 DEF PathInv
    <2> QED BY <1>1, <1>2, <1>5, <1>7, <1>10, <2>1, <2>2, <2>3 DEF PathInv
  <1>13. ChainsInv'
    BY <1>1, <1>2 DEF ChainsInv, Needs
  <1>14. ASSUME cycles' = {} PROVE FinishedInv'
    <2>1. FinishedInv
      BY <1>1, <1>14 DEF DependencyInv
    <2>2. DependsOn(x) \subseteq Finished
      BY <2>1, <1>3, <1>4 DEF FinishedInv
    <2>3. \A p \in Finished' : DependsOn(p) \subseteq Finished'
      BY <2>1, <2>2, <1>11 DEF FinishedInv
    <2>4. ASSUME NEW K \in SUBSET Finished', Knot(K) PROVE FALSE
      <3>1. \A p \in Finished, q \in K : Needs(p, q) => q \in Finished
        <4>1. Finished \subseteq Plugins /\ K \subseteq Plugins
          BY <1>2, <1>11 DEF Finished, SearchTypes
        <4> QED BY <4>1, <1>2, <2>1, NeedsIsDependsOn DEF FinishedInv
      <3>2. \A q \in K : Needs(x, q) => q \in Finished
        <4>1. K \subseteq Plugins
          BY <1>2, <1>11 DEF Finished, SearchTypes
        <4> QED BY <4>1, <1>2, <1>11, <2>2, NeedsIsDependsOn
      <3>3. K \ {x} \subseteq Finished
        BY <1>11
      <3>4. Knot(K \ {x})
        <4>1. \A p \in K : \E q \in K \ {x} : Needs(p, q)
          <5>1. ASSUME NEW p \in K PROVE \E q \in K \ {x} : Needs(p, q)
            <6>1. PICK q \in K : Needs(p, q)
              BY <2>4 DEF Knot
            <6>2. q \in Finished
              BY <6>1, <3>1, <3>2, <3>3
            <6> QED BY <6>1, <6>2, <1>11
          <5> QED BY <5>1
        <4>2. K # {}
          BY <2>4 DEF Knot
        <4> QED BY <4>1, <4>2 DEF Knot
      <3> QED BY <3>3, <3>4, <2>1 DEF FinishedInv
    <2>5. ASSUME NEW i \in 1..N - 1, NEW q \in DependsOn(path'[i]) \ unexplored'[i]
          PROVE  q \in Finished' \/ (i + 1 \in 1..N - 1 /\ q = path'[i + 1])
      <3>1. i \in 1..N /\ i + 1 \in 1..N
        BY <1>3
      <3>2. q \in Finished \/ q = path[i + 1]
        BY <2>1, <2>5, <3>1, <1>5, <1>6 DEF FinishedInv
      <3> QED BY <3>1, <3>2, <1>5, <1>9, <1>11
    <2>6. \A K : Knot(K)' = Knot(K)
      BY <1>1 DEF Knot, Needs
    <2> QED BY <2>3, <2>4, <2>5, <2>6, <1>5, <1>7 DEF FinishedInv
  <1> QED BY <1>8, <1>12, <1>13, <1>14 DEF DependencyInv

(* DependencyValidator::validate is right for every set of plugins and      *)
(* every order the hash maps are walked in: it reports a cycle exactly if   *)
(* some plugins wait for each other, and every chain it reports is one.     *)
THEOREM CyclesAreAlwaysFound == DependencySpec => []CyclesAreFound
  <1>1. DependencyInit => DependencyInv
    <2> SUFFICES ASSUME DependencyInit PROVE DependencyInv
      OBVIOUS
    <2> USE DEF DependencyInit
    <2>1. Len(path) = 0 /\ 1..Len(path) = {}
      OBVIOUS
    <2>2. SearchTypes
      BY DEF SearchTypes
    <2>3. PathInv
      BY <2>1 DEF PathInv, OnPath
    <2>4. FinishedInv
      BY <2>1 DEF FinishedInv, Finished, Knot
    <2> QED BY <2>2, <2>3, <2>4 DEF DependencyInv, ChainsInv
  <1>2. DependencyInv /\ [DependencyNext]_dependencyvars => DependencyInv'
    <2>1. ASSUME DependencyInv, UNCHANGED dependencyvars PROVE DependencyInv'
      <3>1. UNCHANGED <<requires, visited, path, unexplored, cycles>>
        BY <2>1 DEF dependencyvars
      <3>2. SearchTypes' <=> SearchTypes
        BY <3>1 DEF SearchTypes
      <3>3. PathInv' <=> PathInv
        BY <3>1 DEF PathInv, OnPath, DependsOn
      <3>4. ChainsInv' <=> ChainsInv
        BY <3>1 DEF ChainsInv, Needs
      <3>5. FinishedInv' <=> FinishedInv
        BY <3>1 DEF FinishedInv, Finished, OnPath, Knot, Needs, DependsOn
      <3> QED BY <2>1, <3>1, <3>2, <3>3, <3>4, <3>5 DEF DependencyInv
    <2> QED BY <2>1, RootKeeps, DescendKeeps, MeetKeeps, BacktrackKeeps
               DEF DependencyNext
  <1>3. DependencyInv => CyclesAreFound
    BY CyclesAreRight
  <1> QED BY <1>1, <1>2, <1>3, PTL DEF DependencySpec

(***************************************************************************)
(* Plugin host (PluginHost)                                                *)
(*                                                                         *)
(* What the consumer thread calls is in the registry, and what is there was*)
(* admitted.                                                               *)
(***************************************************************************)

(* The consumer thread has something to call only while the engine runs or  *)
(* stops, and what it calls was admitted and is still registered.          *)
HostInv ==
  /\ queued \in Nat
  /\ host \in {"loading", "running", "stopping", "joined", "failed", "gone"}
  /\ host \notin {"running", "stopping"} => queued = 0
  /\ calling # Nil => queued > 0 /\ calling \in dispatch
  /\ host \in {"running", "stopping"} => dispatch \subseteq DOMAIN plugins
  /\ \A n \in DOMAIN plugins : Admitted(plugins[n].library)

(* Every step of the host keeps it.                                         *)
LEMMA HostStepKeeps == ASSUME HostInv, [PluginHostNext]_hostvars PROVE HostInv'
  <1> USE DEF HostInv
  <1>0. ASSUME UNCHANGED <<image, trust_anchors, revoked, red_allowed>>, NEW l
        PROVE  Admitted(l)' = Admitted(l)
    BY <1>0 DEF Admitted, Trust
  <1>1. CASE Discover
    <2>1. PICK library \in undiscovered, abi \in 0..2 :
            LET names == Registered(library, abi) IN
            plugins' = [n \in DOMAIN plugins \cup names |->
                        IF n \in names
                        THEN [library |-> library, initialised |-> FALSE,
                              trust |-> Trust(library)]
                        ELSE plugins[n]]
      BY <1>1 DEF Discover
    <2>2. \A n \in Registered(library, abi) : Admitted(library)
      BY DEF Registered
    <2>3. \A n \in DOMAIN plugins' : Admitted(plugins'[n].library)
      BY <2>1, <2>2
    <2> QED BY <1>0, <1>1, <2>3 DEF Discover
  <1>2. CASE InitPlugin
    <2>1. /\ DOMAIN plugins' = DOMAIN plugins
          /\ \A n \in DOMAIN plugins : plugins'[n].library = plugins[n].library
      BY <1>2 DEF InitPlugin
    <2> QED BY <1>0, <1>2, <2>1 DEF InitPlugin
  <1>3. CASE StartPipeline
    BY <1>0, <1>3 DEF StartPipeline
  <1>4. CASE Log
    BY <1>0, <1>4 DEF Log
  <1>5. CASE Call
    BY <1>0, <1>5 DEF Call
  <1>6. CASE Return
    BY <1>0, <1>6 DEF Return
  <1>7. CASE BeginStop
    BY <1>0, <1>7 DEF BeginStop
  <1>8. CASE Join
    BY <1>0, <1>8 DEF Join
  <1>9. CASE DropManager
    BY <1>0, <1>9 DEF DropManager
  <1>10. CASE UNCHANGED hostvars
    BY <1>0, <1>10 DEF hostvars
  <1> QED BY <1>1, <1>2, <1>3, <1>4, <1>5, <1>6, <1>7, <1>8, <1>9, <1>10
             DEF PluginHostNext

(* For every set of libraries and names: the consumer thread never calls a  *)
(* plugin that was unmapped, rejected or replaced in the registry.          *)
THEOREM DispatchStaysLive == PluginHostSpec => []DispatchIsLive
  <1>1. PluginHostInit => HostInv
    BY DEF PluginHostInit, HostInv
  <1>2. HostInv => DispatchIsLive
    BY DEF HostInv, DispatchIsLive, Admitted, Trust
  <1> QED BY <1>1, <1>2, HostStepKeeps, PTL DEF PluginHostSpec

(***************************************************************************)
(* Plugin store (PluginStore)                                              *)
(*                                                                         *)
(* A signature in the plugin directory leaves a sidecar that no command    *)
(* removes without the plugin.                                             *)
(***************************************************************************)

(* Keys, and what a library file holds.                                     *)
Seeds == Nat \cup {EnvironmentSeed}
Contents == Versions \cup {Broken}

(* The files and keys of the plugin commands.                               *)
StoreTypes ==
  /\ built \in Contents \cup {Nothing} /\ installed \in Contents \cup {Nothing}
  /\ seeds \in Nat /\ key_file \in Seeds \cup {Nothing}
  /\ wrapped # Nothing => wrapped.seed \in Seeds
  /\ signing # Nothing => signing.seed \in Seeds

(* What was signed in the plugin directory left a sidecar there.            *)
StoreInv == StoreTypes /\ (signed_here => sig_file # Nothing)

(* Every command keeps it.                                                  *)
LEMMA StoreStepKeeps ==
  ASSUME StoreInv, [PluginStoreNext]_storevars PROVE StoreInv'
  <1> USE StoreAssumption
      DEF StoreInv, StoreTypes, libraries, keyfiles, authority, Seeds, Contents
  <1>1. ASSUME NEW version \in Versions, Build(version) PROVE StoreInv'
    BY <1>1 DEF Build
  <1>2. ASSUME NEW seed, Revoke(seed) PROVE StoreInv'
    BY <1>2 DEF Revoke
  <1>3. CASE Tick
    BY <1>3 DEF Tick
  <1>4. CASE Keygen
    BY <1>4 DEF Keygen
  <1>5. CASE RemovePlugin
    BY <1>5 DEF RemovePlugin
  <1>6. ASSUME NEW passphrase, WrapKey(passphrase) PROVE StoreInv'
    BY <1>6 DEF WrapKey
  <1>7. ASSUME NEW passphrase, UnwrapKey(passphrase) PROVE StoreInv'
    BY <1>7 DEF UnwrapKey, Unwraps
  <1>8. ASSUME NEW place, NEW passphrase, NEW code,
               NEW source \in {"key_file", "wrapped_key", "environment"},
               BeginSign(place, source, passphrase, code)
        PROVE  StoreInv'
    <2>1. SeedFrom(source, passphrase) \in Seeds
      BY <1>8 DEF BeginSign, SeedFrom, Unwraps
    <2> QED BY <1>8, <2>1 DEF BeginSign
  <1>9. ASSUME NEW complete \in BOOLEAN, FinishSign(complete) PROVE StoreInv'
    <2>1. CASE sig_file' = sig_file /\ signed_here' = signed_here
      BY <1>9, <2>1 DEF FinishSign
    <2>2. CASE sig_file' = Signed(installed, complete) /\ installed # Nothing
      <3>1. sig_file' # Nothing
        BY <1>9, <2>2 DEF FinishSign, Signed
      <3> QED BY <1>9, <3>1 DEF FinishSign
    <2> QED BY <1>9, <2>1, <2>2 DEF FinishSign
  <1>10. ASSUME NEW complete \in BOOLEAN, Install(complete) PROVE StoreInv'
    BY <1>10 DEF Install
  <1>11. CASE UNCHANGED storevars
    BY <1>11 DEF storevars
  <1> QED BY <1>1, <1>2, <1>3, <1>4, <1>5, <1>6, <1>7, <1>8, <1>9, <1>10, <1>11
             DEF PluginStoreNext

(* For every number of keys and versions: a plugin once signed in the       *)
(* plugin directory never passes for one that was never signed.             *)
THEOREM SignaturesStay == PluginStoreSpec => []SignedStaysSigned
  <1>1. PluginStoreInit => StoreInv
    BY DEF PluginStoreInit, StoreInv, StoreTypes
  <1>2. StoreInv => SignedStaysSigned
    BY DEF StoreInv, SignedStaysSigned, Verdict
  <1> QED BY <1>1, <1>2, StoreStepKeeps, PTL DEF PluginStoreSpec

(***************************************************************************)
(* Plugin migration (PluginMigration)                                      *)
(*                                                                         *)
(* Epochs are taken from one counter, each by one call.                    *)
(***************************************************************************)

(* Where a thread is between its call and its effect.                       *)
Waiting == {"idle", "serialize", "reload", "reload with data"}

(* The counter and the epochs taken from it.                                *)
MigrationTypes ==
  /\ epoch_counter \in Nat
  /\ step \in [Reloaders -> Waiting]
  /\ ticket \in [Reloaders -> Nat] /\ state_epoch \in [Reloaders -> Nat]
  /\ saved_state # NoState => saved_state.epoch \in Nat

(* Every epoch was taken from the counter, and none was taken twice.        *)
EpochInv ==
  /\ saved_state # NoState => saved_state.epoch < epoch_counter
  /\ \A t \in Reloaders :
       /\ step[t] = "serialize" => state_epoch[t] < epoch_counter
       /\ step[t] = "reload" =>
            /\ ticket[t] < epoch_counter
            /\ saved_state # NoState => ticket[t] # saved_state.epoch
            /\ \A u \in Reloaders : step[u] = "serialize" => ticket[t] # state_epoch[u]

(* The invariant of the migration.                                          *)
MigrationInv == MigrationTypes /\ EpochInv /\ StateIsFromBefore

(* A counter that grows by one passes every epoch taken from it.            *)
LEMMA EpochsGrow ==
  ASSUME NEW n \in Nat
  PROVE  /\ n + 1 \in Nat /\ n < n + 1
         /\ \A e \in Nat : e < n => e < n + 1 /\ e # n
  OBVIOUS

(* Every step keeps it.                                                     *)
LEMMA MigrationStepKeeps ==
  ASSUME MigrationInv, [MigrationNext]_migrationvars PROVE MigrationInv'
  <1> USE DEF MigrationInv, MigrationTypes, EpochInv, StateIsFromBefore
  <1>1. ASSUME NEW t \in Reloaders, BeginSerialize(t) PROVE MigrationInv'
    <2>1. /\ epoch_counter' = epoch_counter + 1
          /\ step' = [step EXCEPT ![t] = "serialize"]
          /\ state_epoch' = [state_epoch EXCEPT ![t] = epoch_counter]
          /\ UNCHANGED <<saved_state, migrated, ticket>>
      BY <1>1 DEF BeginSerialize, NextEpoch
    <2>a. epoch_counter \in Nat
      OBVIOUS
    <2>b. /\ epoch_counter' \in Nat /\ epoch_counter < epoch_counter'
          /\ \A e \in Nat : e < epoch_counter => e < epoch_counter' /\ e # epoch_counter
      BY <2>a, <2>1, EpochsGrow
    <2>2. MigrationTypes'
      BY <2>1, <2>b DEF Waiting
    <2>5. EpochInv'
      BY <2>1, <2>2, <2>b
    <2> QED BY <2>1, <2>2, <2>5
  <1>2. ASSUME NEW t \in Reloaders, NEW to \in {"reload", "reload with data"}, BeginReload(t, to)
        PROVE  MigrationInv'
    <2>1. /\ epoch_counter' = epoch_counter + 1
          /\ step' = [step EXCEPT ![t] = to]
          /\ ticket' = [ticket EXCEPT ![t] = epoch_counter]
          /\ UNCHANGED <<saved_state, migrated, state_epoch>>
      BY <1>2 DEF BeginReload, NextEpoch
    <2>a. epoch_counter \in Nat
      OBVIOUS
    <2>b. /\ epoch_counter' \in Nat /\ epoch_counter < epoch_counter'
          /\ \A e \in Nat : e < epoch_counter => e < epoch_counter' /\ e # epoch_counter
      BY <2>a, <2>1, EpochsGrow
    <2>2. MigrationTypes'
      BY <2>1, <2>b DEF Waiting
    <2>5. EpochInv'
      BY <2>1, <2>2, <2>b
    <2> QED BY <2>1, <2>2, <2>5
  <1>3. ASSUME NEW t \in Reloaders, Migrate(t) PROVE MigrationInv'
    <2>1. /\ step[t] = "reload" /\ step' = [step EXCEPT ![t] = "idle"]
          /\ UNCHANGED <<epoch_counter, saved_state, ticket, state_epoch>>
      BY <1>3 DEF Migrate
    <2>2. MigrationTypes' /\ EpochInv'
      BY <2>1 DEF Waiting
    <2>3. MayMigrate(ticket[t]) => saved_state.epoch < ticket[t]
      BY <2>1 DEF MayMigrate
    <2> QED BY <1>3, <2>2, <2>3 DEF Migrate
  <1>4. ASSUME NEW t \in Reloaders, NEW format, Insert(t, format)
        PROVE  MigrationInv'
    BY <1>4 DEF Insert, Waiting
  <1>5. ASSUME NEW t \in Reloaders, ClearState(t) PROVE MigrationInv'
    BY <1>5 DEF ClearState
  <1>6. CASE UNCHANGED migrationvars
    BY <1>6 DEF migrationvars
  <1> QED BY <1>1, <1>2, <1>3, <1>4, <1>5, <1>6 DEF MigrationNext

(* For every number of threads and epochs: a reload migrates only a state   *)
(* whose capture began before the reload did.                               *)
THEOREM StatesComeBefore == MigrationSpec => []StateIsFromBefore
  <1>1. MigrationInit => MigrationInv
    BY DEF MigrationInit, MigrationInv, MigrationTypes, EpochInv,
           StateIsFromBefore, Waiting
  <1>2. MigrationInv => StateIsFromBefore
    BY DEF MigrationInv
  <1> QED BY <1>1, <1>2, MigrationStepKeeps, PTL DEF MigrationSpec

(***************************************************************************)
(* File sink (FileSink)                                                    *)
(*                                                                         *)
(* A rotation renames a file whole, to a name that no file has yet and that*)
(* is later than those of the files before it.  What is still buffered then*)
(* has been flushed, which the layers of LogFile keep track of.            *)
(***************************************************************************)

(* What a file holds.                                                       *)
Entries == [id : Nat, layer : Layers]

(* Types, and no file is named after a second to come.                      *)
FileTypes ==
  /\ current \in Seq(Entries)
  /\ rotated \in [1..MaxSeconds -> Seq(Entries)]
  /\ \A s \in 1..MaxSeconds : s > second => rotated[s] = <<>>

(* As long as no rotation clashed, the files hold what was given to write.  *)
FileInv ==
  /\ second \in 1..MaxSeconds /\ attempts \in Nat /\ clash \in BOOLEAN
  /\ ~clash =>
       /\ FileTypes
       /\ \A s \in DOMAIN Files : \A i \in DOMAIN Files[s] : Files[s][i].id <= attempts
  /\ RotationKeepsRecords

(* Two files with the same records, in layers of their own.                 *)
SameRecords(f, g) ==
  /\ f \in Seq(Entries) /\ g \in Seq(Entries) /\ Len(f) = Len(g)
  /\ \A i \in 1..Len(f) : g[i].id = f[i].id

(* No flush or synchronisation changes what a file holds.                   *)
LEMMA PromoteKeeps ==
  ASSUME NEW f \in Seq(Entries), NEW from, NEW to \in Layers
  PROVE  SameRecords(f, Promote(f, from, to))
  <1>1. \A i \in 1..Len(f) : f[i] \in Entries
    BY ElementOfSeq
  <1>2. \A e \in Entries : /\ [e EXCEPT !.layer = to] \in Entries
                           /\ [e EXCEPT !.layer = to].id = e.id
    BY DEF Entries
  <1> DEFINE g == Promote(f, from, to)
  <1>3. /\ g \in [1..Len(f) -> Entries]
        /\ \A i \in 1..Len(f) : g[i].id = f[i].id
    BY <1>1, <1>2 DEF Promote
  <1> HIDE DEF g
  <1>4. g \in Seq(Entries) /\ Len(g) = Len(f)
    BY <1>3
  <1> QED BY <1>3, <1>4 DEF SameRecords, g

(* So with the two uses of it.                                              *)
LEMMA FlushAndSyncKeep ==
  ASSUME NEW f \in Seq(Entries)
  PROVE  /\ SameRecords(f, Flushed(f)) /\ SameRecords(f, Synced(f))
         /\ SameRecords(f, Synced(Flushed(f)))
  <1>1. "cache" \in Layers /\ "media" \in Layers
    BY DEF Layers
  <1>2. SameRecords(f, Flushed(f)) /\ Flushed(f) \in Seq(Entries)
    BY <1>1, PromoteKeeps DEF Flushed, SameRecords
  <1>3. SameRecords(f, Synced(f)) /\ SameRecords(Flushed(f), Synced(Flushed(f)))
    BY <1>1, <1>2, PromoteKeeps DEF Synced
  <1> QED BY <1>2, <1>3 DEF SameRecords

(* A write adds its record at the end, however the buffer is spilled.       *)
LEMMA WritesAppend ==
  ASSUME NEW f \in Seq(Entries), NEW e \in Entries, NEW g \in Writes(f, e)
  PROVE  SameRecords(Append(f, e), g)
  <1>1. Append(f, e) \in Seq(Entries) /\ Len(Append(f, e)) = Len(f) + 1
        /\ \A i \in 1..Len(f) : Append(f, e)[i] = f[i]
        /\ Append(f, e)[Len(f) + 1] = e
    BY AppendProperties
  <1>2. SameRecords(Append(f, e), Flushed(Append(f, e)))
    BY <1>1, FlushAndSyncKeep
  <1>3. SameRecords(Append(f, e), Append(Flushed(f), e))
    <2>1. SameRecords(f, Flushed(f))
      BY FlushAndSyncKeep
    <2>2. Flushed(f) \in Seq(Entries) /\ Len(Flushed(f)) = Len(f)
          /\ \A i \in 1..Len(f) : Flushed(f)[i].id = f[i].id
      BY <2>1 DEF SameRecords
    <2>3. Append(Flushed(f), e) \in Seq(Entries) /\ Len(Append(Flushed(f), e)) = Len(f) + 1
        /\ \A i \in 1..Len(f) : Append(Flushed(f), e)[i] = Flushed(f)[i]
        /\ Append(Flushed(f), e)[Len(f) + 1] = e
      BY <2>2, AppendProperties
    <2>4. \A i \in 1..Len(f) + 1 : i \in 1..Len(f) \/ i = Len(f) + 1
      BY LenProperties
    <2> QED BY <1>1, <2>2, <2>3, <2>4 DEF SameRecords
  <1>4. SameRecords(Append(f, e), Append(f, e))
    BY <1>1 DEF SameRecords
  <1> QED BY <1>2, <1>3, <1>4 DEF Writes

(* The files by their seconds.                                              *)
LEMMA FilesAre ==
  ASSUME FileTypes
  PROVE  /\ DOMAIN Files = 1..MaxSeconds + 1
         /\ Files[MaxSeconds + 1] = current
         /\ \A s \in 1..MaxSeconds : Files[s] = rotated[s]
         /\ \A s \in DOMAIN Files : s \in 1..MaxSeconds \/ s = MaxSeconds + 1
         /\ \A s \in DOMAIN Files : Files[s] \in Seq(Entries)
         /\ \A s \in DOMAIN Files : \A i \in DOMAIN Files[s] : Files[s][i].id \in Nat
  <1>1. /\ DOMAIN Files = 1..MaxSeconds + 1
        /\ \A s \in DOMAIN Files : s \in 1..MaxSeconds \/ s = MaxSeconds + 1
    BY FileSinkAssumption DEF Files
  <1>2. /\ Files[MaxSeconds + 1] = current
        /\ \A s \in 1..MaxSeconds : Files[s] = rotated[s]
    BY FileSinkAssumption DEF Files
  <1>3. \A s \in DOMAIN Files : Files[s] \in Seq(Entries)
    BY <1>1, <1>2 DEF FileTypes
  <1>4. ASSUME NEW s \in DOMAIN Files, NEW i \in DOMAIN Files[s]
        PROVE  Files[s][i].id \in Nat
    <2>1. Files[s] \in Seq(Entries) /\ i \in 1..Len(Files[s])
      BY <1>3, LenProperties
    <2>2. Files[s][i] \in Entries
      BY <2>1, ElementOfSeq
    <2> QED BY <2>2 DEF Entries
  <1> QED BY <1>1, <1>2, <1>3, <1>4

(* A step that leaves the records where they are.                           *)
LEMMA SameFilesKeep ==
  ASSUME FileInv, ~clash => SameRecords(current, current'), rotated' = rotated,
         acknowledged' = acknowledged, clash' = clash,
         second' \in 1..MaxSeconds, second' >= second,
         attempts' \in Nat, attempts' >= attempts
  PROVE  FileInv'
  <1>1. SUFFICES ASSUME ~clash
                 PROVE  /\ FileTypes'
                        /\ (\A s \in DOMAIN Files : \A i \in DOMAIN Files[s] :
                              Files[s][i].id <= attempts)'
                        /\ RotationKeepsRecords'
    BY DEF FileInv, RotationKeepsRecords
  <1>2. FileTypes /\ FileTypes'
    BY <1>1 DEF FileInv, FileTypes, SameRecords
  <1>3. /\ DOMAIN Files' = DOMAIN Files
        /\ \A s \in DOMAIN Files :
             /\ DOMAIN Files'[s] = DOMAIN Files[s]
             /\ \A i \in DOMAIN Files[s] : Files'[s][i].id = Files[s][i].id
    <2>1. DOMAIN Files = 1..MaxSeconds + 1 /\ DOMAIN Files' = 1..MaxSeconds + 1
      BY DEF Files
    <2>2. \A s \in 1..MaxSeconds + 1 : s # MaxSeconds + 1 => Files'[s] = Files[s]
      BY DEF Files
    <2>3. Files[MaxSeconds + 1] = current /\ Files'[MaxSeconds + 1] = current'
      BY FileSinkAssumption DEF Files
    <2>4. /\ DOMAIN current' = DOMAIN current
          /\ \A i \in DOMAIN current : current'[i].id = current[i].id
      BY <1>1 DEF SameRecords
    <2> QED BY <2>1, <2>2, <2>3, <2>4
  <1>4. ASSUME NEW s \in DOMAIN Files, NEW i \in DOMAIN Files[s]
        PROVE  Files[s][i].id <= attempts'
    <2>1. Files[s][i].id \in Nat /\ Files[s][i].id <= attempts /\ attempts \in Nat
      BY <1>1, <1>2, FilesAre DEF FileInv
    <2> QED BY <2>1
  <1>5. RotationKeepsRecords'
    BY <1>1, <1>3 DEF FileInv, RotationKeepsRecords
  <1> QED BY <1>2, <1>3, <1>4, <1>5

(* A record that is written is the last one.                                *)
LEMMA WriteKeeps == ASSUME FileInv, WriteRecord PROVE FileInv'
  <1> DEFINE e == [id |-> attempts + 1, layer |-> "buffer"]
  <1>1. SUFFICES ASSUME ~clash
                 PROVE  /\ FileTypes'
                        /\ (\A s \in DOMAIN Files : \A i \in DOMAIN Files[s] :
                              Files[s][i].id <= attempts)'
                        /\ RotationKeepsRecords'
    BY DEF FileInv, RotationKeepsRecords, WriteRecord
  <1>2. /\ attempts \in Nat /\ attempts' = attempts + 1
        /\ FileTypes /\ current \in Seq(Entries)
        /\ acknowledged' \subseteq acknowledged \cup {attempts + 1}
        /\ UNCHANGED <<rotated, second, clash>>
    BY <1>1 DEF FileInv, FileTypes, WriteRecord
  <1>3. e \in Entries /\ e.id = attempts + 1
    BY <1>2 DEF Entries, Layers
  <1>4. SameRecords(Append(current, e), current')
    <2>1. PICK f \in Writes(current, e), ok \in BOOLEAN :
            current' = IF ok THEN AfterWrite(f) ELSE f
      BY DEF WriteRecord
    <2> HIDE DEF e
    <2>2. SameRecords(Append(current, e), f)
      BY <1>2, <1>3, WritesAppend
    <2>3. f \in Seq(Entries)
      BY <2>2 DEF SameRecords
    <2>4. SameRecords(f, Synced(f))
      BY <2>3, FlushAndSyncKeep
    <2> QED BY <2>1, <2>2, <2>4 DEF AfterWrite, SameRecords
  <1> HIDE DEF e
  <1>5. /\ current' \in Seq(Entries) /\ Len(current) \in Nat
        /\ DOMAIN current = 1..Len(current)
        /\ DOMAIN current' = 1..Len(current) + 1
        /\ \A i \in 1..Len(current) : current'[i].id = current[i].id
        /\ current'[Len(current) + 1].id = attempts + 1
    <2>1. /\ Append(current, e) \in Seq(Entries)
          /\ Len(Append(current, e)) = Len(current) + 1
          /\ \A i \in 1..Len(current) : Append(current, e)[i] = current[i]
          /\ Append(current, e)[Len(current) + 1] = e
      BY <1>2, <1>3, AppendProperties
    <2>2. Len(current) \in Nat /\ DOMAIN current = 1..Len(current)
      BY <1>2, LenProperties
    <2>3. \A i \in 1..Len(current) : i \in 1..Len(current) + 1
      BY <2>2
    <2>4. Len(current) + 1 \in 1..Len(current) + 1
      BY <2>2
    <2>5. current' \in Seq(Entries) /\ Len(current') = Len(current) + 1
      BY <1>4, <2>1 DEF SameRecords
    <2>6. DOMAIN current' = 1..Len(current) + 1
      BY <2>5, LenProperties
    <2> QED BY <1>3, <1>4, <2>1, <2>2, <2>3, <2>4, <2>5, <2>6 DEF SameRecords
  <1>6. FileTypes'
    BY <1>2, <1>5 DEF FileTypes
  <1>7. /\ DOMAIN Files' = DOMAIN Files
        /\ \A s \in DOMAIN Files : DOMAIN Files[s] \subseteq DOMAIN Files'[s]
        /\ \A s \in DOMAIN Files : \A i \in DOMAIN Files[s] :
             Files'[s][i].id = Files[s][i].id
        /\ Files'[MaxSeconds + 1] = current'
        /\ MaxSeconds + 1 \in DOMAIN Files
    <2>1. /\ DOMAIN Files' = DOMAIN Files /\ Files'[MaxSeconds + 1] = current'
          /\ MaxSeconds + 1 \in DOMAIN Files
      BY FileSinkAssumption DEF Files
    <2>2. \A s \in 1..MaxSeconds : Files'[s] = Files[s]
      BY <1>2, FileSinkAssumption DEF Files
    <2>3. 1..Len(current) \subseteq 1..Len(current) + 1
      BY <1>5
    <2> QED BY <1>2, <1>5, <2>1, <2>2, <2>3, FilesAre
  <1>8. ASSUME NEW s \in DOMAIN Files', NEW i \in DOMAIN Files'[s]
        PROVE  \/ i \in DOMAIN Files[s] /\ Files'[s][i].id = Files[s][i].id
               \/ /\ s = MaxSeconds + 1 /\ i = Len(current) + 1
                  /\ Files'[s][i].id = attempts + 1
    <2>1. CASE s \in 1..MaxSeconds
      <3>1. Files'[s] = Files[s]
        BY <1>2, <2>1, FileSinkAssumption DEF Files
      <3> QED BY <3>1
    <2>2. CASE s = MaxSeconds + 1
      <3>1. Files'[s] = current' /\ Files[s] = current
        BY <1>2, <1>7, <2>2, FilesAre
      <3>2. i \in 1..Len(current) \/ i = Len(current) + 1
        BY <1>5, <3>1
      <3> QED BY <1>5, <2>2, <3>1, <3>2
    <2> QED BY <1>2, <1>7, <2>1, <2>2, FilesAre
  <1>9. \A s \in DOMAIN Files : \A i \in DOMAIN Files[s] :
          Files[s][i].id \in Nat /\ Files[s][i].id <= attempts
    BY <1>1, <1>2, FilesAre DEF FileInv
  <1>10. \A s \in DOMAIN Files' : \A i \in DOMAIN Files'[s] :
           Files'[s][i].id <= attempts'
    <2>1. \A id \in Nat : id <= attempts => id <= attempts + 1
      BY <1>2
    <2> QED BY <1>2, <1>7, <1>8, <1>9, <2>1
  <1>11. ASSUME NEW s \in DOMAIN Files', NEW t \in DOMAIN Files',
                NEW i \in DOMAIN Files'[s], NEW j \in DOMAIN Files'[t],
                s < t \/ (s = t /\ i < j)
         PROVE  Files'[s][i].id < Files'[t][j].id
    <2>1. s \in 1..MaxSeconds + 1 /\ t \in 1..MaxSeconds + 1 /\ MaxSeconds \in Nat
      BY FileSinkAssumption DEF Files
    <2>2. i \in DOMAIN Files[s] /\ Files'[s][i].id = Files[s][i].id
      <3>1. ASSUME s = MaxSeconds + 1, i = Len(current) + 1 PROVE FALSE
        <4>1. s = t /\ i < j
          BY <1>11, <2>1, <3>1
        <4>2. j \in 1..Len(current) + 1
          BY <1>5, <1>7, <3>1, <4>1
        <4> QED BY <1>5, <3>1, <4>1, <4>2
      <3> QED BY <1>8, <3>1
    <2>3. CASE j \in DOMAIN Files[t] /\ Files'[t][j].id = Files[t][j].id
      BY <1>1, <1>7, <1>11, <2>2, <2>3 DEF FileInv, RotationKeepsRecords
    <2>4. CASE Files'[t][j].id = attempts + 1
      <3>1. Files[s][i].id \in Nat /\ Files[s][i].id <= attempts
        BY <1>7, <1>9, <2>2
      <3>2. \A id \in Nat : id <= attempts => id < attempts + 1
        BY <1>2
      <3> QED BY <2>2, <2>4, <3>1, <3>2
    <2> QED BY <1>8, <2>3, <2>4
  <1>12. ASSUME NEW id \in acknowledged'
         PROVE  \E s \in DOMAIN Files' : \E i \in DOMAIN Files'[s] : Files'[s][i].id = id
    <2>1. CASE id \in acknowledged
      <3>1. PICK s \in DOMAIN Files : \E i \in DOMAIN Files[s] : Files[s][i].id = id
        BY <1>1, <2>1 DEF FileInv, RotationKeepsRecords
      <3> QED BY <1>7, <3>1
    <2>2. CASE id = attempts + 1
      <3>1. Len(current) + 1 \in DOMAIN current'
        BY <1>5
      <3> QED BY <1>5, <1>7, <2>2, <3>1
    <2> QED BY <1>2, <2>1, <2>2
  <1>13. RotationKeepsRecords'
    BY <1>11, <1>12 DEF RotationKeepsRecords
  <1> QED BY <1>6, <1>10, <1>13
(* A rotation moves all the records of the current file to one that held    *)
(* none, or fails and leaves them.                                          *)
LEMMA RotateKeeps == ASSUME FileInv, Rotate PROVE FileInv'
  <1> DEFINE emptied == Flushed(current)
  <1>0. /\ UNCHANGED <<second, acknowledged>> /\ attempts' \in {attempts, attempts + 1}
        /\ attempts \in Nat /\ attempts' \in Nat /\ attempts' >= attempts
        /\ second \in 1..MaxSeconds /\ clash \in BOOLEAN /\ clash' \in BOOLEAN
        /\ clash => clash'
    BY DEF FileInv, Rotate, Rotations
  <1>1. SUFFICES ASSUME ~clash, ~clash' PROVE FileInv'
    BY <1>0 DEF FileInv, RotationKeepsRecords
  <1>2. FileTypes /\ SameRecords(current, emptied)
    BY <1>1, FlushAndSyncKeep DEF FileInv, FileTypes
  <1>3. \/ /\ current' = <<>> /\ clash' = (clash \/ (emptied # <<>> /\ rotated[second] # <<>>))
           /\ rotated' = IF emptied # <<>> THEN [rotated EXCEPT ![second] = emptied]
                         ELSE rotated
        \/ current' = emptied /\ rotated' = rotated /\ clash' = clash
    <2>1. PICK o \in Rotations :
            LET moved == o.archive # <<>> IN
            /\ current' = o.file
            /\ rotated' = IF moved THEN [rotated EXCEPT ![second] = o.archive] ELSE rotated
            /\ clash' = (clash \/ o.lost \/ (moved /\ rotated[second] # <<>>))
      BY DEF Rotate
    <2>2. \/ o.file = <<>> /\ o.archive = emptied /\ ~o.lost
          \/ o.file = emptied /\ o.archive = <<>> /\ ~o.lost
          \/ o.lost
      BY DEF Rotations
    <2> HIDE DEF emptied
    <2>3. ~o.lost
      BY <1>1, <2>1
    <2>4. CASE o.file = <<>> /\ o.archive = emptied
      BY <1>1, <2>1, <2>3, <2>4, Zenon
    <2>5. CASE o.file = emptied /\ o.archive = <<>>
      BY <1>0, <1>1, <2>1, <2>3, <2>5
    <2> QED BY <2>2, <2>3, <2>4, <2>5
  <1>4. CASE current' = emptied /\ rotated' = rotated /\ clash' = clash
    BY <1>0, <1>2, <1>4, SameFilesKeep
  <1>5. CASE emptied = <<>> /\ current' = <<>> /\ rotated' = rotated
    <2>1. current' = emptied /\ clash' = clash
      BY <1>0, <1>1, <1>3, <1>5
    <2> QED BY <1>4, <1>5, <2>1
  <1>6. CASE /\ current' = <<>> /\ rotated[second] = <<>>
             /\ rotated' = [rotated EXCEPT ![second] = emptied]
    <2>1. FileTypes'
      BY <1>0, <1>2, <1>6 DEF FileTypes, SameRecords
    <2>2. /\ DOMAIN Files' = DOMAIN Files
          /\ Files[second] = <<>> /\ Files'[second] = emptied
          /\ Files[MaxSeconds + 1] = current /\ Files'[MaxSeconds + 1] = <<>>
          /\ \A s \in DOMAIN Files : s \notin {second, MaxSeconds + 1} => Files'[s] = Files[s]
          /\ \A s \in DOMAIN Files : s > second /\ s # MaxSeconds + 1 => Files[s] = <<>>
          /\ second \in DOMAIN Files /\ MaxSeconds + 1 \in DOMAIN Files
      <3>1. second # MaxSeconds + 1 /\ second \in 1..MaxSeconds + 1
            /\ MaxSeconds + 1 \in 1..MaxSeconds + 1
            /\ \A s \in 1..MaxSeconds + 1 : s # MaxSeconds + 1 => s \in 1..MaxSeconds
        BY <1>0, FileSinkAssumption
      <3>2. rotated'[second] = emptied
            /\ \A s \in 1..MaxSeconds : s # second => rotated'[s] = rotated[s]
        BY <1>0, <1>2, <1>6 DEF FileTypes
      <3> HIDE DEF emptied
      <3>3. DOMAIN Files = 1..MaxSeconds + 1 /\ DOMAIN Files' = 1..MaxSeconds + 1
        BY DEF Files
      <3>4. \A s \in 1..MaxSeconds : Files[s] = rotated[s] /\ Files'[s] = rotated'[s]
        BY FileSinkAssumption DEF Files
      <3>5. Files[MaxSeconds + 1] = current /\ Files'[MaxSeconds + 1] = current'
        BY <3>1 DEF Files
      <3> QED BY <1>0, <1>2, <1>6, <3>1, <3>2, <3>3, <3>4, <3>5 DEF FileTypes
    \* Where a record was before the rotation.
    <2> DEFINE From(s) == IF s = second THEN MaxSeconds + 1 ELSE s
    <2>3. ASSUME NEW s \in DOMAIN Files', NEW i \in DOMAIN Files'[s]
          PROVE  /\ s # MaxSeconds + 1 /\ From(s) \in DOMAIN Files
                 /\ i \in DOMAIN Files[From(s)]
                 /\ Files'[s][i].id = Files[From(s)][i].id
                 /\ s <= second
      <3>1. s # MaxSeconds + 1
        BY <2>2, EmptySeq
      <3>2. CASE s = second
        BY <1>0, <1>2, <2>2, <3>1, <3>2 DEF SameRecords
      <3>3. CASE s # second
        <4>1. Files'[s] = Files[s] /\ Files[s] # <<>>
          BY <2>2, <3>1, <3>3
        <4>2. s \in Int /\ second \in Int
          BY <1>0, <1>2, <2>2, FilesAre, FileSinkAssumption
        <4> QED BY <2>2, <3>1, <3>3, <4>1, <4>2
      <3> QED BY <3>2, <3>3
    <2>4. \A s \in DOMAIN Files' : \A i \in DOMAIN Files'[s] : Files'[s][i].id <= attempts'
      <3>1. SUFFICES ASSUME NEW s \in DOMAIN Files', NEW i \in DOMAIN Files'[s]
                     PROVE  Files'[s][i].id <= attempts'
        OBVIOUS
      <3>2. PICK t \in DOMAIN Files : \E k \in DOMAIN Files[t] : Files'[s][i].id = Files[t][k].id
        BY <2>3
      <3>3. Files'[s][i].id \in Nat /\ Files'[s][i].id <= attempts
        BY <1>1, <1>2, <3>2, FilesAre DEF FileInv
      <3> QED BY <1>0, <3>3
    <2>5. ASSUME NEW s \in DOMAIN Files', NEW t \in DOMAIN Files',
                 NEW i \in DOMAIN Files'[s], NEW j \in DOMAIN Files'[t],
                 s < t \/ (s = t /\ i < j)
          PROVE  Files'[s][i].id < Files'[t][j].id
      <3>1. s \in 1..MaxSeconds /\ t \in 1..MaxSeconds /\ MaxSeconds \in Nat /\ s <= second /\ t <= second
        BY <1>2, <2>2, <2>3, FilesAre, FileSinkAssumption
      <3>2. From(s) < From(t) \/ (From(s) = From(t) /\ i < j)
        BY <1>0, <2>5, <3>1
      <3> HIDE DEF From
      <3>3. Files[From(s)][i].id < Files[From(t)][j].id
        BY <1>1, <2>3, <3>2 DEF FileInv, RotationKeepsRecords
      <3> QED BY <2>3, <3>3
    <2>6. ASSUME NEW id \in acknowledged'
          PROVE  \E s \in DOMAIN Files' : \E i \in DOMAIN Files'[s] : Files'[s][i].id = id
      <3>1. PICK s \in DOMAIN Files : \E i \in DOMAIN Files[s] : Files[s][i].id = id
        BY <1>0, <1>1 DEF FileInv, RotationKeepsRecords
      <3>2. PICK i \in DOMAIN Files[s] : Files[s][i].id = id
        BY <3>1
      <3>3. CASE s = MaxSeconds + 1
        BY <2>2, <3>2, <3>3, <1>2 DEF SameRecords
      <3>4. CASE s # MaxSeconds + 1
        <4>1. s # second
          BY <2>2, <3>2, EmptySeq
        <4> QED BY <2>2, <3>2, <3>4, <4>1
      <3> QED BY <3>3, <3>4
    <2>7. RotationKeepsRecords'
      BY <2>5, <2>6 DEF RotationKeepsRecords
    <2> QED BY <1>0, <1>1, <2>1, <2>4, <2>7 DEF FileInv
  <1> QED BY <1>1, <1>3, <1>4, <1>5, <1>6

(* No step breaks the invariant of the file sink.                           *)
LEMMA FileStepKeeps == ASSUME FileInv, [FileSinkNext]_filevars PROVE FileInv'
  <1>0. /\ second \in 1..MaxSeconds /\ attempts \in Nat
        /\ ~clash => current \in Seq(Entries)
        /\ MaxSeconds \in Nat
    BY FileSinkAssumption DEF FileInv, FileTypes
  <1>1. current \in Seq(Entries) =>
          /\ SameRecords(current, current) /\ SameRecords(current, Flushed(current))
          /\ SameRecords(current, Synced(Flushed(current)))
    BY FlushAndSyncKeep DEF SameRecords
  <1>2. CASE SecondPasses
    <2>1. second' \in 1..MaxSeconds /\ second' >= second
      BY <1>0, <1>2 DEF SecondPasses
    <2> QED BY <1>0, <1>1, <1>2, <2>1, SameFilesKeep DEF SecondPasses
  <1>3. CASE Open \/ Flush \/ Close \/ UNCHANGED filevars
    <2>1. /\ UNCHANGED <<rotated, second, attempts, acknowledged, clash>>
          /\ \/ current' = current \/ current' = Flushed(current)
             \/ current' = Synced(Flushed(current))
      BY <1>3 DEF Open, Flush, Close, filevars
    <2> QED BY <1>0, <1>1, <2>1, SameFilesKeep
  <1>4. CASE Rotate
    BY <1>4, RotateKeeps
  <1>5. CASE WriteRecord
    BY <1>5, WriteKeeps
  <1> QED BY <1>2, <1>3, <1>4, <1>5 DEF FileSinkNext

(* For any size limit, clock and number of records, at every durability     *)
(* level, no rotation that ends well or fails loses or reorders a record.  *)
THEOREM RotationsKeep == FileSinkSpec => []RotationKeepsRecords
  <1>1. FileSinkInit => FileInv
    <2> SUFFICES ASSUME FileSinkInit PROVE FileInv
      OBVIOUS
    <2>1. FileTypes /\ second \in 1..MaxSeconds
      BY FileSinkAssumption, EmptySeq DEF FileSinkInit, FileTypes
    <2>2. \A s \in DOMAIN Files : Files[s] = <<>>
      BY <2>1, FilesAre DEF FileSinkInit
    <2>3. \A s \in DOMAIN Files : DOMAIN Files[s] = {}
      BY <2>2, EmptySeq
    <2> QED BY <2>1, <2>3 DEF FileSinkInit, FileInv, RotationKeepsRecords
  <1>2. FileInv => RotationKeepsRecords
    BY DEF FileInv
  <1> QED BY <1>1, <1>2, FileStepKeeps, PTL DEF FileSinkSpec

(***************************************************************************)
(* Remote sinks (RemoteSinks)                                              *)
(*                                                                         *)
(* A request under way has arrived as a whole or is later than all that has,*)
(* so that delivering it once more, in order, puts no record before one that*)
(* is new.  How often a record arrives is charged to the attempts.         *)
(***************************************************************************)

(* Every record is later than the one before it.                            *)
Ascends(s) == \A i, j \in 1..Len(s) : i < j => s[i] < s[j]

(* Types: no request fails more often than it is retried.                   *)
RemoteTypes ==
  /\ remote_written \in Nat /\ accepted \in Nat
  /\ remote_attempts \in 0..Retries
  /\ batch \in Seq(Nat) /\ payload \in Seq(Nat) /\ received \in Seq(Nat)
  /\ answered \subseteq 0..remote_written

(* What waits or is under way is in order and behind all that was answered. *)
Ahead(s) ==
  /\ Ascends(s)
  /\ \A i \in 1..Len(s) :
       s[i] <= remote_written /\ \A rec \in answered : rec < s[i]

(* A batch waits only between calls, and nothing of it has been sent.       *)
PendingInv ==
  /\ Ahead(batch) /\ Ahead(payload)
  /\ payload # <<>> => batch = <<>>
  /\ \A k \in 1..Len(received) :
       /\ received[k] <= remote_written
       /\ \A i \in 1..Len(batch) : received[k] < batch[i]

(* What has arrived is in order, and a request under way is in it as a      *)
(* whole or later than all of it.  A table holds no record twice.           *)
ArrivedInv ==
  /\ \A i, j \in 1..Len(received) :
       i < j /\ received[i] > received[j] => \E k \in 1..i : received[k] = received[j]
  /\ \A n \in 1..Len(payload), i \in 1..Len(received) :
       received[i] >= payload[n] => \E k \in 1..i : received[k] = payload[n]
  /\ remote_sink = "sqlite" =>
       /\ Ascends(received)
       /\ \A n \in 1..Len(payload), i \in 1..Len(received) : received[i] < payload[n]

(* An attempt adds a request once.                                          *)
RepeatsInv ==
  \A rec \in Nat :
    /\ rec \in ToSet(payload) => Cardinality(Places(received, rec)) <= remote_attempts
    /\ Cardinality(Places(received, rec)) <= Retries + 1

(* What was answered is there, and counted.                                 *)
CountedInv ==
  /\ remote_sink # "sqlite" \/ max_rows = 0 => answered \subseteq ToSet(received)
  /\ accepted = Cardinality(answered)

RemoteInv == RemoteTypes /\ PendingInv /\ ArrivedInv /\ RepeatsInv /\ CountedInv

(* The places of a record are finitely many.                                *)
LEMMA PlacesAreFinite ==
  ASSUME NEW s \in Seq(Nat), NEW rec
  PROVE  IsFiniteSet(Places(s, rec)) /\ Cardinality(Places(s, rec)) \in Nat
  <1>1. Places(s, rec) \subseteq 1..Len(s) /\ Len(s) \in Nat
    BY LenProperties DEF Places
  <1>2. IsFiniteSet(1..Len(s))
    BY <1>1, FS_Interval
  <1> QED BY <1>1, <1>2, FS_Subset, FS_CardinalityType

(* A request that arrives adds one place to each of its records.            *)
LEMMA AppendPlaces ==
  ASSUME NEW s \in Seq(Nat), NEW t \in Seq(Nat), Ascends(t), NEW rec \in Nat
  PROVE  /\ rec \in ToSet(t) => Cardinality(Places(s \o t, rec)) = Cardinality(Places(s, rec)) + 1
         /\ rec \notin ToSet(t) => Places(s \o t, rec) = Places(s, rec)
  <1>1. /\ s \o t \in Seq(Nat) /\ DOMAIN (s \o t) = 1..Len(s) + Len(t)
        /\ \A i \in 1..Len(s) + Len(t) :
             (s \o t)[i] = IF i <= Len(s) THEN s[i] ELSE t[i - Len(s)]
        /\ Len(s) \in Nat /\ Len(t) \in Nat
        /\ DOMAIN s = 1..Len(s) /\ DOMAIN t = 1..Len(t)
    BY ConcatProperties, LenProperties
  <1>2. ASSUME rec \notin ToSet(t) PROVE Places(s \o t, rec) = Places(s, rec)
    <2>1. \A i \in 1..Len(t) : t[i] # rec
      BY <1>1, <1>2 DEF ToSet
    <2>2. \A i \in 1..Len(s) + Len(t) : i \in 1..Len(s) \/ i - Len(s) \in 1..Len(t)
      BY <1>1
    <2>3. \A i \in 1..Len(s) : i \in 1..Len(s) + Len(t) /\ i <= Len(s)
      BY <1>1
    <2>4. \A i \in 1..Len(s) + Len(t) : i - Len(s) \in 1..Len(t) => ~(i <= Len(s))
      BY <1>1
    <2> QED BY <1>1, <2>1, <2>2, <2>3, <2>4 DEF Places
  <1>3. ASSUME rec \in ToSet(t)
        PROVE  Cardinality(Places(s \o t, rec)) = Cardinality(Places(s, rec)) + 1
    <2>1. PICK n \in 1..Len(t) : t[n] = rec
      BY <1>1, <1>3 DEF ToSet
    <2>2. \A m \in 1..Len(t) : t[m] = rec => m = n
      <3>1. \A m \in 1..Len(t) : t[m] \in Nat
        BY ElementOfSeq
      <3>2. ASSUME NEW m \in 1..Len(t), t[m] = rec, m # n PROVE FALSE
        <4>1. m < n \/ n < m
          BY <1>1, <3>2
        <4>2. t[m] < t[n] \/ t[n] < t[m]
          BY <2>1, <4>1 DEF Ascends
        <4> QED BY <2>1, <3>1, <3>2, <4>2
      <3> QED BY <3>2
    <2>3. /\ Len(s) + n \in 1..Len(s) + Len(t) /\ ~(Len(s) + n <= Len(s))
          /\ (Len(s) + n) - Len(s) = n /\ Len(s) + n \notin 1..Len(s)
      BY <1>1
    <2>4. \A i \in 1..Len(s) + Len(t) :
            \/ i \in 1..Len(s) /\ i <= Len(s)
            \/ i - Len(s) \in 1..Len(t) /\ ~(i <= Len(s)) /\ i = Len(s) + (i - Len(s))
      BY <1>1
    <2>5. \A i \in 1..Len(s) : i \in 1..Len(s) + Len(t) /\ i <= Len(s)
      BY <1>1
    <2>6. Places(s \o t, rec) = Places(s, rec) \cup {Len(s) + n}
      <3>1. ASSUME NEW i \in Places(s \o t, rec)
            PROVE  i \in Places(s, rec) \cup {Len(s) + n}
        <4>1. i \in 1..Len(s) + Len(t) /\ (s \o t)[i] = rec
          BY <1>1 DEF Places
        <4>2. CASE i \in 1..Len(s) /\ i <= Len(s)
          BY <1>1, <4>1, <4>2 DEF Places
        <4>3. CASE i - Len(s) \in 1..Len(t) /\ ~(i <= Len(s)) /\ i = Len(s) + (i - Len(s))
          <5>1. t[i - Len(s)] = rec
            BY <1>1, <4>1, <4>3
          <5> QED BY <2>2, <4>3, <5>1
        <4> QED BY <2>4, <4>1, <4>2, <4>3
      <3>2. Places(s, rec) \subseteq Places(s \o t, rec)
        BY <1>1, <2>5 DEF Places
      <3>3. Len(s) + n \in Places(s \o t, rec)
        BY <1>1, <2>1, <2>3 DEF Places
      <3> QED BY <3>1, <3>2, <3>3
    <2>7. Len(s) + n \notin Places(s, rec)
      BY <1>1, <2>3 DEF Places
    <2> QED BY <2>6, <2>7, PlacesAreFinite, FS_AddElement
  <1> QED BY <1>2, <1>3

(* A record of an ascending sequence has one place.                         *)
LEMMA AscendingPlaces ==
  ASSUME NEW s \in Seq(Nat), Ascends(s), NEW rec \in Nat
  PROVE  Cardinality(Places(s, rec)) <= 1
  <1>1. DOMAIN s = 1..Len(s) /\ Len(s) \in Nat /\ \A i \in 1..Len(s) : s[i] \in Nat
    BY LenProperties, ElementOfSeq
  <1>2. \A i, j \in Places(s, rec) : i = j
    <2> SUFFICES ASSUME NEW i \in Places(s, rec), NEW j \in Places(s, rec), i # j PROVE FALSE
      OBVIOUS
    <2>1. i \in 1..Len(s) /\ j \in 1..Len(s) /\ s[i] = rec /\ s[j] = rec
      BY <1>1 DEF Places
    <2>2. i < j \/ j < i
      BY <1>1, <2>1
    <2> QED BY <2>1, <2>2 DEF Ascends
  <1>3. CASE Places(s, rec) = {}
    BY <1>3, FS_EmptySet
  <1>4. CASE \E i : i \in Places(s, rec)
    <2>1. PICK i : i \in Places(s, rec)
      BY <1>4
    <2>2. Places(s, rec) = {i}
      BY <1>2, <2>1
    <2>3. Cardinality({i}) = 1
      BY FS_Singleton
    <2> QED BY <2>2, <2>3
  <1> QED BY <1>3, <1>4

(* An ascending sequence has as many records as places.                     *)
LEMMA AscendingCount ==
  ASSUME NEW s \in Seq(Nat), Ascends(s)
  PROVE  IsFiniteSet(ToSet(s)) /\ Cardinality(ToSet(s)) = Len(s)
  <1>1. DOMAIN s = 1..Len(s) /\ Len(s) \in Nat /\ \A i \in 1..Len(s) : s[i] \in Nat
    BY LenProperties, ElementOfSeq
  <1>2. s \in Surjection(1..Len(s), ToSet(s))
    BY <1>1, LenProperties DEF Surjection, ToSet
  <1>3. \A i, j \in 1..Len(s) : s[i] = s[j] => i = j
    <2> SUFFICES ASSUME NEW i \in 1..Len(s), NEW j \in 1..Len(s), s[i] = s[j], i # j
                 PROVE  FALSE
      OBVIOUS
    <2>1. i < j \/ j < i
      BY <1>1
    <2> QED BY <1>1, <2>1 DEF Ascends
  <1>4. s \in Injection(1..Len(s), ToSet(s))
    <2>1. s \in [1..Len(s) -> ToSet(s)]
      BY <1>2 DEF Surjection
    <2> QED BY <1>1, <1>3, <2>1 DEF Injection, IsInjective
  <1>5. IsFiniteSet(1..Len(s)) /\ Cardinality(1..Len(s)) = Len(s)
    <2>1. IsFiniteSet(1..Len(s)) /\ Cardinality(1..Len(s)) = IF 1 > Len(s) THEN 0 ELSE Len(s) - 1 + 1
      BY <1>1, FS_Interval
    <2> QED BY <1>1, <2>1
  <1> QED BY <1>2, <1>4, <1>5, FS_Surjection
(* The end of an ascending sequence.                                        *)
LEMMA SuffixAscends ==
  ASSUME NEW s \in Seq(Nat), Ascends(s), NEW m \in Nat \ {0}
  PROVE  /\ SubSeq(s, m, Len(s)) \in Seq(Nat) /\ Ascends(SubSeq(s, m, Len(s)))
         /\ \A i \in 1..Len(SubSeq(s, m, Len(s))) :
              \E k \in 1..Len(s) : SubSeq(s, m, Len(s))[i] = s[k]
  <1> DEFINE t == SubSeq(s, m, Len(s))
  <1>1. Len(s) \in Nat /\ \A i \in m..Len(s) : s[i] \in Nat
    BY LenProperties, ElementOfSeq
  <1>2. /\ t \in Seq(Nat)
        /\ Len(t) = IF m <= Len(s) THEN Len(s) - m + 1 ELSE 0
        /\ \A i \in 1..Len(s) - m + 1 : t[i] = s[m + i - 1]
    BY <1>1, SubSeqProperties
  <1> HIDE DEF t
  <1>3. \A i \in 1..Len(t) : m + i - 1 \in 1..Len(s) /\ t[i] = s[m + i - 1]
    BY <1>1, <1>2
  <1>4. ASSUME NEW i \in 1..Len(t), NEW j \in 1..Len(t), i < j PROVE t[i] < t[j]
    <2>1. m + i - 1 < m + j - 1
      BY <1>1, <1>2, <1>4
    <2> QED BY <1>3, <2>1 DEF Ascends
  <1>5. Ascends(t)
    BY <1>4 DEF Ascends
  <1> QED BY <1>2, <1>3, <1>5 DEF t

(* What the other side has when the request under way has been delivered.   *)
LEMMA DeliveryKeeps ==
  ASSUME RemoteInv, NEW all, all = received \o payload
  PROVE  /\ all \in Seq(Nat)
         /\ \A k \in 1..Len(all) : all[k] <= remote_written
         /\ \A i, j \in 1..Len(all) :
              i < j /\ all[i] > all[j] => \E k \in 1..i : all[k] = all[j]
         /\ \A n \in 1..Len(payload), i \in 1..Len(all) :
              all[i] >= payload[n] => \E k \in 1..i : all[k] = payload[n]
         /\ remote_sink = "sqlite" => Ascends(all)
         /\ ToSet(all) = ToSet(received) \cup ToSet(payload)
         /\ \A rec \in Nat :
              /\ Cardinality(Places(all, rec)) <= Retries + 1
              /\ rec \in ToSet(payload) =>
                   Cardinality(Places(all, rec)) <= remote_attempts + 1
  <1> DEFINE m == Len(received)  n == Len(payload)
  <1>1. /\ all \in Seq(Nat) /\ Len(all) = m + n /\ m \in Nat /\ n \in Nat
        /\ DOMAIN all = 1..m + n /\ DOMAIN received = 1..m /\ DOMAIN payload = 1..n
        /\ \A i \in 1..m + n : all[i] = IF i <= m THEN received[i] ELSE payload[i - m]
    <2>1. received \in Seq(Nat) /\ payload \in Seq(Nat)
      BY DEF RemoteInv, RemoteTypes
    <2> QED BY <2>1, ConcatProperties, LenProperties
  <1>2. /\ \A i \in 1..m : received[i] \in Nat
        /\ \A i \in 1..n : payload[i] \in Nat
    BY ElementOfSeq DEF RemoteInv, RemoteTypes
  <1> HIDE DEF m, n
  <1>3. \A i \in 1..m : i \in 1..m + n /\ all[i] = received[i]
    BY <1>1
  <1>4. \A i \in 1..n : m + i \in 1..m + n /\ all[m + i] = payload[i] /\ m + i > m
    <2>1. \A i \in 1..n : /\ m + i \in 1..m + n /\ ~(m + i <= m) /\ (m + i) - m = i
                          /\ m + i > m
      BY <1>1
    <2> QED BY <1>1, <2>1
  <1>5. \A i \in 1..m + n : i \in 1..m \/ \E h \in 1..n : i = m + h
    <2>1. \A i \in 1..m + n : i \in 1..m \/ (i - m \in 1..n /\ i = m + (i - m))
      BY <1>1
    <2> QED BY <2>1
  <1>6. /\ \A i, j \in 1..n : i < j => payload[i] < payload[j]
        /\ \A i \in 1..n : payload[i] <= remote_written
        /\ \A i \in 1..m : received[i] <= remote_written
        /\ \A h \in 1..n, i \in 1..m :
             received[i] >= payload[h] => \E k \in 1..i : received[k] = payload[h]
        /\ \A i, j \in 1..m :
             i < j /\ received[i] > received[j] => \E k \in 1..i : received[k] = received[j]
    BY DEF RemoteInv, PendingInv, Ahead, Ascends, ArrivedInv, m, n
  <1>7. \A k \in 1..Len(all) : all[k] <= remote_written
    BY <1>1, <1>3, <1>4, <1>5, <1>6
  <1>8. ASSUME NEW h \in 1..n, NEW i \in 1..Len(all), all[i] >= payload[h]
        PROVE  \E k \in 1..i : all[k] = payload[h]
    <2>1. CASE i \in 1..m
      <3>1. PICK k \in 1..i : received[k] = payload[h]
        BY <1>3, <1>6, <1>8, <2>1
      <3>2. k \in 1..m
        BY <1>1, <2>1
      <3> QED BY <1>3, <3>1, <3>2
    <2>2. ASSUME NEW g \in 1..n, i = m + g PROVE \E k \in 1..i : all[k] = payload[h]
      <3>1. payload[g] >= payload[h]
        BY <1>4, <1>8, <2>2
      <3>2. h <= g
        <4>1. ~(g < h)
          <5>1. g < h => payload[g] < payload[h]
            BY <1>6
          <5> QED BY <1>2, <3>1, <5>1
        <4> QED BY <1>1, <4>1
      <3>3. m + h \in 1..i
        BY <1>1, <2>2, <3>2
      <3> QED BY <1>4, <3>3
    <2> QED BY <1>1, <1>5, <2>1, <2>2
  <1>9. ASSUME NEW i \in 1..Len(all), NEW j \in 1..Len(all), i < j, all[i] > all[j]
        PROVE  \E k \in 1..i : all[k] = all[j]
    <2>1. CASE j \in 1..m
      <3>1. i \in 1..m
        BY <1>1, <1>9, <2>1
      <3>2. PICK k \in 1..i : received[k] = received[j]
        BY <1>3, <1>6, <1>9, <2>1, <3>1
      <3>3. k \in 1..m
        BY <1>1, <3>1
      <3> QED BY <1>3, <2>1, <3>2, <3>3
    <2>2. ASSUME NEW h \in 1..n, j = m + h PROVE \E k \in 1..i : all[k] = all[j]
      <3>1. all[j] = payload[h] /\ all[i] \in Nat /\ payload[h] \in Nat
        BY <1>1, <1>2, <1>4, <2>2, ElementOfSeq
      <3>2. all[i] >= payload[h]
        BY <1>9, <3>1
      <3>3. \E k \in 1..i : all[k] = payload[h]
        BY <1>8, <3>2
      <3> QED BY <3>1, <3>3
    <2> QED BY <1>1, <1>5, <2>1, <2>2
  <1>10. ASSUME remote_sink = "sqlite" PROVE Ascends(all)
    <2>1. /\ \A i, j \in 1..m : i < j => received[i] < received[j]
          /\ \A h \in 1..n, i \in 1..m : received[i] < payload[h]
      BY <1>10 DEF RemoteInv, ArrivedInv, Ascends, m, n
    <2>2. SUFFICES ASSUME NEW i \in 1..m + n, NEW j \in 1..m + n, i < j
                   PROVE  all[i] < all[j]
      BY <1>1 DEF Ascends
    <2>3. CASE j \in 1..m
      <3>1. i \in 1..m
        BY <1>1, <2>2, <2>3
      <3> QED BY <1>3, <2>1, <2>2, <2>3, <3>1
    <2>4. ASSUME NEW h \in 1..n, j = m + h PROVE all[i] < all[j]
      <3>1. CASE i \in 1..m
        BY <1>3, <1>4, <2>1, <2>4, <3>1
      <3>2. ASSUME NEW g \in 1..n, i = m + g PROVE all[i] < all[j]
        <4>1. g < h
          BY <1>1, <2>2, <2>4, <3>2
        <4> QED BY <1>4, <1>6, <2>4, <3>2, <4>1
      <3> QED BY <1>5, <3>1, <3>2
    <2> QED BY <1>5, <2>3, <2>4
  <1>11. ToSet(all) = ToSet(received) \cup ToSet(payload)
    <2>1. ToSet(all) \subseteq ToSet(received) \cup ToSet(payload)
      <3>1. ASSUME NEW i \in 1..m + n
            PROVE  all[i] \in ToSet(received) \cup ToSet(payload)
        <4>1. CASE i \in 1..m
          BY <1>1, <1>3, <4>1 DEF ToSet
        <4>2. ASSUME NEW h \in 1..n, i = m + h PROVE all[i] \in ToSet(payload)
          BY <1>1, <1>4, <4>2 DEF ToSet
        <4> QED BY <1>5, <4>1, <4>2
      <3> QED BY <1>1, <3>1 DEF ToSet
    <2>2. ToSet(received) \subseteq ToSet(all)
      BY <1>1, <1>3 DEF ToSet
    <2>3. ToSet(payload) \subseteq ToSet(all)
      BY <1>1, <1>4 DEF ToSet
    <2> QED BY <2>1, <2>2, <2>3
  <1>12. ASSUME NEW rec \in Nat
         PROVE  /\ Cardinality(Places(all, rec)) <= Retries + 1
                /\ rec \in ToSet(payload) =>
                     Cardinality(Places(all, rec)) <= remote_attempts + 1
    <2>1. /\ rec \in ToSet(payload) =>
               Cardinality(Places(all, rec)) = Cardinality(Places(received, rec)) + 1
          /\ rec \notin ToSet(payload) => Places(all, rec) = Places(received, rec)
      BY AppendPlaces DEF RemoteInv, RemoteTypes, PendingInv, Ahead
    <2>2. /\ rec \in ToSet(payload) =>
               Cardinality(Places(received, rec)) <= remote_attempts
          /\ Cardinality(Places(received, rec)) <= Retries + 1
          /\ Cardinality(Places(received, rec)) \in Nat
          /\ remote_attempts \in 0..Retries /\ Retries \in Nat
      BY PlacesAreFinite, RemoteAssumption DEF RemoteInv, RemoteTypes, RepeatsInv, Retries
    <2>3. CASE rec \in ToSet(payload)
      BY <2>1, <2>2, <2>3
    <2>4. CASE rec \notin ToSet(payload)
      BY <2>1, <2>2, <2>4
    <2> QED BY <2>3, <2>4
  <1>13. all \in Seq(Nat)
    BY <1>1
  <1>14. \A h \in 1..Len(payload), i \in 1..Len(all) :
           all[i] >= payload[h] => \E k \in 1..i : all[k] = payload[h]
    BY <1>8 DEF n
  <1> QED BY <1>7, <1>9, <1>10, <1>11, <1>12, <1>13, <1>14

(* A call sends records that are in order and behind all that was answered  *)
(* or has arrived.                                                          *)
LEMMA SendKeeps ==
  ASSUME RemoteInv, NEW s \in Seq(Nat), Ascends(s), BeginSend(s),
         remote_written' \in Nat, remote_written' >= remote_written,
         \A i \in 1..Len(s) :
           /\ s[i] <= remote_written'
           /\ \A rec \in answered : rec < s[i]
           /\ \A k \in 1..Len(received) : received[k] < s[i],
         UNCHANGED <<remote_sink, accepted, received, answered>>
  PROVE  RemoteInv'
  <1>1. /\ batch' = <<>> /\ payload' = s /\ remote_attempts' = 0
        /\ remote_written \in Nat
    BY DEF BeginSend, RemoteInv, RemoteTypes
  <1>2. /\ Retries' = Retries /\ Retries \in Nat
    BY RemoteAssumption DEF Retries
  <1>3. \A i \in 1..Len(s) : s[i] \in Nat
    BY ElementOfSeq
  <1>4. \A i \in 1..Len(received) : received[i] \in Nat
    BY ElementOfSeq DEF RemoteInv, RemoteTypes
  <1>5. RemoteTypes'
    <2>1. \A rec \in 0..remote_written : rec \in 0..remote_written'
      BY <1>1
    <2> QED BY <1>1, <1>2, <2>1 DEF RemoteInv, RemoteTypes
  <1>6. PendingInv'
    <2>1. Len(<<>>) = 0
      OBVIOUS
    <2>2. \A k \in 1..Len(received) : received[k] <= remote_written'
      <3>1. \A k \in 1..Len(received) : received[k] <= remote_written
        BY DEF RemoteInv, PendingInv
      <3> QED BY <1>1, <1>4, <3>1
    <2>3. Ahead(batch)'
      BY <1>1, <2>1 DEF Ahead, Ascends
    <2>4. Ahead(payload)'
      BY <1>1 DEF Ahead
    <2> QED BY <1>1, <2>1, <2>2, <2>3, <2>4 DEF PendingInv
  <1>7. ArrivedInv'
    <2>1. \A n \in 1..Len(s), i \in 1..Len(received) :
            received[i] < s[n] /\ ~(received[i] >= s[n])
      BY <1>3, <1>4
    <2> QED BY <1>1, <2>1 DEF RemoteInv, ArrivedInv
  <1>8. RepeatsInv'
    <2>1. ASSUME NEW rec \in Nat, rec \in ToSet(s) PROVE Cardinality(Places(received, rec)) <= 0
      <3>1. PICK i \in 1..Len(s) : s[i] = rec
        BY <2>1, LenProperties DEF ToSet
      <3>2. DOMAIN received = 1..Len(received)
        BY LenProperties DEF RemoteInv, RemoteTypes
      <3>3. \A k \in 1..Len(received) : received[k] # rec
        BY <1>3, <1>4, <3>1
      <3>4. Places(received, rec) = {}
        BY <3>2, <3>3 DEF Places
      <3> QED BY <3>4, FS_EmptySet
    <2> QED BY <1>1, <1>2, <2>1 DEF RemoteInv, RepeatsInv
  <1>9. CountedInv'
    BY DEF RemoteInv, CountedInv
  <1> QED BY <1>5, <1>6, <1>7, <1>8, <1>9 DEF RemoteInv

(* A record written is the last of what waits.                              *)
LEMMA RemoteWriteKeeps ==
  ASSUME RemoteInv, NEW at_once \in BOOLEAN, RemoteWrite(at_once) PROVE RemoteInv'
  <1> DEFINE newest == remote_written + 1  due == Append(batch, newest)
  <1>1. /\ remote_written \in Nat /\ remote_written' = newest /\ newest \in Nat
        /\ newest >= remote_written
        /\ batch \in Seq(Nat) /\ payload = <<>> /\ payload \in Seq(Nat)
        /\ UNCHANGED <<remote_sink, accepted, received, answered>>
    BY DEF RemoteInv, RemoteTypes, RemoteWrite, NoCall
  <1>2. /\ due \in Seq(Nat) /\ Len(due) = Len(batch) + 1 /\ Len(batch) \in Nat
        /\ \A i \in 1..Len(batch) : due[i] = batch[i] /\ batch[i] \in Nat
        /\ due[Len(batch) + 1] = newest
    BY <1>1, AppendProperties, ElementOfSeq, LenProperties
  <1> HIDE DEF due
  <1>3. /\ \A i, j \in 1..Len(batch) : i < j => batch[i] < batch[j]
        /\ \A i \in 1..Len(batch) :
             /\ batch[i] <= remote_written /\ \A rec \in answered : rec < batch[i]
             /\ \A k \in 1..Len(received) : received[k] < batch[i]
        /\ \A rec \in answered : rec \in 0..remote_written
        /\ \A k \in 1..Len(received) : received[k] \in Nat /\ received[k] <= remote_written
    BY ElementOfSeq DEF RemoteInv, RemoteTypes, PendingInv, Ahead, Ascends
  <1>4. \A i \in 1..Len(due) : i \in 1..Len(batch) \/ i = Len(batch) + 1
    BY <1>2
  <1>5. Ascends(due)
    <2> SUFFICES ASSUME NEW i \in 1..Len(due), NEW j \in 1..Len(due), i < j
                 PROVE  due[i] < due[j]
      BY DEF Ascends
    <2>1. i \in 1..Len(batch)
      BY <1>2
    <2>2. CASE j \in 1..Len(batch)
      BY <1>2, <1>3, <2>1, <2>2
    <2>3. CASE j = Len(batch) + 1
      <3>1. batch[i] <= remote_written /\ batch[i] \in Nat
        BY <1>2, <1>3, <2>1
      <3> QED BY <1>1, <1>2, <2>1, <2>3, <3>1
    <2> QED BY <1>4, <2>2, <2>3
  <1>6. ASSUME NEW i \in 1..Len(due)
        PROVE  /\ due[i] <= newest
               /\ \A rec \in answered : rec < due[i]
               /\ \A k \in 1..Len(received) : received[k] < due[i]
    <2>1. CASE i \in 1..Len(batch)
      <3>1. due[i] = batch[i] /\ batch[i] \in Nat /\ batch[i] <= remote_written
        BY <1>2, <1>3, <2>1
      <3>2. due[i] <= newest
        BY <1>1, <3>1
      <3> QED BY <1>3, <2>1, <3>1, <3>2
    <2>2. CASE i = Len(batch) + 1
      <3>1. newest <= newest /\ \A rec \in 0..remote_written : rec < newest
        BY <1>1
      <3>2. \A k \in 1..Len(received) : received[k] < newest
        BY <1>1, <1>3
      <3> QED BY <1>2, <1>3, <2>2, <3>1, <3>2
    <2> QED BY <1>4, <2>1, <2>2
  <1>7. CASE BeginSend(due)
    BY <1>1, <1>2, <1>5, <1>6, <1>7, SendKeeps
  <1>8. CASE batch' \in {batch, due} /\ UNCHANGED <<payload, remote_attempts>>
    <2>1. Retries' = Retries
      BY <1>1 DEF Retries
    <2>2. RemoteTypes'
      <3>1. \A rec \in 0..remote_written : rec \in 0..newest
        BY <1>1
      <3> QED BY <1>1, <1>2, <1>8, <2>1, <3>1 DEF RemoteInv, RemoteTypes
    <2>3. /\ Ascends(batch')
          /\ \A i \in 1..Len(batch') :
               /\ batch'[i] <= newest /\ \A rec \in answered : rec < batch'[i]
               /\ \A k \in 1..Len(received) : received[k] < batch'[i]
      <3>1. CASE batch' = due
        BY <1>5, <1>6, <3>1
      <3>2. CASE batch' = batch
        <4>1. \A i \in 1..Len(batch) : batch[i] <= newest
          BY <1>1, <1>2, <1>3
        <4> QED BY <1>3, <3>2, <4>1 DEF Ascends
      <3> QED BY <1>8, <3>1, <3>2
    <2>4. PendingInv'
      <3>1. \A k \in 1..Len(received) : received[k] <= newest
        BY <1>1, <1>3
      <3>2. Ahead(batch)'
        BY <1>1, <2>3 DEF Ahead
      <3>3. Ahead(payload)'
        <4>1. payload' = <<>> /\ Len(<<>>) = 0
          BY <1>1, <1>8
        <4> QED BY <4>1 DEF Ahead, Ascends
      <3> QED BY <1>1, <1>8, <2>3, <3>1, <3>2, <3>3 DEF PendingInv
    <2>5. ArrivedInv' /\ RepeatsInv' /\ CountedInv'
      BY <1>1, <1>8, <2>1 DEF RemoteInv, ArrivedInv, RepeatsInv, CountedInv
    <2> QED BY <2>2, <2>4, <2>5 DEF RemoteInv
  <1> QED BY <1>7, <1>8 DEF RemoteWrite, due

(* The answer counts the records of a request once each.                    *)
LEMMA AnsweredKeeps == ASSUME RemoteInv, Answered PROVE RemoteInv'
  <1> DEFINE all == received \o payload
  <1>1. /\ payload # <<>> /\ batch = <<>> /\ batch' = <<>> /\ payload' = <<>>
        /\ accepted' = accepted + Len(payload) /\ answered' = answered \cup ToSet(payload)
        /\ UNCHANGED <<remote_sink, remote_attempts, remote_written>>
        /\ received' = Kept(all)
    BY DEF RemoteInv, PendingInv, Answered, NoCall
  <1>2. /\ all \in Seq(Nat) /\ \A k \in 1..Len(all) : all[k] <= remote_written
        /\ \A i, j \in 1..Len(all) :
             i < j /\ all[i] > all[j] => \E k \in 1..i : all[k] = all[j]
        /\ remote_sink = "sqlite" => Ascends(all)
        /\ ToSet(all) = ToSet(received) \cup ToSet(payload)
        /\ \A rec \in Nat : Cardinality(Places(all, rec)) <= Retries + 1
    BY DeliveryKeeps
  <1> HIDE DEF all
  <1>3. /\ Retries' = Retries /\ Retries \in Nat
        /\ remote_sink = "sqlite" => Retries = 0
    BY <1>1, RemoteAssumption DEF Retries
  <1>4. \/ received' = all
        \/ /\ remote_sink = "sqlite" /\ max_rows > 0
           /\ \E m \in Nat \ {0} : received' = SubSeq(all, m, Len(all))
    <2>1. Max({1, Len(all) - max_rows + 1}) \in Nat \ {0}
      <3> DEFINE x == Len(all) - max_rows + 1
      <3>1. x \in Int
        BY <1>2, LenProperties, RemoteAssumption
      <3> HIDE DEF x
      <3>2. \E y \in {1, x} : \A z \in {1, x} : y >= z
        <4>1. x >= 1 \/ 1 >= x
          BY <3>1
        <4> QED BY <3>1, <4>1
      <3>3. Max({1, x}) \in {1, x} /\ Max({1, x}) >= 1
        BY <3>2 DEF Max
      <3> QED BY <3>1, <3>3 DEF x
    <2> QED BY <1>1, <2>1 DEF Kept
  <1>5. /\ received' \in Seq(Nat)
        /\ \A k \in 1..Len(received') : received'[k] <= remote_written
        /\ \A i, j \in 1..Len(received') :
             i < j /\ received'[i] > received'[j] => \E k \in 1..i : received'[k] = received'[j]
        /\ remote_sink = "sqlite" => Ascends(received')
        /\ \A rec \in Nat : Cardinality(Places(received', rec)) <= Retries + 1
    <2>1. CASE received' = all
      BY <1>2, <2>1
    <2>2. CASE /\ remote_sink = "sqlite"
               /\ \E m \in Nat \ {0} : received' = SubSeq(all, m, Len(all))
      <3>0. PICK m \in Nat \ {0} : received' = SubSeq(all, m, Len(all))
        BY <2>2
      <3>1. /\ received' \in Seq(Nat) /\ Ascends(received')
            /\ \A i \in 1..Len(received') : \E k \in 1..Len(all) : received'[i] = all[k]
        BY <1>2, <2>2, <3>0, SuffixAscends
      <3>2. \A k \in 1..Len(received') : received'[k] <= remote_written
        BY <1>2, <3>1
      <3>3. ASSUME NEW i \in 1..Len(received'), NEW j \in 1..Len(received'), i < j
            PROVE  ~(received'[i] > received'[j])
        <4>1. received'[i] < received'[j] /\ received'[i] \in Nat /\ received'[j] \in Nat
          BY <3>1, <3>3, ElementOfSeq DEF Ascends
        <4> QED BY <4>1
      <3>4. \A rec \in Nat : Cardinality(Places(received', rec)) <= Retries + 1
        <4>1. Retries + 1 = 1
          BY <1>3, <2>2
        <4> QED BY <3>1, <4>1, AscendingPlaces
      <3> QED BY <3>1, <3>2, <3>3, <3>4
    <2> QED BY <1>4, <2>1, <2>2
  <1>6. /\ payload \in Seq(Nat) /\ Ascends(payload) /\ accepted = Cardinality(answered)
        /\ \A i \in 1..Len(payload) :
             payload[i] \in 0..remote_written /\ \A rec \in answered : rec < payload[i]
    <2>1. payload \in Seq(Nat) /\ remote_written \in Nat
      BY DEF RemoteInv, RemoteTypes
    <2>2. \A i \in 1..Len(payload) : payload[i] \in Nat
      BY <2>1, ElementOfSeq
    <2> QED BY <2>1, <2>2 DEF RemoteInv, PendingInv, Ahead, CountedInv
  <1>7. /\ answered' \subseteq 0..remote_written
        /\ accepted' = Cardinality(answered') /\ accepted' \in Nat
    <2>1. DOMAIN payload = 1..Len(payload)
      BY <1>6, LenProperties
    <2>2. answered \subseteq 0..remote_written /\ remote_written \in Nat /\ accepted \in Nat
      BY DEF RemoteInv, RemoteTypes
    <2>3. ToSet(payload) \subseteq 0..remote_written
      BY <1>6, <2>1 DEF ToSet
    <2>4. answered \cap ToSet(payload) = {}
      <3> SUFFICES ASSUME NEW rec \in answered, rec \in ToSet(payload) PROVE FALSE
        OBVIOUS
      <3>1. rec \in Nat /\ rec < rec
        BY <1>6, <2>1, <2>2 DEF ToSet
      <3> QED BY <3>1
    <2>5. IsFiniteSet(answered)
      <3>1. IsFiniteSet(0..remote_written)
        BY <2>2, FS_Interval
      <3> QED BY <2>2, <3>1, FS_Subset
    <2>6. IsFiniteSet(ToSet(payload)) /\ Cardinality(ToSet(payload)) = Len(payload)
      BY <1>6, AscendingCount
    <2>7. Cardinality(answered \cup ToSet(payload)) =
            Cardinality(answered) + Len(payload) - Cardinality({})
      BY <2>4, <2>5, <2>6, FS_Union
    <2>8. Cardinality({}) = 0 /\ Cardinality(answered) \in Nat /\ Len(payload) \in Nat
      BY <1>6, <2>5, FS_EmptySet, FS_CardinalityType, LenProperties
    <2>9. accepted' = Cardinality(answered') /\ accepted' \in Nat
      BY <1>1, <1>6, <2>7, <2>8
    <2> QED BY <1>1, <2>2, <2>3, <2>9
  <1>8. RemoteTypes'
    BY <1>1, <1>3, <1>5, <1>7 DEF RemoteInv, RemoteTypes
  <1>9. Len(<<>>) = 0 /\ ToSet(<<>>) = {}
    BY DEF ToSet
  <1>10. PendingInv'
    <2>1. Ahead(batch)' /\ Ahead(payload)'
      BY <1>1, <1>9 DEF Ahead, Ascends
    <2> QED BY <1>1, <1>5, <1>9, <2>1 DEF PendingInv
  <1>11. ArrivedInv' /\ RepeatsInv'
    BY <1>1, <1>3, <1>5, <1>9 DEF ArrivedInv, RepeatsInv
  <1>12. CountedInv'
    <2>1. ASSUME remote_sink # "sqlite" \/ max_rows = 0
          PROVE  answered' \subseteq ToSet(received')
      <3>1. received' = all
        BY <1>4, <2>1
      <3>2. answered \subseteq ToSet(received)
        BY <2>1 DEF RemoteInv, CountedInv
      <3> QED BY <1>1, <1>2, <3>1, <3>2
    <2> QED BY <1>1, <1>7, <2>1 DEF CountedInv
  <1> QED BY <1>8, <1>10, <1>11, <1>12 DEF RemoteInv

(* A failed attempt may have been delivered; the other side cannot tell a   *)
(* retry from a request that is new.                                        *)
LEMMA AttemptFailsKeeps ==
  ASSUME RemoteInv, NEW arrived \in BOOLEAN, AttemptFails(arrived)
  PROVE  RemoteInv'
  <1> DEFINE all == received \o payload
  <1>1. /\ payload # <<>> /\ batch = <<>> /\ batch' = <<>>
        /\ UNCHANGED <<remote_sink, accepted, remote_written, answered>>
        /\ \/ received' = received
           \/ received' = all /\ remote_sink # "sqlite"
        /\ remote_attempts \in 0..Retries
        /\ \/ /\ remote_attempts < Retries /\ payload' = payload
              /\ remote_attempts' = remote_attempts + 1
           \/ payload' = <<>> /\ remote_attempts' = remote_attempts
    BY DEF RemoteInv, RemoteTypes, PendingInv, AttemptFails, NoCall
  <1>2. /\ all \in Seq(Nat) /\ \A k \in 1..Len(all) : all[k] <= remote_written
        /\ \A i, j \in 1..Len(all) :
             i < j /\ all[i] > all[j] => \E k \in 1..i : all[k] = all[j]
        /\ \A n \in 1..Len(payload), i \in 1..Len(all) :
             all[i] >= payload[n] => \E k \in 1..i : all[k] = payload[n]
        /\ ToSet(all) = ToSet(received) \cup ToSet(payload)
        /\ \A rec \in Nat :
             /\ Cardinality(Places(all, rec)) <= Retries + 1
             /\ rec \in ToSet(payload) =>
                  Cardinality(Places(all, rec)) <= remote_attempts + 1
    BY DeliveryKeeps
  <1> HIDE DEF all
  <1>3. Retries' = Retries /\ Retries \in Nat
    BY <1>1, RemoteAssumption DEF Retries
  <1>4. Len(<<>>) = 0 /\ ToSet(<<>>) = {}
    BY DEF ToSet
  <1>5. RemoteTypes'
    <2>1. remote_attempts' \in 0..Retries
      BY <1>1, <1>3
    <2>2. payload' \in Seq(Nat) /\ batch' \in Seq(Nat) /\ received' \in Seq(Nat)
      BY <1>1, <1>2 DEF RemoteInv, RemoteTypes
    <2> QED BY <1>1, <1>3, <2>1, <2>2 DEF RemoteInv, RemoteTypes
  <1>6. PendingInv'
    <2>1. Ahead(batch)'
      BY <1>1, <1>4 DEF Ahead, Ascends
    <2>2. Ahead(payload)'
      <3>1. CASE payload' = payload
        BY <1>1, <3>1 DEF RemoteInv, PendingInv, Ahead
      <3>2. CASE payload' = <<>>
        BY <1>4, <3>2 DEF Ahead, Ascends
      <3> QED BY <1>1, <3>1, <3>2
    <2>3. \A k \in 1..Len(received') : received'[k] <= remote_written
      BY <1>1, <1>2 DEF RemoteInv, PendingInv
    <2> QED BY <1>1, <1>4, <2>1, <2>2, <2>3 DEF PendingInv
  <1>7. ArrivedInv'
    <2>1. /\ \A i, j \in 1..Len(received') :
               i < j /\ received'[i] > received'[j] =>
                 \E k \in 1..i : received'[k] = received'[j]
          /\ \A n \in 1..Len(payload), i \in 1..Len(received') :
               received'[i] >= payload[n] => \E k \in 1..i : received'[k] = payload[n]
      <3>1. CASE received' = all
        BY <1>2, <3>1
      <3>2. CASE received' = received
        BY <3>2 DEF RemoteInv, ArrivedInv
      <3> QED BY <1>1, <3>1, <3>2
    <2>2. remote_sink = "sqlite" =>
            /\ Ascends(received')
            /\ \A n \in 1..Len(payload), i \in 1..Len(received') : received'[i] < payload[n]
      BY <1>1 DEF RemoteInv, ArrivedInv
    <2> QED BY <1>1, <1>4, <2>1, <2>2 DEF ArrivedInv
  <1>8. RepeatsInv'
    <2>1. \A rec \in Nat :
            /\ Cardinality(Places(received', rec)) <= Retries + 1
            /\ rec \in ToSet(payload) =>
                 Cardinality(Places(received', rec)) <= remote_attempts + 1
      <3>1. CASE received' = all
        BY <1>2, <3>1
      <3>2. CASE received' = received
        <4>1. ASSUME NEW rec \in Nat
              PROVE  /\ Cardinality(Places(received, rec)) <= Retries + 1
                     /\ rec \in ToSet(payload) =>
                          Cardinality(Places(received, rec)) <= remote_attempts + 1
          <5>1. /\ Cardinality(Places(received, rec)) \in Nat
                /\ Cardinality(Places(received, rec)) <= Retries + 1
                /\ rec \in ToSet(payload) => Cardinality(Places(received, rec)) <= remote_attempts
            BY PlacesAreFinite DEF RemoteInv, RemoteTypes, RepeatsInv
          <5> QED BY <1>1, <1>3, <5>1
        <4> QED BY <3>2, <4>1
      <3> QED BY <1>1, <3>1, <3>2
    <2>2. CASE payload' = payload /\ remote_attempts' = remote_attempts + 1
      BY <1>3, <2>1, <2>2 DEF RepeatsInv
    <2>3. CASE payload' = <<>>
      BY <1>3, <1>4, <2>1, <2>3 DEF RepeatsInv
    <2> QED BY <1>1, <2>2, <2>3
  <1>9. CountedInv'
    <2>1. ToSet(received) \subseteq ToSet(received')
      BY <1>1, <1>2
    <2> QED BY <1>1, <2>1 DEF RemoteInv, CountedInv
  <1> QED BY <1>5, <1>6, <1>7, <1>8, <1>9 DEF RemoteInv

(* No step breaks the invariant of the remote sinks.                        *)
LEMMA RemoteStepKeeps == ASSUME RemoteInv, [RemoteNext]_remotevars PROVE RemoteInv'
  <1>1. CASE RemoteOpen \/ RemoteClose \/ UNCHANGED remotevars
    <2>1. UNCHANGED <<remote_sink, batch, payload, remote_attempts, accepted,
                      remote_written, received, answered>>
      BY <1>1 DEF RemoteOpen, RemoteClose, remotevars
    <2> QED BY <2>1 DEF RemoteInv, RemoteTypes, PendingInv, Ahead, ArrivedInv,
                        RepeatsInv, CountedInv, Retries
  <1>2. CASE RemoteFlush
    <2>1. /\ batch \in Seq(Nat) /\ Ascends(batch) /\ BeginSend(batch)
          /\ remote_written' \in Nat /\ remote_written' >= remote_written
          /\ \A i \in 1..Len(batch) :
               /\ batch[i] <= remote_written'
               /\ \A rec \in answered : rec < batch[i]
               /\ \A k \in 1..Len(received) : received[k] < batch[i]
          /\ UNCHANGED <<remote_sink, accepted, received, answered>>
      BY <1>2 DEF RemoteFlush, RemoteInv, RemoteTypes, PendingInv, Ahead
    <2> QED BY <2>1, SendKeeps
  <1>3. ASSUME NEW at_once \in BOOLEAN, RemoteWrite(at_once) PROVE RemoteInv'
    BY <1>3, RemoteWriteKeeps
  <1>4. CASE Answered
    BY <1>4, AnsweredKeeps
  <1>5. CASE Refused \/ SentInVain
    <2>1. /\ payload' = <<>>
          /\ UNCHANGED <<remote_sink, batch, remote_attempts, accepted,
                         remote_written, received, answered>>
      BY <1>5 DEF Refused, SentInVain
    <2>2. Len(<<>>) = 0 /\ ToSet(<<>>) = {} /\ <<>> \in Seq(Nat)
      BY DEF ToSet
    <2> QED BY <2>1, <2>2 DEF RemoteInv, RemoteTypes, PendingInv, Ahead, Ascends,
                              ArrivedInv, RepeatsInv, CountedInv, Retries
  <1>6. ASSUME NEW arrived \in BOOLEAN, AttemptFails(arrived) PROVE RemoteInv'
    BY <1>6, AttemptFailsKeeps
  <1> QED BY <1>1, <1>2, <1>3, <1>4, <1>5, <1>6 DEF RemoteNext

(* For every sink, any size of a batch and any number of retries, lost      *)
(* requests and lost answers do not reorder what is sent, and do not       *)
(* repeat it more often than it is tried.                                  *)
THEOREM ExportsStayOrdered == RemoteSpec => []ExportsAreOrdered
  <1>1. RemoteInit => RemoteInv
    <2> SUFFICES ASSUME RemoteInit PROVE RemoteInv
      OBVIOUS
    <2>1. Len(<<>>) = 0 /\ ToSet(<<>>) = {} /\ <<>> \in Seq(Nat)
      BY DEF ToSet
    <2>2. Retries \in Nat
      BY RemoteAssumption DEF Retries
    <2>3. ASSUME NEW rec \in Nat PROVE Cardinality(Places(received, rec)) = 0
      <3>1. Places(received, rec) = {}
        BY <2>1 DEF RemoteInit, Places
      <3> QED BY <3>1, FS_EmptySet
    <2>4. RepeatsInv
      BY <2>1, <2>2, <2>3 DEF RemoteInit, RepeatsInv
    <2>5. CountedInv
      BY FS_EmptySet DEF RemoteInit, CountedInv
    <2> QED BY <2>1, <2>2, <2>4, <2>5 DEF RemoteInit, RemoteInv, RemoteTypes, PendingInv,
                                   Ahead, Ascends, ArrivedInv
  <1>2. RemoteInv => ExportsAreOrdered
    <2> SUFFICES ASSUME RemoteInv PROVE ExportsAreOrdered
      OBVIOUS
    <2>1. DOMAIN received = 1..Len(received) /\ \A i \in 1..Len(received) : received[i] \in Nat
      BY LenProperties, ElementOfSeq DEF RemoteInv, RemoteTypes
    <2>2. \A rec \in ToSet(received) : rec \in Nat
      BY <2>1 DEF ToSet
    <2> QED BY <2>1, <2>2 DEF RemoteInv, ArrivedInv, RepeatsInv, CountedInv, ExportsAreOrdered
  <1> QED BY <1>1, <1>2, RemoteStepKeeps, PTL DEF RemoteSpec

(***************************************************************************)
(* Key rotation (KeyRotation)                                              *)
(*                                                                         *)
(* Between rotations one key is active, during one two are, and none of    *)
(* them is revoked.  A revocation that breaks off a rotation leaves its    *)
(* event in progress: what keeps it from being taken for that of a later   *)
(* rotation is that the event recorded last is the one of the primary.     *)
(***************************************************************************)

(* The events in the history.                                               *)
Events == [old : Nat, new : Nat, due : BOOLEAN,
           status : {"InProgress", "Completed", "Cancelled"}]

(* Types: one key is active, or two.                                        *)
KeyTypes ==
  /\ pairs \in Nat \ {0}
  /\ active_keys \in Seq(1..pairs) /\ Len(active_keys) \in {1, 2}
  /\ primary_key_index \in 1..Len(active_keys)
  /\ rotation_history \in Seq(Events)
  /\ revoked_keys \subseteq 1..pairs

(* The active keys differ and are not revoked, and what signed is one of    *)
(* them or was given up.                                                    *)
ActiveInv ==
  /\ \A i, j \in 1..Len(active_keys) : active_keys[i] = active_keys[j] => i = j
  /\ \A i \in 1..Len(active_keys) : active_keys[i] \notin revoked_keys
  /\ \A kp \in signers \ (revoked_keys \cup withdrawn) :
       \E i \in 1..Len(active_keys) : active_keys[i] = kp

(* While there are two keys, the last event is in progress and is the one   *)
(* that made the primary.                                                   *)
EventInv ==
  Len(active_keys) = 2 =>
    LET n == Len(rotation_history) IN
    /\ n > 0
    /\ rotation_history[n].status = "InProgress"
    /\ rotation_history[n].new = Primary

KeyInv == KeyTypes /\ ActiveInv /\ EventInv

(* A rotation is in progress while there are two keys.                      *)
LEMMA TwoKeys == ASSUME KeyInv, rotation_in_progress PROVE Len(active_keys) = 2
  <1>1. Len(active_keys) \in {1, 2} /\ Len(active_keys) > 1
    BY DEF KeyInv, KeyTypes, rotation_in_progress
  <1> QED BY <1>1

(* Of two active keys, removing one leaves the other.                       *)
LEMMA RemoveOfTwo ==
  ASSUME NEW S, NEW s \in Seq(S), Len(s) = 2, NEW i \in {1, 2}
  PROVE  /\ RemoveAt(s, i) \in Seq(S)
         /\ Len(RemoveAt(s, i)) = 1 /\ RemoveAt(s, i)[1] = s[3 - i]
  <1> DEFINE before == SubSeq(s, 1, i - 1)  after == SubSeq(s, i + 1, Len(s))
  <1>1. \A j \in 1..2 : s[j] \in S
    BY LenProperties, ElementOfSeq
  <1>2. /\ before \in Seq(S) /\ Len(before) = i - 1
        /\ i = 2 => before[1] = s[1]
    <2>1. /\ before \in Seq(S) /\ Len(before) = IF 1 <= i - 1 THEN i - 1 - 1 + 1 ELSE 0
          /\ \A j \in 1..(i - 1) - 1 + 1 : before[j] = s[1 + j - 1]
      <3>1. 1 \in Int /\ i - 1 \in Int /\ \A j \in 1..i - 1 : s[j] \in S
        BY <1>1
      <3> QED BY <3>1, SubSeqProperties
    <2> HIDE DEF before
    <2> QED BY <2>1
  <1>3. /\ after \in Seq(S) /\ Len(after) = 2 - i
        /\ i = 1 => after[1] = s[2]
    <2>1. /\ after \in Seq(S) /\ Len(after) = IF i + 1 <= 2 THEN 2 - (i + 1) + 1 ELSE 0
          /\ \A j \in 1..2 - (i + 1) + 1 : after[j] = s[(i + 1) + j - 1]
      <3>1. i + 1 \in Int /\ 2 \in Int /\ \A j \in i + 1..2 : s[j] \in S
        BY <1>1
      <3> QED BY <3>1, SubSeqProperties
    <2> HIDE DEF after
    <2> QED BY <2>1
  <1>4. RemoveAt(s, i) = before \o after
    BY DEF RemoveAt
  <1> HIDE DEF before, after
  <1>5. /\ before \o after \in Seq(S)
        /\ Len(before \o after) = Len(before) + Len(after)
        /\ \A j \in 1 .. Len(before) + Len(after) :
             (before \o after)[j] = IF j <= Len(before) THEN before[j]
                                    ELSE after[j - Len(before)]
    BY <1>2, <1>3, ConcatProperties
  <1> QED BY <1>2, <1>3, <1>4, <1>5

(* The event in progress recorded last is the last one.                     *)
LEMMA CurrentIsLast ==
  ASSUME KeyInv, Len(active_keys) = 2
  PROVE  Current = Len(rotation_history) /\ Current \in Pending
  <1> DEFINE n == Len(rotation_history)
  <1>1. n \in Nat /\ DOMAIN rotation_history = 1..n
    BY DEF KeyInv, KeyTypes
  <1>2. n \in Pending
    BY <1>1 DEF KeyInv, EventInv, Pending
  <1>3. \A m \in Pending : m \in Nat /\ m <= n
    BY <1>1 DEF Pending
  <1> HIDE DEF n
  <1>4. \A x \in Pending : (\A y \in Pending : x >= y) => x = n
    BY <1>1, <1>2, <1>3
  <1>5. \A y \in Pending : n >= y
    BY <1>1, <1>3
  <1>6. Max(Pending) = n
    BY <1>2, <1>4, <1>5 DEF Max
  <1> QED BY <1>2, <1>6 DEF Current, n

(* Where a key is among the active ones.                                    *)
LEMMA SelectedKey ==
  ASSUME KeyInv, NEW kp
  PROVE  LET at == SelectInSeq(active_keys, LAMBDA k : k = kp) IN
         /\ at = 0 => \A i \in 1..Len(active_keys) : active_keys[i] # kp
         /\ at # 0 => at \in 1..Len(active_keys) /\ active_keys[at] = kp
  <1> DEFINE I == {i \in 1..Len(active_keys) : active_keys[i] = kp}
  <1>1. SelectInSeq(active_keys, LAMBDA k : k = kp) = IF I # {} THEN Min(I) ELSE 0
    BY DEF SelectInSeq
  <1>2. ASSUME I # {} PROVE Min(I) \in I
    <2>1. PICK i \in I : TRUE
      BY <1>2
    <2>2. \A j \in I : i =< j
      BY DEF KeyInv, KeyTypes, ActiveInv
    <2> HIDE DEF I
    <2> QED BY <2>1, <2>2 DEF Min
  <1>3. \A i \in I : i # 0
    BY DEF KeyInv, KeyTypes
  <1> QED BY <1>1, <1>2, <1>3

(* A step that leaves the keys alone, but for the grace of its events.      *)
LEMMA KeysKeep ==
  ASSUME KeyInv, UNCHANGED <<active_keys, primary_key_index, revoked_keys, pairs, withdrawn>>,
         KeyTypes',
         signers' \subseteq signers \cup {Primary},
         Len(rotation_history') = Len(rotation_history),
         \A i \in 1..Len(rotation_history) :
           /\ rotation_history'[i].status = rotation_history[i].status
           /\ rotation_history'[i].new = rotation_history[i].new
  PROVE  KeyInv'
  <1>1. ActiveInv'
    BY DEF KeyInv, KeyTypes, ActiveInv, Primary
  <1>2. EventInv'
    BY DEF KeyInv, KeyTypes, EventInv, Primary
  <1> QED BY <1>1, <1>2 DEF KeyInv

(* A new key becomes the primary, next to the one it will replace.          *)
LEMMA InitiateKeeps == ASSUME KeyInv, InitiateRotation PROVE KeyInv'
  <1> DEFINE event == [old |-> Primary, new |-> pairs + 1,
                       status |-> "InProgress", due |-> FALSE]
  <1>1. /\ Len(active_keys) = 1 /\ active_keys[1] \in 1..pairs /\ pairs \in Nat
        /\ primary_key_index = 1
    BY DEF KeyInv, KeyTypes, InitiateRotation, rotation_in_progress
  <1>2. /\ Len(active_keys') = 2 /\ active_keys'[1] = active_keys[1]
        /\ active_keys'[2] = pairs + 1 /\ primary_key_index' = 2
        /\ active_keys' \in Seq(1..pairs')
    <2>1. active_keys \in Seq(1..pairs + 1) /\ pairs + 1 \in 1..pairs + 1
      <3>1. 1..pairs \subseteq 1..pairs + 1
        BY <1>1
      <3> QED BY <1>1, <3>1, SeqMonotonic DEF KeyInv, KeyTypes
    <2>2. /\ active_keys' = Append(active_keys, pairs + 1) /\ pairs' = pairs + 1
          /\ primary_key_index' = Len(active_keys')
      BY DEF InitiateRotation
    <2>3. /\ Append(active_keys, pairs + 1) \in Seq(1..pairs + 1)
          /\ Len(Append(active_keys, pairs + 1)) = Len(active_keys) + 1
          /\ \A i \in 1..Len(active_keys) : Append(active_keys, pairs + 1)[i] = active_keys[i]
          /\ Append(active_keys, pairs + 1)[Len(active_keys) + 1] = pairs + 1
      BY <2>1, AppendProperties
    <2> QED BY <1>1, <2>2, <2>3
  <1>3. KeyTypes'
    <2>1. event \in Events
      BY <1>1 DEF Primary, Events
    <2>2. rotation_history' = Append(rotation_history, event)
      BY DEF InitiateRotation
    <2> HIDE DEF event
    <2> QED BY <1>1, <1>2, <2>1, <2>2 DEF KeyInv, KeyTypes, InitiateRotation
  <1>4. ActiveInv'
    BY <1>1, <1>2 DEF KeyInv, KeyTypes, ActiveInv, InitiateRotation
  <1>5. EventInv'
    <2>1. /\ Len(rotation_history') = Len(rotation_history) + 1
          /\ rotation_history'[Len(rotation_history) + 1] = event
          /\ Len(rotation_history) \in Nat
      BY DEF InitiateRotation, KeyInv, KeyTypes
    <2> QED BY <1>2, <2>1 DEF EventInv, Primary
  <1> QED BY <1>3, <1>4, <1>5 DEF KeyInv

(* The end of a rotation, or the revocation of an active key, leaves one of *)
(* the two, and the other is revoked or withdrawn.                          *)
LEMMA OneIsLeft ==
  ASSUME KeyInv, Len(active_keys) = 2, NEW i \in {1, 2},
         active_keys' = RemoveAt(active_keys, i),
         primary_key_index' = 1, UNCHANGED <<pairs, signers>>,
         revoked_keys \subseteq revoked_keys', withdrawn \subseteq withdrawn',
         revoked_keys' \subseteq revoked_keys \cup {active_keys[i]},
         active_keys[i] \in revoked_keys' \cup withdrawn',
         rotation_history' \in Seq(Events)
  PROVE  KeyInv'
  <1>1. 3 - i \in {1, 2} /\ 3 - i # i /\ \A j \in {1, 2} : j = i \/ j = 3 - i
    OBVIOUS
  <1>2. /\ Len(active_keys') = 1 /\ active_keys'[1] = active_keys[3 - i]
        /\ active_keys' \in Seq(1..pairs)
    BY <1>1, RemoveOfTwo DEF KeyInv, KeyTypes
  <1>3. \A j \in {1, 2} : active_keys[j] \in 1..pairs
    <2>1. active_keys \in Seq(1..pairs) /\ \A j \in {1, 2} : j \in 1..Len(active_keys)
      BY DEF KeyInv, KeyTypes
    <2> QED BY <2>1, ElementOfSeq
  <1>4. KeyTypes'
    <2>1. revoked_keys' \subseteq 1..pairs
      BY <1>1, <1>3 DEF KeyInv, KeyTypes
    <2>2. 1 \in 1..Len(active_keys') /\ Len(active_keys') \in {1, 2}
      BY <1>2
    <2> QED BY <1>2, <2>1, <2>2 DEF KeyInv, KeyTypes
  <1>5. ActiveInv'
    <2>1. 1..Len(active_keys') = {1}
      BY <1>2
    <2>2. active_keys[1] # active_keys[2] /\ 1..Len(active_keys) = {1, 2}
      BY DEF KeyInv, ActiveInv
    <2>3. active_keys[3 - i] \notin revoked_keys'
      BY <1>1, <2>2 DEF KeyInv, ActiveInv
    <2>4. \A kp \in signers \ (revoked_keys' \cup withdrawn') : kp = active_keys[3 - i]
      BY <1>1, <2>2 DEF KeyInv, ActiveInv
    <2> QED BY <1>2, <2>1, <2>3, <2>4 DEF ActiveInv
  <1>6. EventInv'
    <2>1. Len(active_keys') # 2
      BY <1>2
    <2> QED BY <2>1 DEF EventInv
  <1> QED BY <1>4, <1>5, <1>6 DEF KeyInv

(* What settles an event keeps the history one.                             *)
LEMMA SettleTyped ==
  ASSUME KeyInv, Len(active_keys) = 2,
         NEW status \in {"Completed", "Cancelled"}, Settle(status)
  PROVE  rotation_history' \in Seq(Events)
  <1> DEFINE event == [rotation_history[Current] EXCEPT !.status = status]
  <1>1. Current \in 1..Len(rotation_history) /\ rotation_history \in Seq(Events)
    BY CurrentIsLast DEF KeyInv, KeyTypes, Pending
  <1>2. event \in Events
    <2>1. rotation_history[Current] \in Events
      BY <1>1, ElementOfSeq
    <2> QED BY <2>1 DEF Events
  <1>3. rotation_history' = [rotation_history EXCEPT ![Current] = event]
    BY DEF Settle
  <1> HIDE DEF event
  <1> QED BY <1>1, <1>2, <1>3, ExceptSeq

(* No step breaks the invariant of the keys.                                *)
LEMMA RotationStepKeeps == ASSUME KeyInv, [RotationNext]_rotationvars PROVE KeyInv'
  <1>1. CASE GraceElapses
    <2>1. PICK i \in DOMAIN rotation_history :
            rotation_history' = [rotation_history EXCEPT ![i].due = TRUE]
      BY <1>1 DEF GraceElapses
    <2>2. KeyTypes'
      <3> DEFINE event == [rotation_history[i] EXCEPT !.due = TRUE]
      <3>1. rotation_history \in Seq(Events) /\ i \in 1..Len(rotation_history)
        BY DEF KeyInv, KeyTypes
      <3>2. event \in Events
        <4>1. rotation_history[i] \in Events
          BY <3>1, ElementOfSeq
        <4> QED BY <4>1 DEF Events
      <3>3. rotation_history' = [rotation_history EXCEPT ![i] = event]
        BY <2>1
      <3> HIDE DEF event
      <3>4. rotation_history' \in Seq(Events)
        BY <3>1, <3>2, <3>3, ExceptSeq
      <3> QED BY <1>1, <3>4 DEF GraceElapses, KeyInv, KeyTypes
    <2>3. /\ Len(rotation_history') = Len(rotation_history)
          /\ \A k \in 1..Len(rotation_history) :
               /\ rotation_history'[k].status = rotation_history[k].status
               /\ rotation_history'[k].new = rotation_history[k].new
      BY <2>1 DEF KeyInv, KeyTypes
    <2> QED BY <1>1, <2>2, <2>3, KeysKeep DEF GraceElapses
  <1>2. CASE InitiateRotation
    BY <1>2, InitiateKeeps
  <1>3. CASE CompleteRotation
    <2>1. Len(active_keys) = 2
      BY <1>3, TwoKeys DEF CompleteRotation
    <2>2. /\ Other \in 1..Len(active_keys) /\ Other # primary_key_index
          /\ primary_key_index \in {1, 2} /\ Other \in {1, 2}
      BY <2>1 DEF Other, KeyInv, KeyTypes
    <2>3. primary_key_index' = 1
      BY <1>3, <2>2 DEF CompleteRotation
    <2> QED BY <1>3, <2>1, <2>2, <2>3, SettleTyped, OneIsLeft DEF CompleteRotation
  <1>4. CASE CancelRotation
    <2>1. Len(active_keys) = 2 /\ primary_key_index \in {1, 2}
      <3>1. Len(active_keys) = 2
        BY <1>4, TwoKeys DEF CancelRotation
      <3> QED BY <3>1 DEF KeyInv, KeyTypes
    <2>2. rotation_history' \in Seq(Events)
      BY <1>4, <2>1, SettleTyped DEF CancelRotation, KeyInv, KeyTypes
    <2> QED BY <1>4, <2>1, <2>2, OneIsLeft DEF CancelRotation, Primary
  <1>5. CASE SignRecord
    BY <1>5, KeysKeep DEF SignRecord, KeyInv, KeyTypes
  <1>6. ASSUME NEW kp \in 1..pairs, RevokeKey(kp) PROVE KeyInv'
    <2> DEFINE at == SelectInSeq(active_keys, LAMBDA k : k = kp)
    <2>1. /\ at = 0 => \A i \in 1..Len(active_keys) : active_keys[i] # kp
          /\ at # 0 => at \in 1..Len(active_keys) /\ active_keys[at] = kp
      BY SelectedKey
    <2>2. /\ active_keys # <<kp>> /\ revoked_keys' = revoked_keys \cup {kp}
          /\ UNCHANGED <<rotation_history, pairs, signers, withdrawn>>
          /\ at = 0 => UNCHANGED <<active_keys, primary_key_index>>
          /\ at # 0 => /\ active_keys' = RemoveAt(active_keys, at)
                       /\ primary_key_index' =
                            IF at < primary_key_index THEN primary_key_index - 1
                            ELSE IF at = primary_key_index THEN 1 ELSE primary_key_index
      BY <1>6 DEF RevokeKey
    <2> HIDE DEF at
    <2>3. CASE at = 0
      BY <2>1, <2>2, <2>3 DEF KeyInv, KeyTypes, ActiveInv, EventInv, Primary
    <2>4. CASE at # 0
      <3>1. Len(active_keys) = 2
        <4>1. Len(active_keys) = 1 => active_keys = <<active_keys[1]>> /\ at = 1
          BY <2>1, <2>4 DEF KeyInv, KeyTypes
        <4> QED BY <4>1, <2>1, <2>2, <2>4 DEF KeyInv, KeyTypes
      <3>2. primary_key_index \in {1, 2} /\ at \in {1, 2}
        BY <3>1, <2>1, <2>4 DEF KeyInv, KeyTypes
      <3>3. primary_key_index' = 1
        BY <3>2, <2>2, <2>4
      <3> QED BY <2>1, <2>2, <2>4, <3>1, <3>3, OneIsLeft DEF KeyInv, KeyTypes
    <2> QED BY <2>3, <2>4
  <1>7. CASE UNCHANGED rotationvars
    BY <1>7 DEF rotationvars, KeyInv, KeyTypes, ActiveInv, EventInv, Primary
  <1> QED BY <1>1, <1>2, <1>3, <1>4, <1>5, <1>6, <1>7 DEF RotationNext

(* The primary key verifies, and so does every signature whose key was not  *)
(* given up; a rotation completes only after its own grace period.         *)
THEOREM KeysKeepVerifying == RotationSpec => []SignaturesVerify /\ GraceIsRespected
  <1>1. RotationInit => KeyInv
    BY DEF RotationInit, KeyInv, KeyTypes, ActiveInv, EventInv
  <1>2. KeyInv => SignaturesVerify
    BY DEF KeyInv, KeyTypes, ActiveInv, SignaturesVerify, Verifies, Primary, ToSet
  <1>3. KeyInv /\ [RotationNext]_rotationvars =>
          [CompleteRotation => \E i \in DOMAIN rotation_history :
             rotation_history[i].new = Primary /\ rotation_history[i].due]_rotationvars
    <2> SUFFICES ASSUME KeyInv, CompleteRotation
                 PROVE  \E i \in DOMAIN rotation_history :
                          rotation_history[i].new = Primary /\ rotation_history[i].due
      OBVIOUS
    <2>1. Len(active_keys) = 2
      BY TwoKeys DEF CompleteRotation
    <2>2. Current = Len(rotation_history) /\ Current \in DOMAIN rotation_history
      BY <2>1, CurrentIsLast DEF Pending
    <2> QED BY <2>1, <2>2 DEF CompleteRotation, KeyInv, EventInv
  <1> QED BY <1>1, <1>2, <1>3, RotationStepKeeps, PTL DEF RotationSpec, GraceIsRespected

(***************************************************************************)
(* External anchor (ExternalAnchor)                                        *)
(*                                                                         *)
(* The pending hashes are those of the LSNs behind the last anchor, up to  *)
(* the last one committed, and an anchor takes them all and the new one.   *)
(***************************************************************************)

(* The anchors in the history.                                              *)
Anchors == [id : Nat, last_lsn : Nat, root : Seq(Nat)]

(* The types, with the LSN that is signed and not committed, if any.        *)
AnchorTypes ==
  /\ lsn_counter \in Nat \ {0}
  /\ signed = 0 \/ (signed = lsn_counter - 1 /\ signed > 0)
  /\ anchor_history \in Seq(Anchors)
  /\ anchor_id_counter = Len(anchor_history) + 1
  /\ CoveredBefore(Len(anchor_history) + 1) \in Nat
  /\ CoveredBefore(Len(anchor_history) + 1) <= LastCommitted

AnchorInv == AnchorTypes /\ AnchorsCoverTheChain

(* The LSNs up to the next one.                                             *)
LEMMA NextLsn ==
  ASSUME NEW from \in Nat, NEW to \in Nat, from <= to
  PROVE  /\ Append(LsnsBehind(from, to), to + 1) = LsnsBehind(from, to + 1)
         /\ LsnsBehind(from, to) \in Seq(Nat) /\ LsnsBehind(from, to + 1) \in Seq(Nat)
  <1> DEFINE s == LsnsBehind(from, to)  t == LsnsBehind(from, to + 1)
  <1>1. /\ s \in Seq(Nat) /\ Len(s) = to - from
        /\ \A k \in 1..to - from : s[k] = from + k
    BY DEF LsnsBehind
  <1>2. /\ t \in Seq(Nat) /\ Len(t) = to - from + 1
        /\ \A k \in 1..to - from + 1 : t[k] = from + k
    BY DEF LsnsBehind
  <1> HIDE DEF s, t
  <1>3. /\ Append(s, to + 1) \in Seq(Nat)
        /\ Len(Append(s, to + 1)) = Len(s) + 1
        /\ \A k \in 1..Len(s) : Append(s, to + 1)[k] = s[k]
        /\ Append(s, to + 1)[Len(s) + 1] = to + 1
    BY <1>1, AppendProperties
  <1>4. \A k \in 1..to - from + 1 : Append(s, to + 1)[k] = t[k]
    BY <1>1, <1>2, <1>3
  <1>5. Append(s, to + 1) = t
    <2> DEFINE a == Append(s, to + 1)
    <2> HIDE DEF a
    <2>1. /\ a \in Seq(Nat) /\ Len(a) = Len(t)
          /\ \A k \in 1..Len(a) : a[k] = t[k]
      BY <1>1, <1>2, <1>3, <1>4 DEF a
    <2>2. a = t
      BY <1>2, <2>1, SeqEqual
    <2> QED BY <2>2 DEF a
  <1> QED BY <1>1, <1>2, <1>5 DEF s, t

(* A commit adds its LSN to what is pending, or anchors both.               *)
LEMMA CommitKeeps == ASSUME AnchorInv, Commit PROVE AnchorInv'
  <1>0. PICK n \in Nat : n = Len(anchor_history)
    BY DEF AnchorInv, AnchorTypes
  <1> DEFINE before == CoveredBefore(n + 1)
  <1>1. /\ lsn_counter \in Nat /\ signed \in Nat /\ signed = LastCommitted + 1
        /\ before \in Nat /\ LastCommitted \in Nat /\ before <= LastCommitted
        /\ n \in Nat /\ chain_hashes = LsnsBehind(before, LastCommitted)
        /\ LastCommitted' = signed /\ signed = lsn_counter - 1 /\ lsn_counter' = lsn_counter
        /\ signed' = 0 /\ signed > 0
    BY <1>0 DEF AnchorInv, AnchorTypes, AnchorsCoverTheChain, LastCommitted, Commit
  <1>2. Append(chain_hashes, signed) = LsnsBehind(before, signed) /\ LsnsBehind(before, signed) \in Seq(Nat)
    BY <1>1, NextLsn
  <1>3. CASE interval_elapsed
    <2>1. /\ anchor_history' = Append(anchor_history, Anchor)
          /\ anchor_id_counter' = anchor_id_counter + 1 /\ chain_hashes' = <<>>
      BY <1>3 DEF Commit
    <2>2. /\ Anchor \in Anchors
          /\ Anchor.id = n + 1 /\ Anchor.last_lsn = signed
          /\ Anchor.root = LsnsBehind(before, signed)
      <3>1. /\ Anchor = [id |-> anchor_id_counter, last_lsn |-> signed,
                         root |-> LsnsBehind(before, signed)]
            /\ anchor_id_counter = n + 1
        BY <1>0, <1>1, <1>2 DEF Anchor, AnchorInv, AnchorTypes
      <3> HIDE DEF before
      <3> QED BY <1>1, <1>2, <3>1 DEF Anchors
    <2>3. /\ anchor_history' \in Seq(Anchors)
          /\ Len(anchor_history') = n + 1
          /\ \A i \in 1..n : anchor_history'[i] = anchor_history[i]
          /\ anchor_history'[n + 1] = Anchor
      BY <1>0, <2>1, <2>2, AppendProperties DEF AnchorInv, AnchorTypes
    <2>4. /\ \A i \in 1..n + 1 : CoveredBefore(i)' = CoveredBefore(i)
          /\ CoveredBefore(n + 2)' = signed
      <3>1. ASSUME NEW i \in 1..n + 1 PROVE CoveredBefore(i)' = CoveredBefore(i)
        <4>1. i = 1 \/ i - 1 \in 1..n
          BY <1>1
        <4> QED BY <2>3, <4>1 DEF CoveredBefore
      <3>2. n + 2 # 1 /\ (n + 2) - 1 = n + 1
        BY <1>1
      <3>3. CoveredBefore(n + 2)' = signed
        BY <2>2, <2>3, <3>2 DEF CoveredBefore
      <3> QED BY <3>1, <3>3
    <2>5. AnchorsCoverTheChain'
      <3>1. ASSUME NEW i \in 1..n
            PROVE  /\ anchor_history'[i].id = i
                   /\ CoveredBefore(i)' < anchor_history'[i].last_lsn
                   /\ anchor_history'[i].root =
                        LsnsBehind(CoveredBefore(i)', anchor_history'[i].last_lsn)
        <4>1. i \in DOMAIN anchor_history /\ i \in 1..n + 1
          BY <1>0, <1>1 DEF AnchorInv, AnchorTypes
        <4> QED BY <2>3, <2>4, <4>1 DEF AnchorInv, AnchorsCoverTheChain
      <3>2. /\ anchor_history'[n + 1].id = n + 1
            /\ CoveredBefore(n + 1)' < anchor_history'[n + 1].last_lsn
            /\ anchor_history'[n + 1].root =
                 LsnsBehind(CoveredBefore(n + 1)', anchor_history'[n + 1].last_lsn)
        <4>1. n + 1 \in 1..n + 1 /\ before < signed
          BY <1>1
        <4>2. CoveredBefore(n + 1)' = before
          BY <2>4, <4>1
        <4> HIDE DEF before
        <4> QED BY <2>2, <2>3, <4>1, <4>2
      <3>3. chain_hashes' = LsnsBehind(CoveredBefore(n + 2)', LastCommitted')
        <4>1. LsnsBehind(signed, signed) = <<>>
          BY <1>1 DEF LsnsBehind
        <4> QED BY <1>1, <2>1, <2>4, <4>1
      <3>4. DOMAIN anchor_history' = 1..n + 1 /\ Len(anchor_history') + 1 = n + 2
            /\ \A i \in 1..n + 1 : i \in 1..n \/ i = n + 1
        BY <1>1, <2>3
      <3> QED BY <3>1, <3>2, <3>3, <3>4 DEF AnchorsCoverTheChain
    <2>6. AnchorTypes'
      <3>1. anchor_id_counter' = Len(anchor_history') + 1
        BY <1>0, <1>1, <2>1, <2>3 DEF AnchorTypes, AnchorInv
      <3>2. CoveredBefore(Len(anchor_history) + 1)' = signed
        <4>1. (Len(anchor_history) + 1)' = n + 2
          BY <1>1, <2>3
        <4> QED BY <2>4, <4>1
      <3>3. lsn_counter \in Nat \ {0} /\ signed <= LastCommitted'
        BY <1>1
      <3> QED BY <1>1, <2>3, <3>1, <3>2, <3>3 DEF AnchorTypes
    <2> QED BY <2>5, <2>6 DEF AnchorInv
  <1>4. CASE ~interval_elapsed
    <2>1. /\ chain_hashes' = Append(chain_hashes, signed)
          /\ UNCHANGED <<anchor_history, anchor_id_counter>>
      BY <1>4 DEF Commit
    <2>2. \A i : CoveredBefore(i)' = CoveredBefore(i)
      BY <2>1 DEF CoveredBefore
    <2>3. AnchorsCoverTheChain'
      <3>1. chain_hashes' = LsnsBehind(CoveredBefore(Len(anchor_history) + 1)', LastCommitted')
        BY <1>0, <1>1, <1>2, <2>1, <2>2
      <3> QED BY <2>1, <2>2, <3>1 DEF AnchorInv, AnchorsCoverTheChain
    <2>4. AnchorTypes'
      BY <1>1, <2>1, <2>2 DEF AnchorTypes, AnchorInv
    <2> QED BY <2>3, <2>4 DEF AnchorInv
  <1> QED BY <1>3, <1>4

(* Nothing else touches the chain: a record signed and lost stops it.       *)
LEMMA AnchorStepKeeps == ASSUME AnchorInv, [AnchorNext]_anchorvars PROVE AnchorInv'
  <1>1. CASE Commit
    BY <1>1, CommitKeeps
  <1>2. CASE IntervalElapses \/ Sign \/ WriteFailed \/ UNCHANGED anchorvars
    <2>1. UNCHANGED <<chain_hashes, anchor_history, anchor_id_counter>>
      BY <1>2 DEF IntervalElapses, Sign, WriteFailed, anchorvars
    <2>2. \A i : CoveredBefore(i)' = CoveredBefore(i)
      BY <2>1 DEF CoveredBefore
    <2>3. /\ LastCommitted' = LastCommitted /\ lsn_counter' \in Nat \ {0}
          /\ signed' = 0 \/ (signed' = lsn_counter' - 1 /\ signed' > 0)
      BY <1>2 DEF IntervalElapses, Sign, WriteFailed, anchorvars, LastCommitted,
                  AnchorInv, AnchorTypes
    <2>4. AnchorsCoverTheChain'
      BY <2>1, <2>2, <2>3 DEF AnchorsCoverTheChain, AnchorInv
    <2>5. AnchorTypes'
      BY <2>1, <2>2, <2>3 DEF AnchorTypes, AnchorInv
    <2> QED BY <2>4, <2>5 DEF AnchorInv
  <1> QED BY <1>1, <1>2 DEF AnchorNext

(* However anchors and records interleave, the anchors cover every LSN up   *)
(* to the last one anchored, once and in order, and the rest is pending.   *)
THEOREM AnchorsCover == AnchorSpec => []AnchorsCoverTheChain
  <1>1. AnchorInit => AnchorInv
    <2> SUFFICES ASSUME AnchorInit PROVE AnchorInv
      OBVIOUS
    <2>1. Len(anchor_history) = 0 /\ DOMAIN anchor_history = {} /\ LastCommitted = 0
      BY DEF AnchorInit, LastCommitted
    <2>2. CoveredBefore(Len(anchor_history) + 1) = 0
      BY <2>1 DEF CoveredBefore
    <2>3. LsnsBehind(0, 0) = <<>>
      BY DEF LsnsBehind
    <2> QED BY <2>1, <2>2, <2>3 DEF AnchorInit, AnchorInv, AnchorTypes, AnchorsCoverTheChain
  <1>2. AnchorInv => AnchorsCoverTheChain
    BY DEF AnchorInv
  <1> QED BY <1>1, <1>2, AnchorStepKeeps, PTL DEF AnchorSpec

(***************************************************************************)
(* Emergency spill (EmergencySpill)                                        *)
(*                                                                         *)
(* Until something is lost or forgotten on purpose, the frames of the file *)
(* are whole, the cursor is at their end, they open under the key in use,  *)
(* and those of the records written are all there.  What is seen are the   *)
(* places, in a turn of the sequence, of the records handed back, and each *)
(* has its own.                                                            *)
(***************************************************************************)
Frames == [id : Nat, key : Nat]

FramesInv ==
  /\ file \in Seq(Frames) /\ position = Len(file)
  /\ \A i \in 1..Len(file) : file[i].key \in {0, key}
  /\ active => \A rec \in written : \E i \in 1..Len(file) : file[i].id = rec

DeliveredInv ==
  /\ delivered \in Seq(Nat)
  /\ \A i, j \in 1..Len(delivered) : IdLo(delivered[i]) = IdLo(delivered[j]) => i = j
  /\ seen = {IdLo(delivered[i]) : i \in 1..Len(delivered)}

PushedInv ==
  push \in [Pushers -> [pc : {"idle", "write", "count"}, id : Nat, level : {"INFO", "AUDIT"}]]

SpillInv ==
  /\ exact \in BOOLEAN /\ key \in Nat /\ PushedInv
  /\ exact => FramesInv /\ DeliveredInv

LEMMA SpillStarts == SpillInit => SpillInv
  BY DEF SpillInit, SpillInv, FramesInv, DeliveredInv, PushedInv, Quiet

LEMMA OpensAndClosesKeep ==
  ASSUME SpillInv, Activate \/ Deactivate \/ EnableEncryption
  PROVE  SpillInv'
  <1>1. exact' \in BOOLEAN /\ (exact' => exact) /\ key' \in Nat
    <2>1. CASE Activate
      <3>1. key' = 1 \/ key' = key
        BY <2>1 DEF Activate
      <3> QED BY <2>1, <3>1 DEF SpillInv, Activate
    <2>2. CASE Deactivate
      BY <2>2 DEF SpillInv, Deactivate
    <2>3. CASE EnableEncryption
      BY <2>3 DEF SpillInv, EnableEncryption
    <2> QED BY <2>1, <2>2, <2>3
  <1>2. UNCHANGED <<seen, delivered, push>>
    BY DEF Activate, Deactivate, EnableEncryption, spillfile
  <1>3. PushedInv'
    BY <1>2 DEF SpillInv, PushedInv
  <1>4. ASSUME exact' PROVE FramesInv' /\ DeliveredInv'
    <2>1. exact /\ FramesInv /\ DeliveredInv
      BY <1>1, <1>4 DEF SpillInv
    <2>2. DeliveredInv'
      BY <1>2, <2>1 DEF DeliveredInv
    <2>3. CASE Activate \/ Deactivate
      <3>1. file' = <<>> /\ position' = 0 /\ (active' => written' = {})
        BY <2>3 DEF Activate, Deactivate
      <3>2. FramesInv'
        BY <3>1 DEF FramesInv
      <3> QED BY <2>2, <3>2
    <2>4. CASE EnableEncryption
      <3>1. key = 0 /\ UNCHANGED <<file, position, active, written>>
        BY <1>4, <2>4 DEF EnableEncryption, spillfile
      <3>2. FramesInv'
        BY <2>1, <3>1 DEF FramesInv
      <3> QED BY <2>2, <3>2
    <2> QED BY <2>3, <2>4
  <1> QED BY <1>1, <1>3, <1>4 DEF SpillInv

(* A pusher between its steps leaves the file alone.                       *)
LEMMA PushersKeep ==
  ASSUME SpillInv, NEW p \in Pushers, BeginPush(p) \/ NotActive(p) \/ EndPush(p)
  PROVE  SpillInv'
  <1>1. UNCHANGED <<file, position, active, seen, key, written, delivered, exact>>
    BY DEF BeginPush, NotActive, EndPush, spillfile
  <1>2. push \in [Pushers -> [pc : {"idle", "write", "count"}, id : Nat, level : {"INFO", "AUDIT"}]]
    BY DEF SpillInv, PushedInv
  <1>3. CASE BeginPush(p)
    <2>1. PICK number \in RecordNumbers, level \in {"INFO", "AUDIT"} :
            push' = [push EXCEPT ![p] = [pc |-> "write", id |-> number, level |-> level]]
      BY <1>3 DEF BeginPush
    <2>2. number \in Nat
      BY SpillAssumption DEF RecordNumbers
    <2>3. PushedInv'
      BY <1>2, <2>1, <2>2 DEF PushedInv
    <2> QED BY <1>1, <2>3 DEF SpillInv, FramesInv, DeliveredInv
  <1>4. CASE NotActive(p) \/ EndPush(p)
    <2>1. push' = [push EXCEPT ![p] = Quiet]
      BY <1>4 DEF NotActive, EndPush
    <2>2. PushedInv'
      BY <1>2, <2>1 DEF PushedInv, Quiet
    <2> QED BY <1>1, <2>2 DEF SpillInv, FramesInv, DeliveredInv
  <1> QED BY <1>3, <1>4

(* At the end of the file, a write is an append.                            *)
LEMMA AtTheEnd ==
  ASSUME NEW frame \in Frames, FramesInv, At(frame)
  PROVE  file' = Append(file, frame) /\ position' = position + 1
  <1>1. file \in Seq(Frames) /\ position = Len(file) /\ Len(file) \in Nat
    BY DEF FramesInv
  <1>2. SubSeq(file, 1, position) = file
    BY <1>1
  <1>3. SubSeq(file, position + 2, Len(file)) = <<>>
    BY <1>1
  <1>4. Append(file, frame) \o <<>> = Append(file, frame)
    <2>1. Append(file, frame) \in Seq(Frames)
      BY <1>1
    <2> QED BY <2>1
  <1> QED BY <1>2, <1>3, <1>4 DEF At

LEMMA WritesKeep ==
  ASSUME SpillInv, NEW p \in Pushers, WriteFrame(p)
  PROVE  SpillInv'
  <1>1. /\ active /\ At(Frame(p))
        /\ push' = [push EXCEPT ![p].pc = "count"] /\ written' = written \cup {push[p].id}
        /\ UNCHANGED <<active, seen, key, delivered, exact>>
    BY DEF WriteFrame
  <1>2. push[p].id \in Nat /\ key \in Nat /\ PushedInv
    BY DEF SpillInv, PushedInv
  <1>3. PushedInv'
    BY <1>1, <1>2 DEF PushedInv
  <1>4. ASSUME exact PROVE FramesInv' /\ DeliveredInv'
    <2>1. FramesInv /\ DeliveredInv
      BY <1>4 DEF SpillInv
    <2> DEFINE frame == Frame(p)
    <2>2. frame \in Frames /\ frame.id = push[p].id /\ frame.key \in {0, key}
      BY <1>2 DEF Frame, Frames
    <2>3. At(frame)
      BY <1>1
    <2> HIDE DEF frame
    <2>4. file' = Append(file, frame) /\ position' = position + 1
      BY <2>1, <2>2, <2>3, AtTheEnd
    <2>5. /\ file' \in Seq(Frames) /\ Len(file') = Len(file) + 1 /\ Len(file) \in Nat
          /\ \A i \in 1..Len(file) : file'[i] = file[i]
          /\ file'[Len(file) + 1] = frame
      BY <2>1, <2>2, <2>4 DEF FramesInv
    <2>6. file' \in Seq(Frames) /\ position' = Len(file')
      BY <2>1, <2>4, <2>5 DEF FramesInv
    <2>7. \A i \in 1..Len(file') : file'[i].key \in {0, key'}
      BY <1>1, <2>1, <2>2, <2>5 DEF FramesInv
    <2>8. \A rec \in written' : \E i \in 1..Len(file') : file'[i].id = rec
      <3>1. \A rec \in written : \E i \in 1..Len(file) : file[i].id = rec
        BY <1>1, <2>1 DEF FramesInv
      <3> QED BY <1>1, <2>2, <2>5, <3>1
    <2>9. DeliveredInv'
      BY <1>1, <2>1 DEF DeliveredInv
    <2> QED BY <2>6, <2>7, <2>8, <2>9 DEF FramesInv
  <1> QED BY <1>1, <1>2, <1>3, <1>4 DEF SpillInv

(* Of the places with the same value one is the first.                     *)
FirstLike(f, k, i) == f[i] = f[k] /\ \A j \in 1..i - 1 : f[j] # f[k]

LEMMA FirstOfItsKind ==
  ASSUME NEW n \in Nat, NEW f, NEW k \in 1..n
  PROVE  \E i \in 1..n : FirstLike(f, k, i)
  <1> DEFINE T == {m \in Nat : \E j \in 1..n : j <= m /\ f[j] = f[k]}
  <1>1. T \in SUBSET Nat /\ k \in T
    OBVIOUS
  <1>2. PICK m \in T : m - 1 \notin T
    BY <1>1, FirstMissing
  <1>3. PICK i \in 1..n : i <= m /\ f[i] = f[k]
    OBVIOUS
  <1>4. m \in Nat /\ m - 1 \in Nat
    BY <1>1, <1>3
  <1>5. \A j \in 1..n : j <= m - 1 => f[j] # f[k]
    BY <1>2, <1>4
  <1>6. i = m
    BY <1>3, <1>4, <1>5
  <1> QED BY <1>3, <1>5, <1>6 DEF FirstLike

(* A drain of whole frames hands back one record for each place that was   *)
(* not seen.                                                               *)
LEMMA DrainHandsBack ==
  ASSUME SpillInv, exact, Drain
  PROVE  /\ DeliveredInv' /\ position' = Len(file)
         /\ \A number \in written : \E other \in ToSet(delivered') : IdLo(other) = IdLo(number)
         /\ IsInjective(delivered')
  <1>1. /\ FramesInv /\ DeliveredInv /\ active
        /\ UNCHANGED <<file, active, key, push, written, exact>>
    BY DEF SpillInv, Drain
  <1>2. file \in Seq(Frames) /\ DOMAIN file = 1..Len(file) /\ Len(file) \in Nat
        /\ delivered \in Seq(Nat) /\ Len(delivered) \in Nat
        /\ \A i \in 1..Len(file) : file[i] \in Frames
    BY <1>1 DEF FramesInv, DeliveredInv
  <1>3. \A i \in DOMAIN file : file[i] # TornFrame
    BY <1>2, SpillAssumption DEF Frames
  <1>4. Readable = file /\ \A i \in 1..Len(file) : Opens(i)
    <2>1. Readable = file
      BY <1>3 DEF Readable
    <2> QED BY <1>1, <2>1 DEF Opens, FramesInv
  <1> DEFINE place == [i \in 1..Len(file) |-> IdLo(file[i].id)]
  <1>5. /\ Undrained \subseteq 1..Len(file)
        /\ \A i \in Undrained : place[i] \notin seen /\ \A j \in 1..i - 1 : place[j] # place[i]
        /\ \A i \in 1..Len(file) :
             place[i] \notin seen /\ (\A j \in 1..i - 1 : place[j] # place[i]) => i \in Undrained
    <2>1. \A i \in 1..Len(file) : \A j \in 1..i - 1 : j \in 1..Len(file)
      BY <1>2
    <2> QED BY <1>2, <1>4, <2>1 DEF Undrained
  <1>6. PICK places \in [1..Cardinality(Undrained) -> Undrained] :
          /\ InOrder(places, Undrained)
          /\ delivered' = delivered \o [i \in DOMAIN places |-> Readable[places[i]].id]
    BY DEF Drain
  <1> DEFINE n == Cardinality(Undrained)
             drained == [i \in 1..n |-> file[places[i]].id]
  <1>7. n \in Nat
    <2>1. IsFiniteSet(1..Len(file))
      BY <1>2, FS_Interval
    <2>2. IsFiniteSet(Undrained)
      BY <1>5, <2>1, FS_Subset
    <2> QED BY <2>2, FS_CardinalityType
  <1>8. DOMAIN places = 1..n /\ \A i \in 1..n : places[i] \in Undrained
    OBVIOUS
  <1> HIDE DEF n
  <1>9. /\ delivered' = delivered \o drained
        /\ \A i, j \in 1..n : i < j => places[i] < places[j]
        /\ \A k \in Undrained : \E i \in 1..n : places[i] = k
    BY <1>4, <1>6, <1>8 DEF InOrder, ToSet
  <1>10. \A i \in 1..n : /\ places[i] \in 1..Len(file) /\ drained[i] = file[places[i]].id
                         /\ drained[i] \in Nat
                         /\ IdLo(drained[i]) = place[places[i]] /\ place[places[i]] \notin seen
    BY <1>2, <1>5, <1>8 DEF Frames
  <1>11. \A i, j \in 1..n : i < j => place[places[i]] # place[places[j]]
    <2> SUFFICES ASSUME NEW i \in 1..n, NEW j \in 1..n, i < j
                 PROVE  place[places[i]] # place[places[j]]
      OBVIOUS
    <2>1. places[i] < places[j] /\ places[i] \in 1..Len(file) /\ places[j] \in 1..Len(file)
      BY <1>9, <1>10
    <2>2. places[i] \in 1..places[j] - 1
      BY <1>2, <2>1
    <2> HIDE DEF place
    <2> QED BY <1>5, <1>8, <2>2
  <1> HIDE DEF place
  <1>12. \A i, j \in 1..n : IdLo(drained[i]) = IdLo(drained[j]) => i = j
    BY <1>7, <1>10, <1>11
  <1>13. drained \in Seq(Nat) /\ Len(drained) = n
    BY <1>7, <1>10
  <1> HIDE DEF drained
  <1> DEFINE m == Len(delivered)
  <1>14. /\ delivered' \in Seq(Nat) /\ Len(delivered') = m + n
         /\ \A i \in 1..m + n : delivered'[i] = IF i <= m THEN delivered[i] ELSE drained[i - m]
    <2>1. /\ delivered \o drained \in Seq(Nat) /\ Len(delivered \o drained) = Len(delivered) + Len(drained)
          /\ \A i \in 1..Len(delivered) + Len(drained) :
               (delivered \o drained)[i] = IF i <= Len(delivered) THEN delivered[i]
                                                             ELSE drained[i - Len(delivered)]
      BY <1>2, <1>13, ConcatProperties
    <2> QED BY <1>9, <1>13, <2>1
  <1>15. m = Len(delivered) /\ m \in Nat /\ \A i \in 1..m : delivered'[i] = delivered[i]
    BY <1>2, <1>7, <1>14
  <1>16. ASSUME NEW i \in 1..n PROVE delivered'[m + i] = drained[i]
    <2> HIDE DEF m
    <2>1. m + i \in 1..m + n /\ ~(m + i <= m) /\ (m + i) - m = i
      BY <1>7, <1>15
    <2> QED BY <1>14, <2>1
  <1>17. \A i \in 1..m + n : i \in 1..m \/ \E k \in 1..n : i = m + k
    <2> SUFFICES ASSUME NEW i \in 1..m + n, i \notin 1..m PROVE i - m \in 1..n /\ i = m + (i - m)
      OBVIOUS
    <2> QED BY <1>7, <1>15
  <1>18. /\ \A i \in 1..m : IdLo(delivered[i]) \in seen
         /\ \A i, j \in 1..m : IdLo(delivered[i]) = IdLo(delivered[j]) => i = j
         /\ \A id \in seen : \E i \in 1..m : IdLo(delivered[i]) = id
    BY <1>1, <1>15 DEF DeliveredInv
  <1> HIDE DEF m
  <1>19. \A i, j \in 1..m + n : IdLo(delivered'[i]) = IdLo(delivered'[j]) => i = j
    <2> SUFFICES ASSUME NEW i \in 1..m + n, NEW j \in 1..m + n,
                        IdLo(delivered'[i]) = IdLo(delivered'[j])
                 PROVE  i = j
      OBVIOUS
    <2>1. CASE i \in 1..m /\ j \in 1..m
      BY <1>15, <1>18, <2>1
    <2>2. ASSUME NEW a \in 1..n, NEW b \in 1..n, i = m + a, j = m + b
          PROVE  i = j
      BY <1>12, <1>16, <2>2
    <2>3. ASSUME NEW a \in 1..n, NEW b \in 1..m, IdLo(delivered'[b]) = IdLo(delivered'[m + a])
          PROVE  FALSE
      BY <1>10, <1>15, <1>16, <1>18, <2>3
    <2> QED BY <1>17, <2>1, <2>2, <2>3
  <1>20. seen' = seen \cup {IdLo(file[i].id) : i \in Undrained}
    BY <1>4 DEF Drain
  <1>21. seen' = {IdLo(delivered'[i]) : i \in 1..m + n}
    <2>1. ASSUME NEW id \in seen PROVE \E i \in 1..m + n : IdLo(delivered'[i]) = id
      <3>1. PICK i \in 1..m : IdLo(delivered[i]) = id
        BY <1>18
      <3>2. i \in 1..m + n /\ delivered'[i] = delivered[i]
        BY <1>7, <1>15
      <3> QED BY <3>1, <3>2
    <2>2. ASSUME NEW k \in Undrained PROVE \E i \in 1..m + n : IdLo(delivered'[i]) = IdLo(file[k].id)
      <3>1. PICK i \in 1..n : places[i] = k
        BY <1>9
      <3>2. m + i \in 1..m + n /\ delivered'[m + i] = drained[i]
        BY <1>7, <1>15, <1>16, <3>1
      <3> QED BY <1>10, <3>1, <3>2
    <2>3. ASSUME NEW i \in 1..m + n PROVE IdLo(delivered'[i]) \in seen'
      <3>1. CASE i \in 1..m
        BY <1>15, <1>18, <1>20, <3>1
      <3>2. ASSUME NEW k \in 1..n, i = m + k PROVE IdLo(delivered'[i]) \in seen'
        <4>1. places[k] \in Undrained /\ drained[k] = file[places[k]].id
          BY <1>8, <1>10
        <4> QED BY <1>16, <1>20, <3>2, <4>1
      <3> QED BY <1>17, <3>1, <3>2
    <2> QED BY <1>20, <2>1, <2>2, <2>3
  <1>22. DeliveredInv' /\ DOMAIN delivered' = 1..m + n
    BY <1>14, <1>19, <1>21 DEF DeliveredInv
  <1>23. IsInjective(delivered')
    BY <1>19, <1>22 DEF IsInjective
  <1>24. ASSUME NEW number \in written
         PROVE  \E other \in ToSet(delivered') : IdLo(other) = IdLo(number)
    <2>1. PICK k \in 1..Len(file) : file[k].id = number
      BY <1>1 DEF FramesInv
    <2>2. PICK i \in 1..Len(file) : FirstLike(place, k, i)
      BY <1>2, FirstOfItsKind
    <2>3. place[i] \in seen'
      BY <1>5, <1>20, <2>2 DEF place, FirstLike
    <2>4. IdLo(number) \in seen'
      BY <2>1, <2>2, <2>3 DEF place, FirstLike
    <2> QED BY <1>21, <1>22, <2>4 DEF ToSet
  <1>25. position' = Len(file)
    BY <1>2, <1>4 DEF Drain
  <1> QED BY <1>22, <1>23, <1>24, <1>25

LEMMA DrainsKeep == ASSUME SpillInv, Drain PROVE SpillInv'
  <1>1. UNCHANGED <<file, active, key, push, written, exact>>
    BY DEF Drain
  <1>2. ASSUME exact PROVE FramesInv' /\ DeliveredInv'
    <2>1. FramesInv /\ DeliveredInv' /\ position' = Len(file)
      BY <1>2, DrainHandsBack DEF SpillInv
    <2> QED BY <1>1, <2>1 DEF FramesInv
  <1> QED BY <1>1, <1>2 DEF SpillInv, PushedInv

LEMMA SpillStep == SpillInv /\ [SpillNext]_spillvars => SpillInv'
  <1> SUFFICES ASSUME SpillInv, [SpillNext]_spillvars PROVE SpillInv'
    OBVIOUS
  <1>1. CASE Activate \/ Deactivate \/ EnableEncryption
    BY <1>1, OpensAndClosesKeep
  <1>2. CASE ClearDedup
    BY <1>2 DEF ClearDedup, SpillInv, PushedInv
  <1>3. CASE Drain
    BY <1>3, DrainsKeep
  <1>4. ASSUME NEW p \in Pushers,
               BeginPush(p) \/ WriteFrame(p) \/ WriteFails(p) \/ NotActive(p) \/ EndPush(p)
        PROVE  SpillInv'
    <2>1. CASE WriteFails(p)
      <3>1. push' = [push EXCEPT ![p] = Quiet] /\ ~exact' /\ exact' \in BOOLEAN /\ key' = key
        BY <2>1 DEF WriteFails
      <3> QED BY <3>1 DEF SpillInv, PushedInv, Quiet
    <2> QED BY <1>4, <2>1, PushersKeep, WritesKeep
  <1>5. CASE UNCHANGED spillvars
    BY <1>5 DEF spillvars, spillfile, SpillInv, FramesInv, DeliveredInv, PushedInv
  <1> QED BY <1>1, <1>2, <1>3, <1>4, <1>5 DEF SpillNext

(* For any number of pushers, records and keys, any length of a turn of    *)
(* the sequence, and pushes and drains in any order, over activations: as  *)
(* long as no key is replaced, no write fails and what was seen is not     *)
(* forgotten, a drain leaves out no record written since the activation    *)
(* unless one that shares its id_lo has been handed back, and hands back   *)
(* none that was handed back before (EmergencyBuffer::drain_all).          *)
THEOREM DrainsAreExact == SpillSpec => DrainIsExact
  <1>1. SpillInv /\ [SpillNext]_spillvars =>
          [exact /\ Drain =>
             /\ \A number \in written :
                  \E other \in ToSet(delivered') : IdLo(other) = IdLo(number)
             /\ IsInjective(delivered')]_spillvars
    BY DrainHandsBack
  <1> QED BY <1>1, SpillStarts, SpillStep, PTL DEF SpillSpec, DrainIsExact

(***************************************************************************)
(* Configuration files (ConfigLoad)                                        *)
(*                                                                         *)
(* From rung to rung the configuration is that of one file, with what the  *)
(* environment has changed in it; of the file that the environment names   *)
(* nothing is changed any more.                                            *)
(***************************************************************************)
LevelsGiven ==
  {"INFO", Unset} \cup ConfigLevels \cup {given.level : given \in ConfigFiles}
SinksGiven == {"console"} \cup UNION {given.sinks : given \in ConfigFiles}

Configs ==
  [level : LevelsGiven, profile : ProfileNames, audit : BOOLEAN, signature : BOOLEAN,
   batch : Nat, coop : BOOLEAN, sinks : SUBSET SinksGiven]

(* What the rungs below the environment have given. *)
LocalBase ==
  IF "local" \in DOMAIN layers THEN Parsed(layers["local"])
  ELSE IF "system" \in DOMAIN layers THEN Parsed(layers["system"]) ELSE Default

ChosenLevel ==
  IF "env" \in DOMAIN layers THEN Base.level ELSE SetTo(environment.level, Base.level)

Given == config.profile = Chosen /\ config.sinks = Base.sinks /\ config.level = ChosenLevel

(* What a profile makes of the batch size of a file. *)
BatchFits(given_batch, given_profile) ==
  (given_batch = 0 => given_profile = "dev") /\ (given_batch > 256 => given_profile = "perf")

LoadInv ==
  /\ DOMAIN layers \subseteq Rungs
  /\ \A rank \in DOMAIN layers : layers[rank] \in ConfigFiles
  /\ environment \in [level : ConfigLevels \cup {Unset}, profile : Profiles \cup {Unset}]
  /\ api \in [level : ConfigLevels \cup {Unset}, profile : Profiles \cup {Unset},
              audit : {"on", "off", Unset}, batch : ApiBatches]
  /\ config \in Configs /\ config.sinks # {}
  /\ rung \in {"system", "local", "environment", "env", "profile", "api", "loaded"}
  /\ rung = "system" => config = Default
  /\ rung = "local" =>
       config = IF "system" \in DOMAIN layers THEN Parsed(layers["system"]) ELSE Default
  /\ rung = "environment" => config = LocalBase
  /\ rung = "env" =>
       config = [LocalBase EXCEPT !.level = SetTo(environment.level, @),
                                  !.profile = SetTo(environment.profile, @)]
  /\ rung = "profile" => Given /\ config.audit = Base.audit
  /\ rung = "api" =>
       /\ Given
       /\ Chosen = "audit" => config.audit /\ config.signature /\ config.batch = 128
       /\ Chosen = "dev" => ~config.audit /\ ~config.signature /\ config.batch <= 32
       /\ Chosen \in {"perf", "balanced"} => config.audit = Base.audit
       /\ BatchFits(config.batch, Chosen)
  /\ rung = "loaded" =>
       /\ config.batch = 0 => Chosen = "dev" /\ api.batch = 0
       /\ config.batch > 256 => Chosen = "perf" \/ config.batch = api.batch
       /\ Chosen = "audit" \/ api.audit = "on" => config.audit
       /\ config.level = SetTo(api.level, ChosenLevel)

LEMMA ProfileApplied ==
  ASSUME NEW c \in Configs
  PROVE  LET d == ApplyProfile(c)
         IN  /\ d \in Configs
             /\ d.level = c.level /\ d.profile = c.profile /\ d.sinks = c.sinks
             /\ c.profile = "audit" => d.audit = TRUE /\ d.signature = TRUE /\ d.batch = 128
             /\ c.profile = "dev" => d.audit = FALSE /\ d.signature = FALSE /\ d.batch <= 32
             /\ c.profile \in {"perf", "balanced"} => d.audit = c.audit
             /\ BatchFits(d.batch, d.profile)
  <1>1. CASE c.profile = "dev"
    <2> DEFINE b == IF c.batch < 32 THEN c.batch ELSE 32
    <2>1. ApplyProfile(c) = [c EXCEPT !.batch = b, !.audit = FALSE, !.signature = FALSE,
                                      !.coop = FALSE]
      BY <1>1 DEF ApplyProfile
    <2>2. b \in Nat /\ b <= 32
      BY DEF Configs
    <2> HIDE DEF b
    <2>3. ApplyProfile(c) \in Configs
      BY <2>1, <2>2 DEF Configs
    <2>4. /\ ApplyProfile(c).batch = b /\ ApplyProfile(c).profile = "dev"
          /\ ApplyProfile(c).level = c.level /\ ApplyProfile(c).sinks = c.sinks
          /\ ApplyProfile(c).audit = FALSE /\ ApplyProfile(c).signature = FALSE
      BY <1>1, <2>1 DEF Configs
    <2>5. BatchFits(ApplyProfile(c).batch, ApplyProfile(c).profile)
      BY <2>2, <2>4 DEF BatchFits
    <2> QED BY <1>1, <2>2, <2>3, <2>4, <2>5
  <1>2. CASE c.profile = "perf"
    <2> DEFINE b == IF c.batch > 256 THEN c.batch ELSE 256
    <2>1. ApplyProfile(c) = [c EXCEPT !.batch = b, !.coop = TRUE]
      BY <1>2 DEF ApplyProfile
    <2>2. b \in Nat /\ b # 0
      BY DEF Configs
    <2> HIDE DEF b
    <2> QED BY <1>2, <2>1, <2>2 DEF Configs, BatchFits
  <1>3. CASE c.profile = "audit"
    <2> DEFINE b == 128
    <2>1. ApplyProfile(c) = [c EXCEPT !.batch = b, !.audit = TRUE, !.signature = TRUE,
                                      !.coop = FALSE]
      BY <1>3 DEF ApplyProfile
    <2>2. b \in Nat
      OBVIOUS
    <2>3. b = 128
      OBVIOUS
    <2> HIDE DEF b
    <2>4. ApplyProfile(c) \in Configs
      BY <2>1, <2>2 DEF Configs
    <2>5. ApplyProfile(c).batch = b
      BY <2>1 DEF Configs
    <2>6. ApplyProfile(c).batch # 0 /\ ~(ApplyProfile(c).batch > 256)
      BY <2>3, <2>5
    <2> QED BY <1>3, <2>1, <2>3, <2>4, <2>5, <2>6 DEF Configs, BatchFits
  <1>4. CASE c.profile = "balanced"
    <2> DEFINE b == 128
    <2>1. ApplyProfile(c) = [c EXCEPT !.batch = b, !.coop = FALSE]
      BY <1>4 DEF ApplyProfile
    <2>2. b \in Nat /\ b # 0 /\ ~(b > 256)
      OBVIOUS
    <2> HIDE DEF b
    <2> QED BY <1>4, <2>1, <2>2 DEF Configs, BatchFits
  <1> QED BY <1>1, <1>2, <1>3, <1>4 DEF Configs, ProfileNames

LEMMA DefaultIsWhole == Default \in Configs /\ Default.sinks # {}
  BY DEF Default, Configs, ProfileNames, LevelsGiven, SinksGiven

LEMMA ParsedIsWhole ==
  ASSUME NEW given \in ConfigFiles
  PROVE  Parsed(given) \in Configs /\ Parsed(given).sinks # {}
  <1> DEFINE c == [Default EXCEPT
                     !.level = SetTo(given.level, @), !.profile = SetTo(given.profile, @),
                     !.audit = Audited(given.audit, @), !.signature = Audited(given.audit, @),
                     !.batch = AsUsize(given.batch), !.sinks = SinksOf(given, @)]
  <1>1. /\ SetTo(given.level, Default.level) \in LevelsGiven
        /\ SetTo(given.profile, Default.profile) \in ProfileNames
        /\ Audited(given.audit, Default.audit) \in BOOLEAN
        /\ Audited(given.audit, Default.signature) \in BOOLEAN
        /\ AsUsize(given.batch) \in Nat
        /\ SinksOf(given, Default.sinks) \in SUBSET SinksGiven
        /\ SinksOf(given, Default.sinks) # {}
    <2>1. /\ Default.level \in LevelsGiven /\ Default.profile \in ProfileNames
          /\ Default.audit \in BOOLEAN /\ Default.signature \in BOOLEAN
          /\ Default.sinks \in SUBSET SinksGiven /\ Default.sinks # {}
      BY DefaultIsWhole DEF Configs
    <2>2. /\ given.level \in LevelsGiven /\ given.profile \in ProfileNames \cup {Unset}
          /\ AsUsize(given.batch) \in Nat /\ given.sinks \in SUBSET SinksGiven
      BY LoadAssumption DEF LevelsGiven, SinksGiven, AsUsize
    <2>3. /\ Audited(given.audit, Default.audit) \in BOOLEAN
          /\ Audited(given.audit, Default.signature) \in BOOLEAN
      BY <2>1 DEF Audited
    <2> QED BY <2>1, <2>2, <2>3 DEF SetTo, SinksOf
  <1>2. c \in Configs /\ c.sinks # {}
    <2> DEFINE lv == SetTo(given.level, Default.level)
               pf == SetTo(given.profile, Default.profile)
               au == Audited(given.audit, Default.audit)
               sg == Audited(given.audit, Default.signature)
               bt == AsUsize(given.batch)
               sk == SinksOf(given, Default.sinks)
    <2>1. c = [Default EXCEPT !.level = lv, !.profile = pf, !.audit = au,
                              !.signature = sg, !.batch = bt, !.sinks = sk]
      OBVIOUS
    <2>2. /\ lv \in LevelsGiven /\ pf \in ProfileNames /\ au \in BOOLEAN
          /\ sg \in BOOLEAN /\ bt \in Nat
          /\ sk \in SUBSET SinksGiven /\ sk # {}
      BY <1>1
    <2> HIDE DEF c, lv, pf, au, sg, bt, sk
    <2> QED BY <2>1, <2>2, DefaultIsWhole DEF Configs
  <1>3. Parsed(given) = ApplyProfile(c)
    BY DEF Parsed
  <1> HIDE DEF c
  <1>4. ApplyProfile(c) \in Configs /\ ApplyProfile(c).sinks = c.sinks
    BY <1>2, ProfileApplied
  <1> QED BY <1>2, <1>3, <1>4

(* Where the file of the highest rung comes from. *)
LEMMA BaseIsLocal ==
  ASSUME DOMAIN layers \subseteq Rungs, \A rank \in DOMAIN layers : layers[rank] \in ConfigFiles
  PROVE  /\ LocalBase \in Configs /\ LocalBase.sinks # {}
         /\ Base = IF "env" \in DOMAIN layers THEN Parsed(layers["env"]) ELSE LocalBase
         /\ Base \in Configs /\ Base.sinks # {}
  <1>1. "local" \notin DOMAIN layers /\ "env" \notin DOMAIN layers
          => (DOMAIN layers = {"system"} <=> "system" \in DOMAIN layers)
    BY DEF Rungs
  <1>2. LocalBase \in Configs /\ LocalBase.sinks # {}
    BY DefaultIsWhole, ParsedIsWhole DEF LocalBase
  <1>3. Base = IF "env" \in DOMAIN layers THEN Parsed(layers["env"]) ELSE LocalBase
    BY <1>1 DEF Base, LocalBase
  <1>4. Base \in Configs /\ Base.sinks # {}
    BY <1>2, <1>3, ParsedIsWhole
  <1> QED BY <1>2, <1>3, <1>4

LEMMA LoadStarts == LoadInit => LoadInv
  <1> SUFFICES ASSUME LoadInit PROVE LoadInv
    OBVIOUS
  <1>1. PICK readable \in SUBSET Rungs : layers \in [readable -> ConfigFiles]
    BY DEF LoadInit
  <1> QED BY <1>1, DefaultIsWhole DEF LoadInit, LoadInv

LEMMA LoadStep == LoadInv /\ [LoadNext]_loadvars => LoadInv'
  <1> SUFFICES ASSUME LoadInv, [LoadNext]_loadvars PROVE LoadInv'
    OBVIOUS
  <1>1. /\ LocalBase \in Configs /\ LocalBase.sinks # {}
        /\ Base = IF "env" \in DOMAIN layers THEN Parsed(layers["env"]) ELSE LocalBase
        /\ Base \in Configs /\ Base.sinks # {}
    BY BaseIsLocal DEF LoadInv
  <1>2. /\ environment.level \in LevelsGiven
        /\ environment.profile \in ProfileNames \cup {Unset}
        /\ api.level \in LevelsGiven /\ api.profile \in ProfileNames \cup {Unset}
        /\ config \in Configs /\ config.sinks # {} /\ api.batch \in Nat
        /\ \A rank \in DOMAIN layers : layers[rank] \in ConfigFiles
    BY LoadAssumption DEF LoadInv, LevelsGiven
  <1>3. CASE UNCHANGED loadvars
    BY <1>3 DEF loadvars, LoadInv, Given, Chosen, ChosenLevel, Base, LocalBase
  <1>4. ASSUME UNCHANGED <<layers, environment, api>>
        PROVE  Base' = Base /\ LocalBase' = LocalBase /\ Chosen' = Chosen
               /\ ChosenLevel' = ChosenLevel
    BY <1>4 DEF Base, LocalBase, Chosen, ChosenLevel
  <1>5. CASE LoadFile("system", "local")
    <2>1. /\ rung = "system" /\ rung' = "local" /\ UNCHANGED <<layers, environment, api>>
          /\ config' = IF "system" \in DOMAIN layers THEN Parsed(layers["system"]) ELSE Default
      BY <1>5 DEF LoadFile, Read, LoadInv
    <2>2. config' \in Configs /\ config'.sinks # {}
      BY <1>2, <2>1, ParsedIsWhole, DefaultIsWhole
    <2> QED BY <2>1, <2>2 DEF LoadInv
  <1>6. CASE LoadFile("local", "environment")
    <2>1. /\ rung = "local" /\ rung' = "environment"
          /\ UNCHANGED <<layers, environment, api>> /\ config' = LocalBase
      BY <1>6 DEF LoadFile, Read, LoadInv, LocalBase
    <2> QED BY <1>1, <1>4, <2>1 DEF LoadInv
  <1>7. CASE ReadEnvironment
    <2>1. /\ rung = "environment" /\ rung' = "env" /\ UNCHANGED <<layers, environment, api>>
          /\ config' = [LocalBase EXCEPT !.level = SetTo(environment.level, @),
                                         !.profile = SetTo(environment.profile, @)]
      BY <1>7 DEF ReadEnvironment, LoadInv
    <2>2. config' \in Configs /\ config'.sinks # {}
      BY <1>1, <1>2, <2>1 DEF Configs, SetTo
    <2> QED BY <1>4, <2>1, <2>2 DEF LoadInv
  <1>8. CASE LoadFile("env", "profile")
    <2>1. /\ rung = "env" /\ rung' = "profile" /\ UNCHANGED <<layers, environment, api>>
          /\ config' = IF "env" \in DOMAIN layers THEN Parsed(layers["env"]) ELSE config
      BY <1>8 DEF LoadFile, Read
    <2>2. config' \in Configs /\ config'.sinks # {}
      BY <1>2, <2>1, ParsedIsWhole
    <2>3. /\ config'.profile = Chosen /\ config'.sinks = Base.sinks
          /\ config'.level = ChosenLevel /\ config'.audit = Base.audit
      <3>1. CASE "env" \in DOMAIN layers
        BY <1>1, <2>1, <3>1 DEF Chosen, ChosenLevel
      <3>2. CASE "env" \notin DOMAIN layers
        <4>1. config' = [LocalBase EXCEPT !.level = SetTo(environment.level, @),
                                          !.profile = SetTo(environment.profile, @)]
          BY <2>1, <3>2 DEF LoadInv
        <4>2. Base = LocalBase
          BY <1>1, <3>2
        <4> QED BY <1>1, <3>2, <4>1, <4>2 DEF Chosen, ChosenLevel, Configs
      <3> QED BY <3>1, <3>2
    <2> QED BY <1>4, <2>1, <2>2, <2>3 DEF LoadInv, Given
  <1>9. CASE SettleProfile
    <2>1. /\ rung = "profile" /\ rung' = "api" /\ UNCHANGED <<layers, environment, api>>
          /\ config' = ApplyProfile(config)
      BY <1>9 DEF SettleProfile
    <2>2. /\ config.profile = Chosen /\ config.sinks = Base.sinks
          /\ config.level = ChosenLevel /\ config.audit = Base.audit
      BY <2>1 DEF LoadInv, Given
    <2>3. /\ config' \in Configs /\ config'.sinks # {}
          /\ config'.profile = Chosen /\ config'.sinks = Base.sinks
          /\ config'.level = ChosenLevel
          /\ Chosen = "audit" => config'.audit = TRUE /\ config'.signature = TRUE
                                 /\ config'.batch = 128
          /\ Chosen = "dev" => config'.audit = FALSE /\ config'.signature = FALSE
                               /\ config'.batch <= 32
          /\ Chosen \in {"perf", "balanced"} => config'.audit = Base.audit
          /\ BatchFits(config'.batch, Chosen)
      BY <1>1, <1>2, <2>1, <2>2, ProfileApplied
    <2> QED BY <1>4, <2>1, <2>3 DEF LoadInv, Given
  <1>10. CASE Override
    <2>1. /\ rung = "api" /\ rung' = "loaded" /\ UNCHANGED <<layers, environment, api>>
          /\ config' = [config EXCEPT
               !.level = SetTo(api.level, @), !.profile = SetTo(api.profile, @),
               !.batch = IF api.batch >= 1 THEN api.batch ELSE @,
               !.audit = (api.audit = "on") \/ @, !.signature = (api.audit = "on") \/ @]
      BY <1>10 DEF Override
    <2>2. /\ config.level = ChosenLevel /\ (Chosen = "audit" => config.audit = TRUE)
          /\ config.audit \in BOOLEAN /\ config.signature \in BOOLEAN
      <3>1. config.level = ChosenLevel /\ (Chosen = "audit" => config.audit = TRUE)
        BY <2>1 DEF LoadInv, Given
      <3> QED BY <1>2, <3>1 DEF Configs
    <2>3. /\ config'.level = SetTo(api.level, ChosenLevel)
          /\ config'.sinks = config.sinks
          /\ config'.audit = ((api.audit = "on") \/ config.audit)
      BY <1>2, <2>1, <2>2 DEF Configs
    <2>4. config' \in Configs
      <3> DEFINE lv == SetTo(api.level, config.level)
                 pf == SetTo(api.profile, config.profile)
                 bt == IF api.batch >= 1 THEN api.batch ELSE config.batch
                 au == (api.audit = "on") \/ config.audit
                 sg == (api.audit = "on") \/ config.signature
      <3>1. config' = [config EXCEPT !.level = lv, !.profile = pf, !.batch = bt,
                                     !.audit = au, !.signature = sg]
        BY <2>1
      <3>2. lv \in LevelsGiven /\ pf \in ProfileNames
        BY <1>2 DEF Configs, SetTo
      <3>3. bt \in Nat
        BY <1>2 DEF Configs
      <3>4. au \in BOOLEAN /\ sg \in BOOLEAN
        OBVIOUS
      <3> HIDE DEF lv, pf, bt, au, sg
      <3> QED BY <1>2, <3>1, <3>2, <3>3, <3>4 DEF Configs
    <2>5. Chosen = "audit" \/ api.audit = "on" => config'.audit
      BY <2>2, <2>3
    <2>6. /\ config'.batch = 0 => Chosen = "dev" /\ api.batch = 0
          /\ config'.batch > 256 => Chosen = "perf" \/ config'.batch = api.batch
      <3>1. config'.batch = IF api.batch >= 1 THEN api.batch ELSE config.batch
        BY <1>2, <2>1 DEF Configs
      <3>2. BatchFits(config.batch, Chosen)
        BY <2>1 DEF LoadInv
      <3> QED BY <1>2, <3>1, <3>2 DEF BatchFits
    <2> QED BY <1>2, <1>4, <2>1, <2>3, <2>4, <2>5, <2>6 DEF LoadInv
  <1> QED BY <1>3, <1>5, <1>6, <1>7, <1>8, <1>9, <1>10 DEF LoadNext

(* Whatever the files hold, which of them can be read, and what environment *)
(* and host ask for: the configuration loaded is that of one file with one *)
(* profile in full, its batch size 0 under "dev" alone and more than 256   *)
(* under "perf" alone (DologgerConfig::load_with_api_overrides).           *)
THEOREM OneFileIsLoaded == LoadSpec => []OneFileOneProfile
  <1>1. LoadInv => OneFileOneProfile
    BY BaseIsLocal DEF LoadInv, OneFileOneProfile, Given, ChosenLevel
  <1> QED BY <1>1, LoadStarts, LoadStep, PTL DEF LoadSpec

(***************************************************************************)
(* Logger domains (DomainTree)                                             *)
(*                                                                         *)
(* A domain of a chain that nothing was replaced under has a depth: no     *)
(* chain of them comes back to itself, and what it resolves to is what its *)
(* parent resolves to, merged with the domain.                             *)
(***************************************************************************)
Firm == DOMAIN domains \ stale

(* One more than its parent. *)
Placed(depth) ==
  /\ depth \in [Firm -> Nat]
  /\ \A n \in Firm :
       depth[n] = IF domains[n].inherits = NoParent THEN 0
                  ELSE depth[domains[n].inherits] + 1

DomainInv ==
  /\ IsFiniteSet(DOMAIN domains) /\ DOMAIN domains \subseteq DomainNames \cup {"default"}
  /\ \A n \in DOMAIN domains : domains[n] \in Domains \cup {DefaultDomain}
  /\ \A n \in Firm : domains[n].inherits # NoParent =>
       /\ domains[n].inherits \in Firm
       /\ ~Downgrades(domains[domains[n].inherits], domains[n])
  /\ \E depth : Placed(depth)

LEMMA DomainsStart == DomainInit => DomainInv
  <1> SUFFICES ASSUME DomainInit PROVE DomainInv
    OBVIOUS
  <1>1. DOMAIN domains = {"default"} /\ Firm = {"default"}
        /\ domains["default"] = DefaultDomain
    BY DEF DomainInit, Firm
  <1>2. IsFiniteSet({"default"})
    BY FS_Singleton
  <1>3. DefaultDomain.inherits = NoParent
    BY DEF DefaultDomain
  <1>4. Placed([n \in Firm |-> 0])
    BY <1>1, <1>3 DEF Placed
  <1> QED BY <1>1, <1>2, <1>3, <1>4 DEF DomainInv

(* The children of a name are its heirs, and so are theirs.                 *)
LEMMA HeirsAreClosed ==
  ASSUME NEW tree, NEW who, NEW m \in DOMAIN tree,
         tree[m].inherits = who \/ tree[m].inherits \in Heirs(tree, who)
  PROVE  m \in Heirs(tree, who)
  BY DEF Heirs

LEMMA AddingKeeps ==
  ASSUME DomainInv, NEW who \in DomainNames, NEW domain \in Domains, AddDomain(who, domain)
  PROVE  DomainInv'
  <1>1. /\ DOMAIN domains' = DOMAIN domains \cup {who} /\ domains'[who] = domain
        /\ \A n \in DOMAIN domains : n # who => domains'[n] = domains[n]
    BY DEF AddDomain
  <1>2. /\ IsFiniteSet(DOMAIN domains')
        /\ DOMAIN domains' \subseteq DomainNames \cup {"default"}
    BY <1>1, FS_AddElement DEF DomainInv
  <1>3. \A n \in DOMAIN domains' : domains'[n] \in Domains \cup {DefaultDomain}
    BY <1>1 DEF DomainInv
  <1>4. \A n \in Firm' : n \in DOMAIN domains' /\ n \notin Heirs(domains', who)
    BY DEF AddDomain, Firm
  <1>5. \A n \in Firm' : n # who => n \in Firm
    BY <1>1 DEF AddDomain, Firm
  <1>6. ASSUME NEW n \in Firm', domains'[n].inherits # NoParent
        PROVE  /\ domains'[n].inherits # who
               /\ domains'[n].inherits \in Firm /\ domains'[n].inherits \in Firm'
               /\ ~Downgrades(domains[domains'[n].inherits], domains'[n])
    <2> DEFINE p == domains'[n].inherits
    <2>1. p # who /\ p \notin Heirs(domains', who)
      BY <1>4, HeirsAreClosed
    <2>2. p \in Firm /\ ~Downgrades(domains[p], domains'[n])
      <3>1. CASE n = who
        <4>1. p = domain.inherits /\ p \in DOMAIN domains /\ ~Downgrades(domains[p], domain)
          BY <1>1, <1>6, <3>1 DEF AddDomain
        <4>2. p \notin stale
          BY <4>1, <3>1 DEF AddDomain, Firm
        <4> QED BY <1>1, <3>1, <4>1, <4>2 DEF Firm
      <3>2. CASE n # who
        <4>1. n \in Firm /\ domains'[n] = domains[n]
          BY <1>1, <1>5, <3>2 DEF Firm
        <4> QED BY <1>6, <4>1 DEF DomainInv
      <3> QED BY <3>1, <3>2
    <2>3. p \in Firm'
      BY <2>1, <2>2 DEF AddDomain, Firm
    <2> QED BY <2>1, <2>2, <2>3
  <1>7. ASSUME NEW n \in Firm', domains'[n].inherits # NoParent
        PROVE  ~Downgrades(domains'[domains'[n].inherits], domains'[n])
    BY <1>1, <1>6, <1>7 DEF Firm
  <1>8. PICK depth : Placed(depth)
    BY DEF DomainInv
  <1> DEFINE below == IF domain.inherits = NoParent THEN 0 ELSE depth[domain.inherits] + 1
             deep  == [n \in Firm' |-> IF n = who THEN below ELSE depth[n]]
  <1>9. who \in Firm' => below \in Nat
    BY <1>1, <1>6, <1>8 DEF Placed
  <1>10. deep \in [Firm' -> Nat]
    BY <1>5, <1>8, <1>9 DEF Placed
  <1>11. ASSUME NEW n \in Firm'
         PROVE  deep[n] = IF domains'[n].inherits = NoParent THEN 0
                          ELSE deep[domains'[n].inherits] + 1
    <2>1. domains'[n].inherits # NoParent
            => deep[domains'[n].inherits] = depth[domains'[n].inherits]
      BY <1>6
    <2>2. CASE n = who
      BY <1>1, <2>1, <2>2
    <2>3. CASE n # who
      <3>1. n \in Firm /\ domains'[n] = domains[n] /\ deep[n] = depth[n]
        BY <1>1, <1>5, <2>3 DEF Firm
      <3> QED BY <1>8, <2>1, <3>1 DEF Placed
    <2> QED BY <2>2, <2>3
  <1> HIDE DEF deep
  <1>12. \E d : Placed(d)'
    BY <1>10, <1>11 DEF Placed
  <1> QED BY <1>2, <1>3, <1>6, <1>7, <1>12 DEF DomainInv

LEMMA DomainsStep == DomainInv /\ [DomainNext]_domainvars => DomainInv'
  <1>1. DomainInv /\ UNCHANGED domainvars => DomainInv'
    BY DEF domainvars, DomainInv, Firm, Placed
  <1> QED BY <1>1, AddingKeeps DEF DomainNext

AllSinks == LogSinks \cup {"console"}

Whole ==
  [inherits : DomainNames \cup {NoParent}, enable_signature : BOOLEAN \cup {Inherited},
   sinks : Seq(AllSinks), policy : Policies \cup {"UniqueAppend"}]

LEMMA DomainsAreWhole ==
  ASSUME NEW domain \in Domains \cup {DefaultDomain}
  PROVE  domain \in Whole
  <1>1. Seq(LogSinks) \subseteq Seq(AllSinks)
    <2>1. \A s \in Seq(LogSinks) : s \in [1..Len(s) -> AllSinks] /\ Len(s) \in Nat
      BY LenProperties DEF AllSinks
    <2> QED BY <2>1, SeqDef
  <1>2. <<"console">> \in Seq(AllSinks)
    BY DEF AllSinks
  <1>3. DefaultDomain \in Whole
    BY <1>2 DEF DefaultDomain, Whole
  <1> QED BY <1>1, <1>3, DomainAssumption DEF Domains, Whole

(* Pushing adds to a list and takes nothing out.                            *)
LEMMA PushingKeeps ==
  ASSUME NEW S, NEW list \in Seq(S), NEW more \in Seq(S)
  PROVE  /\ Pushed(list, more)[Len(more)] \in Seq(S)
         /\ ToSet(list) \subseteq ToSet(Pushed(list, more)[Len(more)])
  <1> DEFINE last == Len(more)
             T == {l \in Seq(S) : ToSet(list) \subseteq ToSet(l)}
             Push(l, s) == IF s \in ToSet(l) THEN l ELSE Append(l, s)
             move == [p \in (1..last) \X T |-> Push(p[2], more[p[1]])]
  <1>1. last \in Nat /\ \A i \in 1..last : more[i] \in S
    BY LenProperties
  <1>2. ASSUME NEW l \in T, NEW s \in S PROVE Push(l, s) \in T
    <2>1. Append(l, s) \in Seq(S) /\ Len(Append(l, s)) = Len(l) + 1
          /\ \A i \in 1..Len(l) : Append(l, s)[i] = l[i]
      BY AppendProperties
    <2>2. DOMAIN l = 1..Len(l) /\ DOMAIN Append(l, s) = 1..Len(l) + 1 /\ Len(l) \in Nat
      BY <2>1, LenProperties
    <2>3. ToSet(l) \subseteq ToSet(Append(l, s))
      BY <2>1, <2>2 DEF ToSet
    <2> QED BY <2>1, <2>3
  <1> HIDE DEF Push
  <1>3. \A i \in 1..last, l \in T : move[<<i, l>>] = Push(l, more[i])
    OBVIOUS
  <1>4. Stays(move, last, T)
    BY <1>1, <1>2, <1>3 DEF Stays
  <1>5. list \in T
    OBVIOUS
  <1> HIDE DEF T, move, last
  <1>6. PICK f \in [0..last -> T] : Taken(list, move, last, f)
    BY <1>1, <1>4, <1>5, StepsCanBeTaken
  <1>7. \A i \in 1..last : i - 1 \in 0..last /\ i \in 0..last /\ i # 0
    BY <1>1
  <1>8. \A i \in 1..last : f[i] = Push(f[i - 1], more[i])
    BY <1>3, <1>6, <1>7 DEF Taken
  <1>9. \A i \in 0..last : i # 0 => i \in 1..last
    BY <1>1
  <1> DEFINE Walk(g) == g = [i \in 0..last |-> IF i = 0 THEN list
                                               ELSE Push(g[i - 1], more[i])]
  <1>10. Walk(f)
    BY <1>6, <1>8, <1>9 DEF Taken
  <1>11. Walk(Pushed(list, more))
    <2>1. Pushed(list, more) = CHOOSE g : Walk(g)
      BY DEF Pushed, Push, last
    <2> HIDE DEF Walk
    <2> QED BY <1>10, <2>1
  <1>12. 0 \in 0..last /\ last \in 0..last
    BY <1>1
  <1>13. \A i \in 0..last : Pushed(list, more)[i] = f[i]
    <2> DEFINE g == Pushed(list, more)
    <2>1. g[0] = f[0]
      BY <1>6, <1>11, <1>12 DEF Taken
    <2>2. \A i \in 1..last : g[i] = Push(g[i - 1], more[i])
      BY <1>7, <1>11
    <2> HIDE DEF g, Walk
    <2>3. SameSteps(g, f, last)
      BY <1>8, <2>1, <2>2 DEF SameSteps
    <2>4. \A i \in 0..last : g[i] = f[i]
      BY <1>1, <2>3, StepsAgree
    <2> QED BY <2>4 DEF g
  <1>14. Pushed(list, more)[last] \in T
    BY <1>6, <1>12, <1>13
  <1> QED BY <1>14 DEF T, last

LEMMA SinksAreMerged ==
  ASSUME NEW parent \in Whole, NEW child \in Whole
  PROVE  /\ MergedSinks(parent, child) \in Seq(AllSinks)
         /\ child.policy # "Replace"
              => ToSet(parent.sinks) \subseteq ToSet(MergedSinks(parent, child))
  <1>1. parent.sinks \in Seq(AllSinks) /\ child.sinks \in Seq(AllSinks)
    BY DEF Whole
  <1>2. CASE child.policy = "Replace"
    BY <1>1, <1>2 DEF MergedSinks
  <1>3. CASE child.policy = "Append"
    <2>1. MergedSinks(parent, child) = parent.sinks \o child.sinks
      BY <1>3 DEF MergedSinks
    <2> DEFINE s == parent.sinks
               t == child.sinks
    <2>2. /\ s \o t \in Seq(AllSinks) /\ Len(s \o t) = Len(s) + Len(t)
          /\ \A i \in 1..Len(s) + Len(t) :
               (s \o t)[i] = IF i <= Len(s) THEN s[i] ELSE t[i - Len(s)]
      BY <1>1, ConcatProperties
    <2>3. /\ Len(s) \in Nat /\ Len(t) \in Nat /\ DOMAIN s = 1..Len(s)
          /\ DOMAIN (s \o t) = 1..Len(s) + Len(t)
      BY <1>1, <2>2, LenProperties
    <2> HIDE DEF s, t
    <2>4. \A i \in DOMAIN s : i \in DOMAIN (s \o t) /\ (s \o t)[i] = s[i]
      BY <2>2, <2>3
    <2>5. ToSet(s) \subseteq ToSet(s \o t)
      BY <2>4 DEF ToSet
    <2> QED BY <2>1, <2>2, <2>5 DEF s, t
  <1>4. CASE child.policy \notin {"Replace", "Append"}
    <2>1. MergedSinks(parent, child) = Pushed(parent.sinks, child.sinks)[Len(child.sinks)]
      BY <1>4 DEF MergedSinks
    <2> QED BY <1>1, <2>1, PushingKeeps
  <1> QED BY <1>2, <1>3, <1>4

LEMMA MergesAreWhole ==
  ASSUME NEW parent \in Whole, NEW child \in Whole
  PROVE  /\ Merge(parent, child) \in Whole
         /\ Merge(parent, child).sinks = MergedSinks(parent, child)
         /\ Merge(parent, child).enable_signature =
              IF child.enable_signature = Inherited THEN parent.enable_signature
              ELSE child.enable_signature
  BY SinksAreMerged DEF Merge, Whole

(* The turns of the loop that merges a chain.                               *)
LEMMA MergingWalks ==
  ASSUME NEW chain \in Seq(Whole), Len(chain) # 0
  PROVE  /\ Merging(chain)[0] = chain[1]
         /\ \A i \in 1..Len(chain) - 1 :
              Merging(chain)[i] = Merge(Merging(chain)[i - 1], chain[i + 1])
         /\ \A i \in 0..Len(chain) - 1 : Merging(chain)[i] \in Whole
  <1> DEFINE last == Len(chain) - 1
             move == [p \in (1..last) \X Whole |-> Merge(p[2], chain[p[1] + 1])]
  <1>1. last \in Nat /\ 1 \in 1..Len(chain) /\ \A i \in 1..last : i + 1 \in 1..Len(chain)
    BY LenProperties
  <1>2. chain[1] \in Whole /\ \A i \in 1..last : chain[i + 1] \in Whole
    BY <1>1, ElementOfSeq
  <1>3. \A i \in 1..last, w \in Whole : move[<<i, w>>] = Merge(w, chain[i + 1])
    OBVIOUS
  <1>4. Stays(move, last, Whole)
    BY <1>2, <1>3, MergesAreWhole DEF Stays
  <1> HIDE DEF move, last
  <1>5. PICK f \in [0..last -> Whole] : Taken(chain[1], move, last, f)
    BY <1>1, <1>2, <1>4, StepsCanBeTaken
  <1>6. \A i \in 1..last : i - 1 \in 0..last /\ i \in 0..last /\ i # 0
    BY <1>1
  <1>7. f[0] = chain[1] /\ \A i \in 1..last : f[i] = Merge(f[i - 1], chain[i + 1])
    BY <1>3, <1>5, <1>6 DEF Taken
  <1>8. 0 \in 0..last /\ \A i \in 0..last : i # 0 => i \in 1..last
    BY <1>1
  <1> DEFINE Walk(g) == g = [i \in 0..last |-> IF i = 0 THEN chain[1]
                                               ELSE Merge(g[i - 1], chain[i + 1])]
  <1>9. Walk(f)
    BY <1>7, <1>8
  <1>10. Walk(Merging(chain))
    <2>1. Merging(chain) = CHOOSE g : Walk(g)
      BY DEF Merging, last
    <2> HIDE DEF Walk
    <2> QED BY <1>9, <2>1
  <1> DEFINE h == Merging(chain)
  <1>11. h[0] = chain[1]
    BY <1>8, <1>10
  <1>12. \A i \in 1..last : h[i] = Merge(h[i - 1], chain[i + 1])
    BY <1>6, <1>10
  <1> HIDE DEF h, Walk
  <1>13. SameSteps(h, f, last)
    BY <1>7, <1>11, <1>12 DEF SameSteps
  <1>14. \A i \in 0..last : h[i] = f[i]
    BY <1>1, <1>13, StepsAgree
  <1>15. \A i \in 0..last : h[i] \in Whole
    BY <1>5, <1>14
  <1> QED BY <1>11, <1>12, <1>15 DEF h, last

(* The way up from a domain, one parent at a time.                          *)
LEMMA ChainClimbs ==
  ASSUME DomainInv, NEW depth, Placed(depth), NEW who \in Firm
  PROVE  LET up == ChainIn(domains, who)
             c  == Cardinality(DOMAIN domains)
         IN  /\ c \in Nat /\ DOMAIN up = 0..c /\ up[0] = who
             /\ \A k \in 1..c : up[k] = IF up[k - 1] = NoParent THEN NoParent
                                        ELSE domains[up[k - 1]].inherits
             /\ \A k \in 0..c : IF k <= depth[who]
                                THEN up[k] \in Firm /\ depth[up[k]] = depth[who] - k
                                ELSE up[k] = NoParent
             /\ depth[who] < c
  <1> DEFINE c == Cardinality(DOMAIN domains)
             T == Firm \cup {NoParent}
             Up(n) == IF n = NoParent THEN NoParent ELSE domains[n].inherits
             move == [p \in (1..c) \X T |-> Up(p[2])]
             up == ChainIn(domains, who)
             d == depth[who]
  <1>1. c \in Nat /\ IsFiniteSet(DOMAIN domains)
    BY FS_CardinalityType DEF DomainInv
  <1>2. NoParent \notin Firm /\ Firm \subseteq DOMAIN domains
    BY DomainAssumption DEF DomainInv, Firm
  <1>3. \A n \in T : Up(n) \in T
    BY DEF DomainInv
  <1>4. \A n \in Firm : depth[n] \in Nat
                        /\ (depth[n] = 0 => Up(n) = NoParent)
                        /\ (depth[n] # 0 => Up(n) \in Firm /\ depth[Up(n)] = depth[n] - 1)
    <2> SUFFICES ASSUME NEW n \in Firm
                 PROVE  /\ depth[n] \in Nat
                        /\ depth[n] = 0 => Up(n) = NoParent
                        /\ depth[n] # 0 => Up(n) \in Firm /\ depth[Up(n)] = depth[n] - 1
      OBVIOUS
    <2>1. Up(n) = domains[n].inherits /\ depth[n] \in Nat
      BY <1>2 DEF Placed
    <2>2. CASE domains[n].inherits = NoParent
      BY <2>1, <2>2 DEF Placed
    <2>3. CASE domains[n].inherits # NoParent
      <3>1. Up(n) \in Firm /\ depth[n] = depth[Up(n)] + 1 /\ depth[Up(n)] \in Nat
        BY <2>1, <2>3 DEF DomainInv, Placed
      <3> HIDE DEF Up
      <3> QED BY <3>1
    <2> QED BY <2>2, <2>3
  <1>5. Up(NoParent) = NoParent
    OBVIOUS
  <1> HIDE DEF Up
  <1>6. \A i \in 1..c, n \in T : move[<<i, n>>] = Up(n)
    OBVIOUS
  <1>7. Stays(move, c, T)
    BY <1>3, <1>6 DEF Stays
  <1>8. who \in T
    OBVIOUS
  <1> HIDE DEF T, move, c
  <1>9. PICK f \in [0..c -> T] : Taken(who, move, c, f)
    BY <1>1, <1>7, <1>8, StepsCanBeTaken
  <1>10. \A k \in 1..c : k - 1 \in 0..c /\ k \in 0..c /\ k # 0
    BY <1>1
  <1>11. 0 \in 0..c /\ \A k \in 0..c : k # 0 => k \in 1..c
    BY <1>1
  <1>12. f[0] = who /\ \A k \in 1..c : f[k] = Up(f[k - 1])
    BY <1>6, <1>9, <1>10 DEF Taken
  <1> DEFINE Walk(g) == g = [k \in 0..c |-> IF k = 0 THEN who ELSE Up(g[k - 1])]
  <1>13. Walk(f)
    BY <1>11, <1>12
  <1>14. Walk(up)
    <2>1. up = CHOOSE g : Walk(g)
      BY DEF ChainIn, Up, c
    <2> HIDE DEF Walk, up
    <2> QED BY <1>13, <2>1
  <1>15. DOMAIN up = 0..c /\ up[0] = who
    BY <1>11, <1>14
  <1>16. \A k \in 1..c : up[k] = Up(up[k - 1])
    BY <1>10, <1>14
  <1> HIDE DEF up, Walk
  <1>17. d \in Nat
    BY <1>4
  <1> DEFINE Rise(k) == IF k <= d THEN up[k] \in Firm /\ depth[up[k]] = d - k
                      ELSE up[k] = NoParent
             N == {k \in Nat : k <= c => Rise(k)}
  <1>18. \A k \in 0..c : Rise(k)
    <2>1. 0 \in N
      BY <1>15, <1>17
    <2>2. ASSUME NEW k \in N PROVE k + 1 \in N
      <3> SUFFICES ASSUME k + 1 <= c PROVE Rise(k + 1)
        OBVIOUS
      <3>1. k \in Nat /\ k + 1 \in 1..c /\ k + 1 - 1 = k /\ Rise(k)
        BY <1>1
      <3>2. up[k + 1] = Up(up[k])
        BY <1>16, <3>1
      <3>3. CASE k + 1 <= d
        <4>1. up[k] \in Firm /\ depth[up[k]] = d - k /\ d - k # 0
              /\ d - k - 1 = d - (k + 1)
          BY <1>17, <3>1, <3>3
        <4>2. up[k + 1] \in Firm /\ depth[up[k + 1]] = d - k - 1
          BY <1>4, <3>2, <4>1
        <4> QED BY <3>3, <4>1, <4>2
      <3>4. CASE k = d
        <4>1. up[k] \in Firm /\ depth[up[k]] = 0 /\ ~(k + 1 <= d)
          BY <1>17, <3>1, <3>4
        <4> QED BY <1>4, <3>2, <4>1
      <3>5. CASE ~(k <= d)
        <4>1. up[k] = NoParent /\ ~(k + 1 <= d)
          BY <1>17, <3>1, <3>5
        <4> QED BY <1>5, <3>2, <4>1
      <3> HIDE DEF d, Rise
      <3>6. k + 1 <= d \/ k = d \/ ~(k <= d)
        BY <1>17, <3>1
      <3> QED BY <3>3, <3>4, <3>5, <3>6
    <2> HIDE DEF Rise
    <2>3. N = Nat
      BY <2>1, <2>2, CountingUp
    <2> QED BY <1>1, <2>3
  <1>19. d < c
    <2> SUFFICES ASSUME c <= d PROVE FALSE
      BY <1>1, <1>17
    <2> DEFINE g == [k \in 0..c |-> up[k]]
    <2>1. \A k \in 0..c : up[k] \in Firm /\ depth[up[k]] = d - k
      BY <1>1, <1>17, <1>18
    <2>2. \A j, k \in 0..c : d - j = d - k => j = k
      BY <1>1, <1>17
    <2>3. \A j, k \in 0..c : up[j] = up[k] => j = k
      BY <2>1, <2>2
    <2>4. g \in Injection(0..c, DOMAIN domains)
      BY <1>2, <2>1, <2>3 DEF Injection, IsInjective
    <2>5. Cardinality(0..c) <= c
      BY <1>1, <2>4, FS_Injection DEF c
    <2>6. Cardinality(0..c) = c + 1
      BY <1>1, FS_Interval
    <2> QED BY <1>1, <2>5, <2>6
  <1> QED BY <1>1, <1>15, <1>16, <1>18, <1>19 DEF up, c, Up

LEMMA ChainsAreWhole ==
  ASSUME DomainInv, NEW depth, Placed(depth), NEW who \in Firm
  PROVE  /\ ~Loops(domains, who)
         /\ ChainOf(who) \in Seq(Whole) /\ Len(ChainOf(who)) = depth[who] + 1
         /\ \A i \in 1..depth[who] + 1 :
              ChainOf(who)[i] = domains[ChainIn(domains, who)[depth[who] + 1 - i]]
  <1> DEFINE up == ChainIn(domains, who)
             c == Cardinality(DOMAIN domains)
             d == depth[who]
             n == Cardinality({k \in DOMAIN up : up[k] # NoParent})
  <1>1. /\ c \in Nat /\ DOMAIN up = 0..c /\ d < c
        /\ \A k \in 0..c : IF k <= d THEN up[k] \in Firm ELSE up[k] = NoParent
    BY ChainClimbs
  <1>2. d \in Nat
    BY DEF Placed
  <1>3. NoParent \notin Firm /\ Firm \subseteq DOMAIN domains
    BY DomainAssumption DEF DomainInv, Firm
  <1>4. ~Loops(domains, who)
    BY <1>1, <1>2 DEF Loops
  <1> DEFINE whole == [i \in 1..n |-> domains[up[n - i]]]
  <1>5. ChainOf(who) = whole
    BY DEF ChainOf
  <1> HIDE DEF up, c, d
  <1>6. n = d + 1
    <2>1. \A k : k \in 0..c /\ k <= d <=> k \in 0..d
      BY <1>1, <1>2
    <2>2. {k \in DOMAIN up : up[k] # NoParent} = 0..d
      BY <1>1, <1>3, <2>1
    <2>3. Cardinality(0..d) = d + 1
      BY <1>2, FS_Interval
    <2> QED BY <2>2, <2>3
  <1> HIDE DEF n
  <1>7. \A i \in 1..n : n - i \in 0..c /\ n - i <= d
    BY <1>1, <1>2, <1>6
  <1>8. \A i \in 1..n : domains[up[n - i]] \in Whole
    BY <1>1, <1>3, <1>7, DomainsAreWhole DEF DomainInv
  <1>9. n \in Nat
    BY <1>2, <1>6
  <1>10. whole \in Seq(Whole) /\ Len(whole) = n
    <2>1. whole \in Seq(Whole)
      BY <1>8, <1>9, SeqDef
    <2>2. DOMAIN whole = 1..Len(whole) /\ Len(whole) \in Nat /\ DOMAIN whole = 1..n
      BY <2>1, LenProperties
    <2> QED BY <1>9, <2>1, <2>2
  <1>11. \A i \in 1..d + 1 : whole[i] = domains[up[d + 1 - i]]
    <2> SUFFICES ASSUME NEW i \in 1..d + 1 PROVE whole[i] = domains[up[d + 1 - i]]
      OBVIOUS
    <2>1. i \in 1..n /\ n - i = d + 1 - i
      BY <1>2, <1>6
    <2>2. whole[i] = domains[up[n - i]]
      BY <2>1
    <2> HIDE DEF whole
    <2> QED BY <2>1, <2>2
  <1> HIDE DEF whole
  <1>12. \A i \in 1..d + 1 : ChainOf(who)[i] = domains[up[d + 1 - i]]
    BY <1>5, <1>11
  <1>13. ChainOf(who) \in Seq(Whole) /\ Len(ChainOf(who)) = d + 1
    BY <1>5, <1>6, <1>10
  <1> QED BY <1>4, <1>12, <1>13 DEF up, d

(* Root or not, a domain resolves to itself over what its parent does.      *)
LEMMA ResolvesOverItsParent ==
  ASSUME DomainInv, NEW who \in Firm
  PROVE  LET p == domains[who].inherits
         IN  /\ ~Loops(domains, who) /\ Resolve(who) \in Whole
             /\ p = NoParent => Resolve(who) = domains[who]
             /\ p # NoParent => p \in Firm /\ Resolve(who) = Merge(Resolve(p), domains[who])
  <1>1. PICK depth : Placed(depth)
    BY DEF DomainInv
  <1> DEFINE d == depth[who]
             up == ChainIn(domains, who)
             chain == ChainOf(who)
             p == domains[who].inherits
  <1>2. d \in Nat /\ (p = NoParent => d = 0)
    BY <1>1 DEF Placed
  <1>3. /\ ~Loops(domains, who)
        /\ chain \in Seq(Whole) /\ Len(chain) = d + 1
        /\ \A i \in 1..d + 1 : chain[i] = domains[up[d + 1 - i]]
    BY <1>1, ChainsAreWhole
  <1>4. up[0] = who
    BY <1>1, ChainClimbs
  <1>5. /\ Merging(chain)[0] = chain[1]
        /\ \A i \in 1..d : Merging(chain)[i] = Merge(Merging(chain)[i - 1], chain[i + 1])
        /\ \A i \in 0..d : Merging(chain)[i] \in Whole
    <2>1. Len(chain) # 0 /\ Len(chain) - 1 = d
      BY <1>2, <1>3
    <2> HIDE DEF chain, d
    <2> QED BY <1>3, <2>1, MergingWalks
  <1>6. Resolve(who) = Merging(chain)[d]
    <2>1. Len(chain) - 1 = d
      BY <1>2, <1>3
    <2> QED BY <2>1 DEF Resolve
  <1>7. chain[d + 1] = domains[who]
    <2>1. d + 1 \in 1..d + 1 /\ d + 1 - (d + 1) = 0
      BY <1>2
    <2> QED BY <1>3, <1>4, <2>1
  <1>8. Resolve(who) \in Whole
    BY <1>2, <1>5, <1>6
  <1>9. ASSUME p = NoParent PROVE Resolve(who) = domains[who]
    BY <1>2, <1>5, <1>6, <1>7, <1>9
  <1>10. ASSUME p # NoParent
         PROVE  p \in Firm /\ Resolve(who) = Merge(Resolve(p), domains[who])
    <2> DEFINE upp == ChainIn(domains, p)
               above == ChainOf(p)
               c == Cardinality(DOMAIN domains)
    <2>1. p \in Firm
      BY <1>10 DEF DomainInv
    <2>2. d = depth[p] + 1 /\ depth[p] \in Nat
      BY <1>1, <1>10, <2>1 DEF Placed
    <2>3. above \in Seq(Whole) /\ Len(above) = d
          /\ \A i \in 1..d : above[i] = domains[upp[d - i]]
      <3>1. above \in Seq(Whole) /\ Len(above) = depth[p] + 1
            /\ \A i \in 1..depth[p] + 1 : above[i] = domains[upp[depth[p] + 1 - i]]
        BY <1>1, <2>1, ChainsAreWhole
      <3> HIDE DEF above, upp, d, p
      <3> QED BY <2>2, <3>1
    <2>4. /\ c \in Nat /\ d < c
          /\ \A k \in 1..c : up[k] = IF up[k - 1] = NoParent THEN NoParent
                                     ELSE domains[up[k - 1]].inherits
      BY <1>1, ChainClimbs
    <2>5. /\ upp[0] = p
          /\ \A k \in 1..c : upp[k] = IF upp[k - 1] = NoParent THEN NoParent
                                      ELSE domains[upp[k - 1]].inherits
      BY <1>1, <2>1, ChainClimbs
    <2>6. who # NoParent
      BY DomainAssumption DEF DomainInv, Firm
    <2>7. up[1] = p
      <3>1. 1 \in 1..c /\ 1 - 1 = 0
        BY <1>2, <2>4
      <3> QED BY <1>4, <2>4, <2>6, <3>1
    <2> DEFINE above1 == [k \in 0..d - 1 |-> up[k + 1]]
               shorter == [i \in 0..d - 1 |-> Merging(chain)[i]]
    <2> HIDE DEF d, up, chain, upp, above, c, p
    <2>8. d - 1 \in Nat /\ 0 \in 0..d - 1 /\ d - 1 \in 0..d - 1
          /\ \A k \in 1..d - 1 : k \in 1..c /\ k + 1 \in 1..c /\ k - 1 \in 0..d - 1
                                 /\ k \in 0..d - 1 /\ k + 1 - 1 = k /\ k - 1 + 1 = k
      BY <2>2, <2>4
    <2>9. \A k \in 0..d - 1 : upp[k] = up[k + 1]
      <3>1. \A k \in 0..d - 1 : above1[k] = up[k + 1]
        OBVIOUS
      <3> HIDE DEF above1
      <3>2. above1[0] = upp[0]
        BY <2>5, <2>7, <2>8, <3>1
      <3>3. \A k \in 1..d - 1 : /\ above1[k] = IF above1[k - 1] = NoParent THEN NoParent
                                               ELSE domains[above1[k - 1]].inherits
                                /\ upp[k] = IF upp[k - 1] = NoParent THEN NoParent
                                            ELSE domains[upp[k - 1]].inherits
        BY <2>4, <2>5, <2>8, <3>1
      <3>4. SameSteps(above1, upp, d - 1)
        BY <3>2, <3>3 DEF SameSteps
      <3>5. \A k \in 0..d - 1 : above1[k] = upp[k]
        BY <2>8, <3>4, StepsAgree
      <3> QED BY <3>1, <3>5
    <2>10. \A i \in 1..d : above[i] = chain[i]
      <3>1. \A i \in 1..d : d - i \in 0..d - 1 /\ i \in 1..d + 1 /\ d - i + 1 = d + 1 - i
        BY <1>2
      <3>2. ASSUME NEW i \in 1..d PROVE above[i] = chain[i]
        <4>1. above[i] = domains[upp[d - i]]
          BY <2>3
        <4>2. upp[d - i] = up[d + 1 - i]
          BY <2>9, <3>1
        <4>3. chain[i] = domains[up[d + 1 - i]]
          BY <1>3, <3>1
        <4> QED BY <4>1, <4>2, <4>3
      <3> QED BY <3>2
    <2>11. /\ Merging(above)[0] = above[1]
           /\ \A i \in 1..d - 1 : Merging(above)[i] = Merge(Merging(above)[i - 1], above[i + 1])
      <3>1. Len(above) # 0 /\ Len(above) - 1 = d - 1
        BY <2>2, <2>3
      <3> QED BY <2>3, <3>1, MergingWalks
    <2>12. Merging(above)[d - 1] = Merging(chain)[d - 1]
      <3> DEFINE f == Merging(above)
                 g == Merging(chain)
      <3>1. 1 \in 1..d /\ \A i \in 1..d - 1 : i \in 1..d /\ i + 1 \in 1..d
        BY <1>2, <2>8
      <3>2. f[0] = g[0]
        BY <1>5, <2>10, <2>11, <3>1
      <3>3. \A i \in 1..d - 1 : /\ f[i] = Merge(f[i - 1], chain[i + 1])
                                /\ g[i] = Merge(g[i - 1], chain[i + 1])
        BY <1>5, <2>10, <2>11, <3>1
      <3> HIDE DEF f, g
      <3>4. SameSteps(f, g, d - 1)
        BY <3>2, <3>3 DEF SameSteps
      <3>5. \A i \in 0..d - 1 : f[i] = g[i]
        BY <2>8, <3>4, StepsAgree
      <3> QED BY <2>8, <3>5 DEF f, g
    <2>13. Resolve(p) = Merging(above)[d - 1]
      <3>1. Len(above) - 1 = d - 1
        BY <2>3
      <3> QED BY <3>1 DEF Resolve, above
    <2>14. d \in 1..d
      BY <1>2, <2>8
    <2>15. Resolve(who) = Merge(Merging(chain)[d - 1], chain[d + 1])
      BY <1>5, <1>6, <2>14
    <2> QED BY <1>7, <2>1, <2>12, <2>13, <2>15 DEF p
  <1> QED BY <1>3, <1>8, <1>9, <1>10

(* However domains are added and replaced: a chain nothing was replaced     *)
(* under ends, and a child resolves to something looser than its parent    *)
(* does only where that parent itself says nothing, which add_domain then  *)
(* does not refuse (DomainManager::add_domain and resolve).                *)
THEOREM ChildrenAlwaysTighten == DomainSpec => []ChildrenTighten
  <1>1. ASSUME DomainInv PROVE ChildrenTighten
    <2> SUFFICES ASSUME NEW who \in Firm, NEW up, up = domains[who].inherits
                 PROVE  /\ ~Loops(domains, who)
                        /\ up # NoParent =>
                             /\ domains[up].enable_signature = TRUE
                                  => Resolve(who).enable_signature = TRUE
                             /\ Resolve(who).enable_signature =
                                  IF domains[who].enable_signature = Inherited
                                  THEN Resolve(up).enable_signature
                                  ELSE domains[who].enable_signature
                             /\ domains[who].policy # "Replace"
                                  => ToSet(Resolve(up).sinks) \subseteq ToSet(Resolve(who).sinks)
      BY DEF ChildrenTighten, Firm
    <2>1. ~Loops(domains, who)
      BY <1>1, ResolvesOverItsParent
    <2> SUFFICES ASSUME up # NoParent
                 PROVE  /\ domains[up].enable_signature = TRUE
                             => Resolve(who).enable_signature = TRUE
                        /\ Resolve(who).enable_signature =
                             IF domains[who].enable_signature = Inherited
                             THEN Resolve(up).enable_signature
                             ELSE domains[who].enable_signature
                        /\ domains[who].policy # "Replace"
                             => ToSet(Resolve(up).sinks) \subseteq ToSet(Resolve(who).sinks)
      BY <2>1
    <2>2. up \in Firm /\ Resolve(who) = Merge(Resolve(up), domains[who])
      BY <1>1, ResolvesOverItsParent
    <2>3. Resolve(up) \in Whole /\ domains[who] \in Whole /\ domains[up] \in Whole
      BY <1>1, <2>2, ResolvesOverItsParent, DomainsAreWhole DEF DomainInv, Firm
    <2>4. /\ Resolve(who).sinks = MergedSinks(Resolve(up), domains[who])
          /\ Resolve(who).enable_signature =
               IF domains[who].enable_signature = Inherited
               THEN Resolve(up).enable_signature ELSE domains[who].enable_signature
      BY <2>2, <2>3, MergesAreWhole
    <2>5. domains[who].policy # "Replace"
            => ToSet(Resolve(up).sinks) \subseteq ToSet(Resolve(who).sinks)
      BY <2>3, <2>4, SinksAreMerged
    <2>6. domains[up].enable_signature = TRUE => Resolve(up).enable_signature = TRUE
      <3> DEFINE q == domains[up].inherits
      <3>1. CASE q = NoParent
        BY <1>1, <2>2, <3>1, ResolvesOverItsParent
      <3>2. CASE q # NoParent
        <4>1. Resolve(up) = Merge(Resolve(q), domains[up]) /\ Resolve(q) \in Whole
          BY <1>1, <2>2, <3>2, ResolvesOverItsParent
        <4>2. Merge(Resolve(q), domains[up]).enable_signature =
                IF domains[up].enable_signature = Inherited
                THEN Resolve(q).enable_signature ELSE domains[up].enable_signature
          BY <2>3, <4>1, MergesAreWhole
        <4> QED BY <4>1, <4>2, DomainAssumption
      <3> QED BY <3>1, <3>2
    <2>7. ~(domains[up].enable_signature = TRUE /\ domains[who].enable_signature = FALSE)
      BY <1>1, <2>2 DEF DomainInv, Downgrades
    <2>8. domains[who].enable_signature \in BOOLEAN \cup {Inherited}
      BY <2>3 DEF Whole
    <2> QED BY <2>4, <2>5, <2>6, <2>7, <2>8
  <1> QED BY <1>1, DomainsStart, DomainsStep, PTL DEF DomainSpec

(***************************************************************************)
(* Engine run (EngineRun)                                                  *)
(*                                                                         *)
(* What the callback has parsed and what the engine runs with have --shm,  *)
(* or both the path of the file that nobody has edited.                    *)
(***************************************************************************)

(* The shared memory that is neither overridden nor edited, or is --shm.    *)
Keeps(c) ==
  /\ c \in [level : FileLevels, shm : ShmPaths \cup {"cli"}]
  /\ shm_path # NoPath => c.shm = shm_path
  /\ shm_path = NoPath /\ ~shm_edited => config_file # Bad /\ c.shm = config_file.shm

RunInv ==
  /\ config_file \in RunFiles \cup {Bad} /\ shm_edited \in BOOLEAN
  /\ shm_path \in {NoPath, "cli"}
  /\ run_config = Bad \/ Keeps(run_config)
  /\ callback_pc \in {"off", "idle", "lock", "reload"}
  /\ callback_pc \in {"lock", "reload"} => Keeps(parsed)
  /\ callback_pc # "off" => run_config # Bad /\ main_pc # "load"
  /\ callback_pc = "reload" => engine_mutex = "callback"
  /\ main_pc = "shutdown" => engine_mutex = "main"
  /\ main_pc = "load" => run_config = Bad
  /\ main_pc \in {"watch", "install", "wait", "shutdown", "leave"} => run_config # Bad
  /\ shm_path # NoPath \/ ~shm_edited => outcome # "restart required"

LEMMA RunStarts == RunInit => RunInv
  BY DEF RunInit, RunInv

LEMMA OverriddenKeeps ==
  ASSUME config_file \in RunFiles, shm_path \in {NoPath, "cli"}
  PROVE  Overridden(config_file) # Bad /\ Keeps(Overridden(config_file))
  <1> DEFINE c == Overridden(config_file)
             All == [level : FileLevels, shm : ShmPaths \cup {"cli"}]
  <1>1. config_file \in All /\ config_file \in RunFiles
    BY DEF RunFiles
  <1>2. /\ c \in All /\ (shm_path # NoPath => c.shm = shm_path)
        /\ (shm_path = NoPath => c = config_file)
    BY <1>1 DEF Overridden
  <1>3. Bad \notin All /\ config_file # Bad
    BY <1>1, RunAssumption
  <1> HIDE DEF c
  <1>4. c # Bad /\ Keeps(c)
    BY <1>2, <1>3 DEF Keeps
  <1> QED BY <1>4 DEF c

LEMMA RunStep == RunInv /\ [RunNext]_runvars => RunInv'
  <1> SUFFICES ASSUME RunInv, [RunNext]_runvars PROVE RunInv'
    OBVIOUS
  <1> USE DEF RunInv
  <1>1. CASE UNCHANGED runvars
    BY <1>1 DEF runvars, Keeps
  <1>2. CASE Edit
    <2>1. PICK new \in RunFiles \cup {Bad} :
            /\ config_file' = new
            /\ shm_edited' = (shm_edited \/ Bad \in {config_file, new}
                                         \/ config_file.shm # new.shm)
      BY <1>2 DEF Edit
    <2>2. UNCHANGED <<shm_path, run_config, main_pc, callback_pc, engine_mutex, parsed,
                      outcome>>
      BY <1>2 DEF Edit
    <2>3. shm_edited' \in BOOLEAN /\ (shm_edited => shm_edited')
          /\ (~shm_edited' => config_file' # Bad /\ config_file'.shm = config_file.shm)
      BY <2>1
    <2>4. ASSUME NEW c, Keeps(c)
          PROVE  /\ c \in [level : FileLevels, shm : ShmPaths \cup {"cli"}]
                 /\ shm_path # NoPath => c.shm = shm_path
                 /\ shm_path = NoPath /\ ~shm_edited' =>
                      config_file' # Bad /\ c.shm = config_file'.shm
      BY <2>3, <2>4 DEF Keeps
    <2>5. run_config = Bad \/ Keeps(run_config)'
      BY <2>2, <2>4 DEF Keeps
    <2>6. callback_pc \in {"lock", "reload"} => Keeps(parsed)'
      BY <2>2, <2>4 DEF Keeps
    <2> QED BY <2>1, <2>2, <2>3, <2>5, <2>6
  <1>3. CASE Signal
    BY <1>3 DEF Signal, Keeps
  <1>4. CASE LoadAndInit
    <2>1. UNCHANGED <<config_file, shm_path, shm_edited, outcome, callback_pc, engine_mutex,
                      parsed>>
          /\ main_pc = "load"
      BY <1>4 DEF LoadAndInit, Main
    <2>2. CASE config_file = Bad
      <3>1. main_pc' = "exited" /\ run_config' = Bad /\ callback_pc = "off"
        BY <1>4, <2>1, <2>2 DEF LoadAndInit, Main
      <3> QED BY <2>1, <3>1
    <2>3. CASE config_file # Bad
      <3>1. run_config' = Overridden(config_file) /\ main_pc' = "watch"
        BY <1>4, <2>3 DEF LoadAndInit, Main
      <3>2. run_config' # Bad /\ Keeps(run_config)'
        BY <2>1, <2>3, <3>1, OverriddenKeeps DEF Keeps
      <3> QED BY <2>1, <3>1, <3>2
    <2> QED BY <2>2, <2>3
  <1>5. CASE StartWatcher \/ InstallHandler \/ LockForShutdown \/ ShutdownEngine \/ Leave
    BY <1>5 DEF StartWatcher, InstallHandler, LockForShutdown, ShutdownEngine, Leave, Main,
                Keeps
  <1>6. CASE ReadAndParse
    <2>1. UNCHANGED <<config_file, shm_path, main_pc, shm_edited, run_config, engine_mutex>>
          /\ callback_pc = "idle"
      BY <1>6 DEF ReadAndParse, Callback
    <2>2. CASE config_file = Bad
      <3>1. outcome' = "error" /\ callback_pc' = "idle"
        BY <1>6, <2>2 DEF ReadAndParse, Callback
      <3>2. run_config' # Bad /\ Keeps(run_config)'
        BY <2>1 DEF Keeps
      <3> QED BY <2>1, <3>1, <3>2
    <2>3. CASE config_file # Bad
      <3>1. parsed' = Overridden(config_file) /\ callback_pc' = "lock" /\ outcome' = outcome
        BY <1>6, <2>3 DEF ReadAndParse, Callback
      <3>2. Keeps(parsed)'
        BY <2>1, <2>3, <3>1, OverriddenKeeps DEF Keeps
      <3> QED BY <2>1, <3>1, <3>2 DEF Keeps
    <2> QED BY <2>2, <2>3
  <1>7. CASE LockForReload
    BY <1>7 DEF LockForReload, Callback, Keeps
  <1>8. ASSUME NEW opens \in BOOLEAN, Reload(opens) PROVE RunInv'
    <2>1. UNCHANGED <<config_file, shm_path, main_pc, shm_edited>>
          /\ callback_pc = "reload" /\ callback_pc' = "idle"
          /\ engine_mutex = "callback" /\ engine_mutex' = "free"
      BY <1>8 DEF Reload, Callback
    <2>2. Keeps(run_config) /\ Keeps(parsed) /\ run_config # Bad
      BY <2>1
    <2>3. CASE opens
      <3>1. /\ run_config' = [parsed EXCEPT !.shm = run_config.shm]
            /\ outcome' = IF parsed.shm # run_config.shm THEN "restart required" ELSE "ok"
        BY <1>8, <2>3 DEF Reload
      <3>2. Keeps(run_config)' /\ run_config' \in [level : FileLevels, shm : ShmPaths \cup {"cli"}]
            /\ (shm_path # NoPath \/ ~shm_edited => parsed.shm = run_config.shm)
        BY <2>1, <2>2, <3>1 DEF Keeps
      <3>3. run_config' # Bad
        BY <3>2, RunAssumption
      <3> QED BY <2>1, <2>2, <3>1, <3>2, <3>3
    <2>4. CASE ~opens
      BY <1>8, <2>1, <2>2, <2>4 DEF Reload, Keeps
    <2> QED BY <2>3, <2>4
  <1> QED BY <1>1, <1>2, <1>3, <1>4, <1>5, <1>6, <1>7, <1>8 DEF RunNext

(* For any files, edits and paths, and signals at any time: the shared      *)
(* memory stays the one of --shm, no restart is reported as required for    *)
(* what nobody edited, and no reload runs while the engine is shut down    *)
(* (the callback and the shutdown of `dologctl run`).                      *)
THEOREM CommandLineStays == RunSpec => []CommandLineHolds
  <1>1. RunInv => CommandLineHolds
    BY DEF RunInv, CommandLineHolds, Keeps
  <1> QED BY <1>1, RunStarts, RunStep, PTL DEF RunSpec

(***************************************************************************)
(* Replay guard (ReplayGuard)                                              *)
(*                                                                         *)
(* For every window and every content: under the production policy         *)
(* the guard retains the last LSNs without a hole, so that an LSN that is  *)
(* not retained is either the next one or too old.                         *)
(***************************************************************************)

Retained == IF highest_lsn < window_size THEN highest_lsn ELSE window_size

GuardInv ==
  /\ highest_lsn \in 0..MaxLsn
  /\ order \in Seq(Lsns) /\ Len(order) = Retained
  /\ \A i \in 1..Len(order) : order[i] = highest_lsn - Retained + i
  /\ DOMAIN entries = Held(order)
  /\ accepts = [l \in Lsns |-> IF l <= highest_lsn THEN 1 ELSE 0]

(* What is retained is the window: all LSNs from behind it to the highest.  *)
LEMMA HeldIsWindow ==
  ASSUME GuardInv
  PROVE  Held(order) = highest_lsn - Retained + 1 .. highest_lsn
  <1>1. Retained \in 0..highest_lsn /\ highest_lsn \in Nat
    BY PolicyAssumption DEF GuardInv, Retained
  <1>2. ASSUME NEW l \in highest_lsn - Retained + 1 .. highest_lsn
        PROVE  l \in Held(order)
    <2> DEFINE i == l - (highest_lsn - Retained)
    <2>1. i \in 1..Len(order) /\ order[i] = l
      BY <1>1, <1>2 DEF GuardInv
    <2> QED BY <2>1 DEF Held
  <1>3. ASSUME NEW l \in Held(order)
        PROVE  l \in highest_lsn - Retained + 1 .. highest_lsn
    <2>1. PICK i \in 1..Len(order) : l = order[i]
      BY <1>3 DEF Held
    <2> QED BY <1>1, <2>1 DEF GuardInv
  <1> QED BY <1>2, <1>3

(* Hence only the successor of the highest LSN is accepted.                 *)
LEMMA OnlyTheNext ==
  ASSUME reject_gaps, GuardInv, NEW lsn \in Lsns, NEW hash, Accept(lsn, hash)
  PROVE  lsn = highest_lsn + 1
  <1>1. /\ highest_lsn \in Nat /\ lsn \in Nat \ {0}
        /\ lsn \notin highest_lsn - Retained + 1 .. highest_lsn
        /\ ~(highest_lsn > window_size /\ lsn + window_size <= highest_lsn)
        /\ ~(lsn > highest_lsn + 1)
    BY HeldIsWindow DEF Accept, TooOld, Gap, GuardInv, Lsns
  <1> QED BY <1>1, PolicyAssumption DEF Retained

LEMMA TailShifts ==
  ASSUME NEW S, NEW s \in Seq(S), Len(s) >= 1
  PROVE  /\ Tail(s) \in Seq(S) /\ Len(Tail(s)) = Len(s) - 1
         /\ \A i \in 1..Len(s)-1 : Tail(s)[i] = s[i + 1]
  OBVIOUS

(* The window moves by one, and loses its oldest LSN once it is full.       *)
LEMMA AcceptKeepsGuardInv ==
  ASSUME reject_gaps, GuardInv, NEW lsn \in Lsns, NEW hash, Accept(lsn, hash)
  PROVE  GuardInv'
  <1> DEFINE arrivals == Append(order, lsn)
  <1>1. lsn = highest_lsn + 1 /\ highest_lsn' = lsn
    <2>1. lsn = highest_lsn + 1
      BY OnlyTheNext
    <2>2. highest_lsn' = IF lsn > highest_lsn THEN lsn ELSE highest_lsn
      BY DEF Accept
    <2> QED BY <2>1, <2>2 DEF GuardInv
  <1>2. highest_lsn \in Nat /\ highest_lsn' \in 0..MaxLsn
    BY <1>1, PolicyAssumption DEF GuardInv, Lsns
  <1>3. /\ arrivals \in Seq(Lsns) /\ Len(arrivals) = Retained + 1
        /\ \A i \in 1..Len(arrivals) : arrivals[i] = highest_lsn - Retained + i
    <2>1. order \in Seq(Lsns) /\ Len(order) = Retained /\ Retained \in Nat
      BY <1>2, PolicyAssumption DEF GuardInv, Retained
    <2>2. /\ arrivals \in Seq(Lsns) /\ Len(arrivals) = Retained + 1
          /\ \A i \in 1..Retained : arrivals[i] = order[i]
          /\ arrivals[Retained + 1] = lsn
      BY <2>1
    <2>3. \A i \in 1..Retained : order[i] = highest_lsn - Retained + i
      BY <2>1 DEF GuardInv
    <2> HIDE DEF arrivals
    <2> QED BY <1>1, <1>2, <2>1, <2>2, <2>3
  <1>4. /\ order' \in Seq(Lsns) /\ Len(order') = Retained'
        /\ \A i \in 1..Len(order') : order'[i] = highest_lsn' - Retained' + i
    <2>1. CASE highest_lsn < window_size
      <3>1. order' = arrivals /\ Retained' = Retained + 1
        BY <1>1, <1>2, <1>3, <2>1, PolicyAssumption DEF Accept, Evicted, Retained
      <3> QED BY <1>1, <1>2, <1>3, <3>1, PolicyAssumption DEF Retained
    <2>2. CASE highest_lsn >= window_size
      <3>1. order' = Tail(arrivals) /\ Retained' = Retained
        BY <1>1, <1>2, <1>3, <2>2, PolicyAssumption DEF Accept, Evicted, Retained
      <3>2. /\ Tail(arrivals) \in Seq(Lsns) /\ Len(Tail(arrivals)) = Retained
            /\ \A i \in 1..Retained : Tail(arrivals)[i] = arrivals[i + 1]
        <4>1. Retained \in Nat
          BY <1>2, PolicyAssumption DEF Retained
        <4> HIDE DEF arrivals
        <4> QED BY <1>3, <4>1, TailShifts
      <3>3. \A i \in 1..Retained : i + 1 \in 1..Len(arrivals)
        BY <1>2, <1>3, PolicyAssumption DEF Retained
      <3> HIDE DEF arrivals
      <3>4. \A i \in 1..Retained : order'[i] = highest_lsn - Retained + (i + 1)
        BY <1>3, <3>1, <3>2, <3>3
      <3> QED BY <1>1, <1>2, <3>1, <3>2, <3>4, PolicyAssumption DEF Retained
    <2> QED BY <1>2, <2>1, <2>2, PolicyAssumption
  <1>5. DOMAIN entries' = Held(order')
    BY DEF Accept
  <1>6. accepts' = [l \in Lsns |-> IF l <= highest_lsn' THEN 1 ELSE 0]
    <2>1. accepts' = [accepts EXCEPT ![lsn] = accepts[lsn] + 1]
      BY DEF Accept
    <2>2. accepts = [l \in Lsns |-> IF l <= highest_lsn THEN 1 ELSE 0]
      BY DEF GuardInv
    <2>3. accepts[lsn] = 0
      BY <1>1, <1>2, <2>2
    <2>4. ASSUME NEW l \in Lsns
          PROVE  accepts'[l] = IF l <= highest_lsn' THEN 1 ELSE 0
      <3>1. l \in Nat
        BY DEF Lsns
      <3> QED BY <1>1, <1>2, <2>1, <2>2, <2>3, <3>1
    <2> QED BY <2>1, <2>2, <2>4
  <1> QED BY <1>2, <1>4, <1>5, <1>6 DEF GuardInv

LEMMA EmptyGuard ==
  ASSUME highest_lsn = 0, order = <<>>, entries = [l \in {} |-> 0],
         accepts = [l \in Lsns |-> 0]
  PROVE  GuardInv
  <1>1. Retained = 0 /\ Len(order) = 0 /\ order \in Seq(Lsns)
    BY PolicyAssumption DEF Retained
  <1>2. Held(order) = {}
    BY <1>1 DEF Held
  <1>3. accepts = [l \in Lsns |-> IF l <= highest_lsn THEN 1 ELSE 0]
    BY PolicyAssumption DEF Lsns
  <1> QED BY <1>1, <1>2, <1>3, PolicyAssumption DEF GuardInv

LEMMA ResetKeepsGuardInv == ASSUME Reset PROVE GuardInv'
  <1>1. Retained' = 0 /\ Len(order') = 0 /\ order' \in Seq(Lsns)
    BY PolicyAssumption DEF Reset, Retained
  <1>2. Held(order') = {}
    BY <1>1 DEF Held
  <1>3. accepts' = [l \in Lsns |-> IF l <= highest_lsn' THEN 1 ELSE 0]
    BY PolicyAssumption DEF Reset, Lsns
  <1> QED BY <1>1, <1>2, <1>3, PolicyAssumption DEF Reset, GuardInv

(* No LSN is accepted twice or before its predecessor (ReplayGuard::observe *)
(* under the policy that rejects gaps), however small the window.          *)
THEOREM EvidenceIsFresh ==
  ASSUME reject_gaps PROVE ReplaySpec => []AcceptedOnce
  <1>1. ReplayInit => GuardInv
    BY EmptyGuard DEF ReplayInit
  <1>2. GuardInv /\ [ReplayNext]_replayvars => GuardInv'
    <2> SUFFICES ASSUME GuardInv, [ReplayNext]_replayvars PROVE GuardInv'
      OBVIOUS
    <2>1. CASE Reset
      BY <2>1, ResetKeepsGuardInv
    <2>2. CASE \E lsn \in Lsns, hash \in Hashes : Accept(lsn, hash)
      BY <2>2, AcceptKeepsGuardInv
    <2>3. CASE UNCHANGED replayvars
      BY <2>3 DEF replayvars, GuardInv, Retained
    <2> QED BY <2>1, <2>2, <2>3 DEF ReplayNext
  <1>3. GuardInv => AcceptedOnce
    BY PolicyAssumption DEF GuardInv, AcceptedOnce, Lsns
  <1> QED BY <1>1, <1>2, <1>3, PTL DEF ReplaySpec

(***************************************************************************)
(* Log verification (AuditVerify)                                          *)
(*                                                                         *)
(* What a trail may still hold after any damage: records that decode and   *)
(* have a hash are among those signed, and a signature that still is one   *)
(* was made over such a record and the one before it.                      *)
(***************************************************************************)
HashValues == {NoHash} \cup (Nat \X Nat)

LinkTo(rec) == [hash |-> rec.hash, lsn |-> rec.lsn]

SignedLink(r, k) == LinkTo(issued[r][k])

(* What the k-th signature of a run binds. *)
Before(r, k) == IF k = 1 THEN Genesis ELSE SignedLink(r, k - 1)

Genuine(rec) == \E r \in 1..MaxRuns : \E k \in 1..Len(issued[r]) : rec = issued[r][k]

GenuineSignature(sig) ==
  \E r \in 1..MaxRuns : \E k \in 1..Len(issued[r]) :
    sig = Signature(issued[r][k], Before(r, k))

AnyRecords == [lsn : Nat, body : Nat, ok : BOOLEAN, hash : HashValues]

TrailRecords ==
  {rec \in AnyRecords :
     /\ rec.ok /\ rec.hash # NoHash => Genuine(rec)
     /\ kind = "anchors" => rec.hash # NoHash}

SidecarLines ==
  {line \in [lsn : Nat, hash : HashValues,
             sig : {NoHash} \cup [lsn : Nat, hash : HashValues,
                                  prev : [hash : HashValues, lsn : Nat]]] :
     line.sig # NoHash => GenuineSignature(line.sig)}

Made(lsn, r) == [lsn |-> lsn, body |-> r, ok |-> TRUE, hash |-> <<lsn, r>>]

IssuedInv ==
  /\ run \in 1..MaxRuns /\ next_lsn \in Nat \ {0}
  /\ issued \in [1..MaxRuns -> Seq(AnyRecords)]
  /\ \A r \in 1..MaxRuns :
       /\ r > run => Len(issued[r]) = 0
       /\ \A k \in 1..Len(issued[r]) :
            /\ issued[r][k] = Made(issued[r][k].lsn, r)
            /\ r = run => issued[r][k].lsn < next_lsn
       /\ \A j, k \in 1..Len(issued[r]) : j < k => issued[r][j].lsn < issued[r][k].lsn
  /\ kind = "anchors" =>
       /\ run = 1 /\ next_lsn = Len(issued[1]) + 1
       /\ \A k \in 1..Len(issued[1]) : issued[1][k].lsn = k
  /\ kind # "anchors" => chain_end = Before(run, Len(issued[run]) + 1)

VerifyInv == IssuedInv /\ trail \in Seq(TrailRecords) /\ sidecar \in Seq(SidecarLines)

LEMMA VerifyStarts == VerifyInit => VerifyInv
  <1> SUFFICES ASSUME VerifyInit PROVE VerifyInv
    OBVIOUS
  <1>1. trail \in Seq(TrailRecords) /\ sidecar \in Seq(SidecarLines)
    BY EmptySeq DEF VerifyInit
  <1>2. 1 \in 1..MaxRuns /\ \A r \in 1..MaxRuns : r \in Nat
    BY VerifyAssumption
  <1>3. issued = [r \in 1..MaxRuns |-> <<>>]
    BY DEF VerifyInit
  <1>4. issued \in [1..MaxRuns -> Seq(AnyRecords)]
        /\ \A r \in 1..MaxRuns : Len(issued[r]) = 0
    BY <1>3, EmptySeq
  <1>5. run = 1 /\ next_lsn = 1 /\ chain_end = Genesis
    BY DEF VerifyInit
  <1>6. chain_end = Before(run, Len(issued[run]) + 1)
    BY <1>2, <1>4, <1>5 DEF Before
  <1>7. IssuedInv
    BY <1>2, <1>4, <1>5, <1>6 DEF IssuedInv
  <1> QED BY <1>1, <1>7 DEF VerifyInv

(* A run signs one record more.                                             *)
LEMMA OneMoreIssued ==
  ASSUME IssuedInv, NEW rec, rec = Made(next_lsn, run),
         issued' = [issued EXCEPT ![run] = Append(@, rec)],
         next_lsn' = next_lsn + 1, UNCHANGED <<run, kind>>,
         kind = "anchors" \/ chain_end' = LinkTo(rec)
  PROVE  /\ IssuedInv' /\ rec \in AnyRecords
         /\ \E r \in 1..MaxRuns : \E k \in 1..Len(issued'[r]) :
              /\ rec = issued'[r][k] /\ Before(r, k)' = Before(run, Len(issued[run]) + 1)
         /\ \A r \in 1..MaxRuns : \A k \in 1..Len(issued[r]) :
              /\ k \in 1..Len(issued'[r]) /\ issued'[r][k] = issued[r][k]
              /\ Before(r, k)' = Before(r, k)
  <1> DEFINE n == Len(issued[run])
  <1>1. /\ run \in 1..MaxRuns /\ run \in Nat /\ next_lsn \in Nat \ {0}
        /\ \A r \in 1..MaxRuns : issued[r] \in Seq(AnyRecords) /\ Len(issued[r]) \in Nat
    BY VerifyAssumption, LenProperties DEF IssuedInv
  <1>2. /\ rec \in AnyRecords /\ rec.lsn = next_lsn /\ rec.hash = <<next_lsn, run>>
        /\ rec = Made(rec.lsn, run)
    BY <1>1 DEF Made, AnyRecords, HashValues
  <1>3. /\ Append(issued[run], rec) \in Seq(AnyRecords)
        /\ Len(Append(issued[run], rec)) = n + 1
        /\ \A k \in 1..n : Append(issued[run], rec)[k] = issued[run][k]
        /\ Append(issued[run], rec)[n + 1] = rec
    BY <1>1, <1>2, AppendProperties
  <1>4. /\ issued' \in [1..MaxRuns -> Seq(AnyRecords)]
        /\ issued'[run] = Append(issued[run], rec)
        /\ \A r \in 1..MaxRuns : r # run => issued'[r] = issued[r]
    BY <1>1, <1>3 DEF IssuedInv
  <1>5. /\ Len(issued'[run]) = n + 1 /\ issued'[run][n + 1] = rec /\ n \in Nat
        /\ \A k \in 1..n : issued'[run][k] = issued[run][k]
    BY <1>1, <1>3, <1>4
  <1> HIDE DEF n
  <1>6. ASSUME NEW r \in 1..MaxRuns, NEW k \in 1..Len(issued[r])
        PROVE  k \in 1..Len(issued'[r]) /\ issued'[r][k] = issued[r][k]
    <2>1. CASE r = run
      BY <1>5, <2>1 DEF n
    <2>2. CASE r # run
      BY <1>4, <2>2
    <2> QED BY <2>1, <2>2
  <1>7. ASSUME NEW r \in 1..MaxRuns, NEW k \in 1..Len(issued[r]) + 1
        PROVE  Before(r, k)' = Before(r, k)
    <2>1. CASE k = 1
      BY <2>1 DEF Before
    <2>2. CASE k # 1
      <3>1. k - 1 \in 1..Len(issued[r])
        BY <1>1, <2>2
      <3>2. issued'[r][k - 1] = issued[r][k - 1]
        BY <1>6, <3>1
      <3> QED BY <2>2, <3>2 DEF Before, SignedLink
    <2> QED BY <2>1, <2>2
  <1>8. n + 1 \in 1..Len(issued'[run]) /\ n + 1 \in 1..Len(issued[run]) + 1
    <2>1. n + 1 \in 1..n + 1
      BY <1>5
    <2> QED BY <1>5, <2>1 DEF n
  <1>9. \A r \in 1..MaxRuns : \A k \in 1..Len(issued[r]) :
          Before(r, k)' = Before(r, k)
    <2>1. \A r \in 1..MaxRuns : \A k \in 1..Len(issued[r]) : k \in 1..Len(issued[r]) + 1
      BY <1>1
    <2> QED BY <1>7, <2>1
  <1>10. IssuedInv'
    <2>1. run' \in 1..MaxRuns /\ next_lsn' \in Nat \ {0}
      BY <1>1
    <2>2. ASSUME NEW r \in 1..MaxRuns
          PROVE  /\ r > run' => Len(issued'[r]) = 0
                 /\ \A k \in 1..Len(issued'[r]) :
                      /\ issued'[r][k] = Made(issued'[r][k].lsn, r)
                      /\ r = run' => issued'[r][k].lsn < next_lsn'
                 /\ \A j, k \in 1..Len(issued'[r]) :
                      j < k => issued'[r][j].lsn < issued'[r][k].lsn
      <3>1. CASE r # run
        BY <1>4, <3>1 DEF IssuedInv
      <3>2. CASE r = run
        <4>1. \A k \in 1..n + 1 : k \in 1..n \/ k = n + 1
          BY <1>5
        <4>2. \A k \in 1..n : /\ issued[run][k].lsn \in Nat /\ issued[run][k].lsn < next_lsn
                              /\ issued[run][k] = Made(issued[run][k].lsn, run)
          <5>1. \A k \in 1..n : issued[run][k] \in AnyRecords
            BY <1>1, ElementOfSeq DEF n
          <5>2. \A k \in 1..n : issued[run][k].lsn \in Nat
            BY <5>1 DEF AnyRecords
          <5>3. \A k \in 1..n : /\ issued[run][k].lsn < next_lsn
                                /\ issued[run][k] = Made(issued[run][k].lsn, run)
            BY <1>1 DEF IssuedInv, n
          <5> QED BY <5>2, <5>3
        <4>3. \A k \in 1..n + 1 : issued'[run][k] = Made(issued'[run][k].lsn, run)
          BY <1>2, <1>5, <4>1, <4>2
        <4>4. \A k \in 1..n + 1 : issued'[run][k].lsn < next_lsn + 1
          <5>1. \A x \in Nat : x < next_lsn => x < next_lsn + 1
            BY <1>1
          <5>2. next_lsn < next_lsn + 1
            BY <1>1
          <5> QED BY <1>2, <1>5, <4>1, <4>2, <5>1, <5>2
        <4>5. ASSUME NEW j \in 1..n + 1, NEW k \in 1..n + 1, j < k
              PROVE  issued'[run][j].lsn < issued'[run][k].lsn
          <5>1. j \in 1..n
            BY <1>5, <4>5
          <5>2. CASE k \in 1..n
            BY <1>1, <1>5, <4>5, <5>1, <5>2 DEF IssuedInv, n
          <5>3. CASE k = n + 1
            BY <1>2, <1>5, <4>2, <5>1, <5>3
          <5> QED BY <4>1, <5>2, <5>3
        <4>6. ~(r > run)
          BY <1>1, <3>2
        <4> QED BY <1>5, <3>2, <4>3, <4>4, <4>5, <4>6
      <3> QED BY <3>1, <3>2
    <2>3. kind' = "anchors" =>
            /\ run' = 1 /\ next_lsn' = Len(issued'[1]) + 1
            /\ \A k \in 1..Len(issued'[1]) : issued'[1][k].lsn = k
      <3> SUFFICES ASSUME kind = "anchors"
                   PROVE  /\ run = 1 /\ next_lsn + 1 = Len(issued'[1]) + 1
                          /\ \A k \in 1..Len(issued'[1]) : issued'[1][k].lsn = k
        OBVIOUS
      <3>1. run = 1 /\ next_lsn = n + 1 /\ \A k \in 1..n : issued[1][k].lsn = k
        BY DEF IssuedInv, n
      <3>2. \A k \in 1..n + 1 : k \in 1..n \/ k = n + 1
        BY <1>5
      <3> QED BY <1>2, <1>5, <3>1, <3>2
    <2>4. kind' # "anchors" => chain_end' = Before(run, Len(issued[run]) + 1)'
      <3>1. Len(issued'[run]) + 1 # 1 /\ Len(issued'[run]) + 1 - 1 = n + 1
        BY <1>5
      <3> QED BY <1>5, <3>1 DEF Before, SignedLink
    <2> QED BY <1>4, <2>1, <2>2, <2>3, <2>4 DEF IssuedInv
  <1>11. PICK r \in 1..MaxRuns, k \in Nat : r = run /\ k = n + 1
    BY <1>1, <1>5
  <1>12. Before(r, k)' = Before(run, n + 1)
    BY <1>7, <1>8, <1>11
  <1>13. \E r0 \in 1..MaxRuns : \E k0 \in 1..Len(issued'[r0]) :
           /\ rec = issued'[r0][k0] /\ Before(r0, k0)' = Before(run, n + 1)
    <2>1. k \in 1..Len(issued'[r]) /\ rec = issued'[r][k]
      BY <1>5, <1>8, <1>11
    <2> QED BY ONLY <1>12, <2>1
  <1> QED BY ONLY <1>2, <1>6, <1>9, <1>10, <1>13 DEF n

(* A number that nothing is signed with.                                    *)
LEMMA NumberSkipped ==
  ASSUME IssuedInv, kind # "anchors", next_lsn' = next_lsn + 1,
         UNCHANGED <<kind, run, issued, chain_end>>
  PROVE  IssuedInv'
  <1>1. \A r \in 1..MaxRuns : \A k \in 1..Len(issued[r]) : issued[r][k].lsn \in Nat
    <2>1. \A r \in 1..MaxRuns : \A k \in 1..Len(issued[r]) : issued[r][k] \in AnyRecords
      BY ElementOfSeq DEF IssuedInv
    <2> QED BY <2>1 DEF AnyRecords
  <1>2. next_lsn \in Nat /\ next_lsn + 1 \in Nat \ {0}
    BY DEF IssuedInv
  <1>3. \A x \in Nat : x < next_lsn => x < next_lsn + 1
    BY <1>2
  <1>4. \A r \in 1..MaxRuns : \A k \in 1..Len(issued[r]) :
          r = run => issued[r][k].lsn < next_lsn + 1
    BY <1>1, <1>3 DEF IssuedInv
  <1>5. chain_end = Before(run, Len(issued[run]) + 1)
        /\ Before(run, Len(issued[run]) + 1)' = Before(run, Len(issued[run]) + 1)
    BY DEF IssuedInv, Before, SignedLink
  <1> QED BY <1>2, <1>4, <1>5 DEF IssuedInv

(* What a signature binds has its type.                                     *)
LEMMA BeforeType ==
  ASSUME IssuedInv, NEW r \in 1..MaxRuns, NEW k \in 1..Len(issued[r]) + 1
  PROVE  Before(r, k) \in [hash : HashValues, lsn : Nat]
  <1>1. CASE k = 1
    BY <1>1 DEF Before, Genesis, HashValues
  <1>2. CASE k # 1
    <2>1. issued[r] \in Seq(AnyRecords) /\ Len(issued[r]) \in Nat
      BY LenProperties DEF IssuedInv
    <2>2. k - 1 \in 1..Len(issued[r])
      BY <1>2, <2>1
    <2>3. issued[r][k - 1] \in AnyRecords
      BY <2>1, <2>2, ElementOfSeq
    <2> QED BY <1>2, <2>3 DEF Before, SignedLink, LinkTo, AnyRecords
  <1> QED BY <1>1, <1>2

(* What was genuine remains so.                                             *)
LEMMA StillGenuine ==
  ASSUME UNCHANGED kind,
         \A r \in 1..MaxRuns : \A k \in 1..Len(issued[r]) :
           k \in 1..Len(issued'[r]) /\ issued'[r][k] = issued[r][k],
         \A r \in 1..MaxRuns : \A k \in 1..Len(issued[r]) : Before(r, k)' = Before(r, k)
  PROVE  TrailRecords \subseteq TrailRecords' /\ SidecarLines \subseteq SidecarLines'
  <1>1. ASSUME NEW rec, Genuine(rec)
        PROVE  \E r \in 1..MaxRuns : \E k \in 1..Len(issued'[r]) : rec = issued'[r][k]
    BY <1>1 DEF Genuine
  <1>2. ASSUME NEW sig, GenuineSignature(sig)
        PROVE  \E r \in 1..MaxRuns : \E k \in 1..Len(issued'[r]) :
                 sig = Signature(issued'[r][k], Before(r, k)')
    BY <1>2 DEF GenuineSignature
  <1>3. \A rec \in TrailRecords : rec \in TrailRecords'
    BY <1>1 DEF TrailRecords, Genuine
  <1>4. \A line \in SidecarLines : line \in SidecarLines'
    BY <1>2 DEF SidecarLines, GenuineSignature
  <1> QED BY <1>3, <1>4

(* The rearrangements of a sequence.                                        *)
LEMMA Rearranged ==
  ASSUME NEW S, NEW seq \in Seq(S), NEW i \in 1..Len(seq), NEW e \in S
  PROVE  /\ RemoveAt(seq, i) \in Seq(S)
         /\ InsertAt(seq, i, e) \in Seq(S)
         /\ SubSeq(seq, 1, i - 1) \in Seq(S)
         /\ [seq EXCEPT ![i] = e] \in Seq(S)
         /\ Append(RemoveAt(seq, i), e) \in Seq(S)
  <1>1. Len(seq) \in Nat /\ i \in Nat /\ i - 1 \in Nat
    BY LenProperties
  <1>2. /\ SubSeq(seq, 1, i - 1) \in Seq(S) /\ SubSeq(seq, i + 1, Len(seq)) \in Seq(S)
        /\ SubSeq(seq, i, Len(seq)) \in Seq(S)
    <2>1. \A k \in 1..Len(seq) : seq[k] \in S
      BY ElementOfSeq
    <2>2. \A k \in 1..i - 1 : k \in 1..Len(seq)
      BY <1>1
    <2>3. \A k \in i + 1..Len(seq) : k \in 1..Len(seq)
      BY <1>1
    <2>4. \A k \in i..Len(seq) : k \in 1..Len(seq)
      BY <1>1
    <2>5. SubSeq(seq, 1, i - 1) \in Seq(S)
      BY <1>1, <2>1, <2>2, SubSeqProperties
    <2>6. SubSeq(seq, i + 1, Len(seq)) \in Seq(S)
      BY <1>1, <2>1, <2>3, SubSeqProperties
    <2>7. SubSeq(seq, i, Len(seq)) \in Seq(S)
      BY <1>1, <2>1, <2>4, SubSeqProperties
    <2> QED BY <2>5, <2>6, <2>7
  <1>3. RemoveAt(seq, i) \in Seq(S)
    BY <1>2, ConcatProperties DEF RemoveAt
  <1>4. InsertAt(seq, i, e) \in Seq(S)
    <2>1. <<e>> \in Seq(S)
      OBVIOUS
    <2>2. SubSeq(seq, 1, i - 1) \o <<e>> \in Seq(S)
      BY <1>2, <2>1, ConcatProperties
    <2> QED BY <1>2, <2>2, ConcatProperties DEF InsertAt
  <1>5. [seq EXCEPT ![i] = e] \in Seq(S)
    BY ExceptSeq
  <1>6. Append(RemoveAt(seq, i), e) \in Seq(S)
    BY <1>3, AppendProperties
  <1> QED BY <1>2, <1>3, <1>4, <1>5, <1>6

LEMMA DamagedTrail == VerifyInv /\ DamageTrail => VerifyInv'
  <1> SUFFICES ASSUME VerifyInv, DamageTrail PROVE VerifyInv'
    OBVIOUS
  <1>1. IssuedInv'
    BY DEF VerifyInv, IssuedInv, DamageTrail, Before, SignedLink
  <1>2. TrailRecords' = TrailRecords /\ SidecarLines' = SidecarLines
    BY DEF DamageTrail, TrailRecords, SidecarLines, Genuine, GenuineSignature, Before, SignedLink
  <1>3. sidecar' \in Seq(SidecarLines)
    BY DEF VerifyInv, DamageTrail
  <1>4. trail' \in Seq(TrailRecords)
    <2>1. PICK i \in 1..Len(trail) :
            \/ trail' = RemoveAt(trail, i)
            \/ trail' = InsertAt(trail, i, trail[i])
            \/ trail' = SubSeq(trail, 1, i - 1)
            \/ trail' = [trail EXCEPT ![i].body = 0, ![i].ok = trail[i].hash = NoHash]
            \/ trail' = Append(RemoveAt(trail, i), trail[i])
      BY LenProperties DEF DamageTrail, VerifyInv
    <2>2. trail \in Seq(TrailRecords) /\ trail[i] \in TrailRecords
      BY ElementOfSeq DEF VerifyInv
    <2> DEFINE rec == [trail[i] EXCEPT !.body = 0, !.ok = trail[i].hash = NoHash]
    <2>3. rec \in TrailRecords
      <3>1. rec \in AnyRecords
        BY <2>2 DEF TrailRecords, AnyRecords
      <3>2. rec.hash = trail[i].hash /\ rec.ok = (trail[i].hash = NoHash)
        BY <2>2 DEF TrailRecords, AnyRecords
      <3> QED BY <2>2, <3>1, <3>2 DEF TrailRecords
    <2>4. [trail EXCEPT ![i].body = 0, ![i].ok = trail[i].hash = NoHash]
            = [trail EXCEPT ![i] = rec]
      BY <2>2
    <2> HIDE DEF rec
    <2>5. /\ RemoveAt(trail, i) \in Seq(TrailRecords)
          /\ InsertAt(trail, i, trail[i]) \in Seq(TrailRecords)
          /\ SubSeq(trail, 1, i - 1) \in Seq(TrailRecords)
          /\ Append(RemoveAt(trail, i), trail[i]) \in Seq(TrailRecords)
      BY <2>2, Rearranged
    <2>6. [trail EXCEPT ![i] = rec] \in Seq(TrailRecords)
      BY <2>2, <2>3, Rearranged
    <2> QED BY ONLY <2>1, <2>4, <2>5, <2>6
  <1> QED BY <1>1, <1>2, <1>3, <1>4 DEF VerifyInv

LEMMA DamagedSidecar == VerifyInv /\ DamageSidecar => VerifyInv'
  <1> SUFFICES ASSUME VerifyInv, DamageSidecar PROVE VerifyInv'
    OBVIOUS
  <1>1. IssuedInv'
    BY DEF VerifyInv, IssuedInv, DamageSidecar, Before, SignedLink
  <1>2. TrailRecords' = TrailRecords /\ SidecarLines' = SidecarLines
    BY DEF DamageSidecar, TrailRecords, SidecarLines, Genuine, GenuineSignature, Before, SignedLink
  <1>3. trail' \in Seq(TrailRecords)
    BY DEF VerifyInv, DamageSidecar
  <1>4. sidecar' \in Seq(SidecarLines)
    <2>1. PICK i \in 1..Len(sidecar) :
            \/ sidecar' = RemoveAt(sidecar, i)
            \/ sidecar' = [sidecar EXCEPT ![i].sig = NoHash]
            \/ sidecar' = [sidecar EXCEPT ![i].hash = NoHash]
      BY LenProperties DEF DamageSidecar, VerifyInv
    <2>2. sidecar \in Seq(SidecarLines) /\ sidecar[i] \in SidecarLines
      BY ElementOfSeq DEF VerifyInv
    <2>3. /\ [sidecar[i] EXCEPT !.sig = NoHash] \in SidecarLines
          /\ [sidecar[i] EXCEPT !.hash = NoHash] \in SidecarLines
      BY <2>2 DEF SidecarLines, HashValues
    <2>4. /\ [sidecar EXCEPT ![i].sig = NoHash]
               = [sidecar EXCEPT ![i] = [sidecar[i] EXCEPT !.sig = NoHash]]
          /\ [sidecar EXCEPT ![i].hash = NoHash]
               = [sidecar EXCEPT ![i] = [sidecar[i] EXCEPT !.hash = NoHash]]
      BY <2>2
    <2>5. RemoveAt(sidecar, i) \in Seq(SidecarLines)
      BY <2>2, Rearranged
    <2>6. [sidecar EXCEPT ![i] = [sidecar[i] EXCEPT !.sig = NoHash]] \in Seq(SidecarLines)
      BY <2>2, <2>3, Rearranged
    <2>7. [sidecar EXCEPT ![i] = [sidecar[i] EXCEPT !.hash = NoHash]] \in Seq(SidecarLines)
      BY <2>2, <2>3, Rearranged
    <2> QED BY ONLY <2>1, <2>4, <2>5, <2>6, <2>7
  <1> QED BY <1>1, <1>2, <1>3, <1>4 DEF VerifyInv

LEMMA AssembledRecord ==
  ASSUME VerifyInv, NEW audit \in BOOLEAN, NEW reached \in BOOLEAN, Assemble(audit, reached)
  PROVE  VerifyInv'
  <1> PICK rec : rec = NewRecord(audit)
    OBVIOUS
  <1> PICK line : line = [lsn |-> rec.lsn, hash |-> rec.hash, sig |-> Signature(rec, chain_end)]
    OBVIOUS
  <1>1. IssuedInv /\ trail \in Seq(TrailRecords) /\ sidecar \in Seq(SidecarLines)
    BY DEF VerifyInv
  <1>2. /\ kind # "anchors" /\ next_lsn' = next_lsn + 1 /\ UNCHANGED <<kind, run>>
        /\ trail' = IF reached THEN Append(trail, rec) ELSE trail
    BY DEF Assemble
  <1>3. run \in 1..MaxRuns /\ run \in Nat /\ next_lsn \in Nat
    BY VerifyAssumption DEF VerifyInv, IssuedInv
  <1>4. CASE ~audit
    <2>1. UNCHANGED <<sidecar, chain_end, issued>>
      BY <1>4 DEF Assemble
    <2>2. IssuedInv'
      BY <1>1, <1>2, <2>1, NumberSkipped
    <2>3. TrailRecords' = TrailRecords /\ SidecarLines' = SidecarLines
      BY <1>2, <2>1 DEF TrailRecords, SidecarLines, Genuine, GenuineSignature, Before, SignedLink
    <2>4. rec = [lsn |-> next_lsn, body |-> run, ok |-> TRUE, hash |-> NoHash]
      BY <1>4 DEF NewRecord
    <2>5. rec \in TrailRecords
      BY <1>2, <1>3, <2>4 DEF TrailRecords, AnyRecords, HashValues
    <2>6. Append(trail, rec) \in Seq(TrailRecords)
      BY <1>1, <2>5, AppendProperties
    <2>7. trail' \in Seq(TrailRecords)
      BY <1>1, <1>2, <2>6
    <2> QED BY <1>1, <2>1, <2>2, <2>3, <2>7 DEF VerifyInv
  <1>5. CASE audit
    <2>1. /\ sidecar' = Append(sidecar, line) /\ chain_end' = LinkTo(rec)
          /\ issued' = [issued EXCEPT ![run] = Append(@, rec)]
      BY <1>5 DEF Assemble, LinkTo
    <2>2. rec = Made(next_lsn, run)
      BY <1>5 DEF NewRecord, Made
    <2>3. line.sig = Signature(rec, chain_end) /\ line.lsn = rec.lsn /\ line.hash = rec.hash
      OBVIOUS
    <2>4. line \in [lsn : {rec.lsn}, hash : {rec.hash}, sig : {Signature(rec, chain_end)}]
      OBVIOUS
    <2>5. /\ IssuedInv' /\ rec \in AnyRecords
          /\ \E r \in 1..MaxRuns : \E k \in 1..Len(issued'[r]) :
               /\ rec = issued'[r][k] /\ Before(r, k)' = Before(run, Len(issued[run]) + 1)
          /\ \A r \in 1..MaxRuns : \A k \in 1..Len(issued[r]) :
               /\ k \in 1..Len(issued'[r]) /\ issued'[r][k] = issued[r][k]
               /\ Before(r, k)' = Before(r, k)
      BY <1>1, <1>2, <2>1, <2>2, OneMoreIssued
    <2>6. TrailRecords \subseteq TrailRecords' /\ SidecarLines \subseteq SidecarLines'
      BY <1>2, <2>5, StillGenuine
    <2>7. rec \in TrailRecords'
      <3>1. rec.hash # NoHash
        BY <1>3, <2>2 DEF Made, NoHash
      <3> QED BY <2>5, <3>1 DEF TrailRecords, Genuine
    <2>8. chain_end = Before(run, Len(issued[run]) + 1)
      BY <1>1, <1>2 DEF IssuedInv
    <2>9. chain_end \in [hash : HashValues, lsn : Nat]
      <3>1. Len(issued[run]) \in Nat
        BY <1>1, <1>3, LenProperties DEF IssuedInv
      <3>2. Len(issued[run]) + 1 \in 1..Len(issued[run]) + 1
        BY <3>1
      <3> QED BY <1>1, <1>3, <2>8, <3>2, BeforeType
    <2>10. line \in SidecarLines'
      <3>1. \E r \in 1..MaxRuns : \E k \in 1..Len(issued'[r]) :
              Signature(rec, chain_end) = Signature(issued'[r][k], Before(r, k)')
        BY <2>5, <2>8
      <3>2. GenuineSignature(line.sig)'
        BY <2>3, <3>1 DEF GenuineSignature
      <3>3. rec.lsn \in Nat /\ rec.hash \in HashValues
        BY <2>5 DEF AnyRecords
      <3>4. Signature(rec, chain_end) \in [lsn : Nat, hash : HashValues,
                                       prev : [hash : HashValues, lsn : Nat]]
        BY <2>9, <3>3 DEF Signature
      <3>5. line \in [lsn : Nat, hash : HashValues,
                      sig : {NoHash} \cup [lsn : Nat, hash : HashValues,
                                           prev : [hash : HashValues, lsn : Nat]]]
        BY <2>4, <3>3, <3>4
      <3> QED BY <3>2, <3>5 DEF SidecarLines
    <2>11. trail \in Seq(TrailRecords') /\ sidecar \in Seq(SidecarLines')
      BY <1>1, <2>6, SeqMonotonic
    <2>12. /\ Append(trail, rec) \in Seq(TrailRecords')
           /\ Append(sidecar, line) \in Seq(SidecarLines')
      BY <2>7, <2>10, <2>11, AppendProperties
    <2>13. trail' \in Seq(TrailRecords')
      BY <1>2, <2>11, <2>12
    <2> QED BY <2>1, <2>5, <2>12, <2>13 DEF VerifyInv
  <1> QED BY <1>4, <1>5

LEMMA IssuedAnchor == VerifyInv /\ IssueAnchor => VerifyInv'
  <1> SUFFICES ASSUME VerifyInv, IssueAnchor PROVE VerifyInv'
    OBVIOUS
  <1> PICK rec : rec = Made(next_lsn, run)
    OBVIOUS
  <1>1. IssuedInv /\ trail \in Seq(TrailRecords) /\ sidecar \in Seq(SidecarLines)
    BY DEF VerifyInv
  <1>2. /\ kind = "anchors" /\ next_lsn' = next_lsn + 1
        /\ UNCHANGED <<kind, run, sidecar>>
        /\ trail' = Append(trail, rec) /\ issued' = [issued EXCEPT ![run] = Append(@, rec)]
    BY DEF IssueAnchor, Made
  <1>3. rec.hash # NoHash
    BY VerifyAssumption DEF VerifyInv, IssuedInv, Made, NoHash
  <1>4. kind = "anchors" \/ chain_end' = LinkTo(rec)
    BY <1>2
  <1>5. UNCHANGED <<run, kind>>
    BY <1>2
  <1>6. /\ IssuedInv' /\ rec \in AnyRecords
        /\ \E r \in 1..MaxRuns : \E k \in 1..Len(issued'[r]) :
             /\ rec = issued'[r][k] /\ Before(r, k)' = Before(run, Len(issued[run]) + 1)
        /\ \A r \in 1..MaxRuns : \A k \in 1..Len(issued[r]) :
             /\ k \in 1..Len(issued'[r]) /\ issued'[r][k] = issued[r][k]
             /\ Before(r, k)' = Before(r, k)
    <2>1. IssuedInv /\ rec = Made(next_lsn, run) /\ next_lsn' = next_lsn + 1
          /\ issued' = [issued EXCEPT ![run] = Append(@, rec)]
      BY <1>1, <1>2
    <2> QED BY ONLY <1>4, <1>5, <2>1, OneMoreIssued
  <1>7. TrailRecords \subseteq TrailRecords' /\ SidecarLines \subseteq SidecarLines'
    BY <1>2, <1>6, StillGenuine
  <1>8. rec \in TrailRecords'
    BY <1>3, <1>6 DEF TrailRecords, Genuine
  <1>9. trail \in Seq(TrailRecords') /\ sidecar \in Seq(SidecarLines')
    BY <1>1, <1>7, SeqMonotonic
  <1>10. trail' \in Seq(TrailRecords')
    BY <1>2, <1>8, <1>9, AppendProperties
  <1> QED BY <1>2, <1>6, <1>9, <1>10 DEF VerifyInv

LEMMA EngineRestarted == VerifyInv /\ RestartEngine => VerifyInv'
  <1> SUFFICES ASSUME VerifyInv, RestartEngine PROVE VerifyInv'
    OBVIOUS
  <1>1. /\ kind # "anchors" /\ run < MaxRuns /\ run' = run + 1 /\ next_lsn' = 1
        /\ chain_end' = Genesis /\ UNCHANGED <<kind, trail, sidecar, issued>>
    BY DEF RestartEngine
  <1>2. run \in 1..MaxRuns /\ run + 1 \in 1..MaxRuns /\ run + 1 > run
    BY <1>1, VerifyAssumption DEF VerifyInv, IssuedInv
  <1>3. \A r \in 1..MaxRuns : r > run + 1 => r > run
    BY <1>2
  <1>4. Len(issued[run + 1]) = 0
    BY <1>2 DEF VerifyInv, IssuedInv
  <1>5. TrailRecords' = TrailRecords /\ SidecarLines' = SidecarLines
    BY <1>1 DEF TrailRecords, SidecarLines, Genuine, GenuineSignature, Before, SignedLink
  <1>6. chain_end' = Before(run, Len(issued[run]) + 1)'
    BY <1>1, <1>4 DEF Before
  <1>7. \A r \in 1..MaxRuns : \A k \in 1..Len(issued[r]) :
          r = run + 1 => issued[r][k].lsn < 1
    BY <1>4
  <1>8. IssuedInv'
    BY <1>1, <1>2, <1>3, <1>6, <1>7 DEF VerifyInv, IssuedInv
  <1> QED BY <1>1, <1>5, <1>8 DEF VerifyInv

LEMMA VerifyInvariant == VerifySpec => []VerifyInv
  <1>1. VerifyInv /\ [VerifyNext]_verifyvars => VerifyInv'
    <2> SUFFICES ASSUME VerifyInv, [VerifyNext]_verifyvars PROVE VerifyInv'
      OBVIOUS
    <2>1. CASE \E audit, reached \in BOOLEAN : Assemble(audit, reached)
      BY <2>1, AssembledRecord
    <2>2. CASE AbortAfterNumbering
      <3>1. IssuedInv'
        BY <2>2, NumberSkipped DEF VerifyInv, AbortAfterNumbering
      <3>2. TrailRecords' = TrailRecords /\ SidecarLines' = SidecarLines
        BY <2>2 DEF AbortAfterNumbering, TrailRecords, SidecarLines, Genuine,
                    GenuineSignature, Before, SignedLink
      <3> QED BY <2>2, <3>1, <3>2 DEF VerifyInv, AbortAfterNumbering
    <2>3. CASE UNCHANGED verifyvars
      BY <2>3 DEF VerifyInv, IssuedInv, TrailRecords, SidecarLines, Genuine,
                  GenuineSignature, Before, SignedLink, verifyvars
    <2> QED BY <2>1, <2>2, <2>3, IssuedAnchor, EngineRestarted, DamagedTrail,
              DamagedSidecar DEF VerifyNext
  <1> QED BY <1>1, VerifyStarts, PTL DEF VerifySpec

(* An insertion moves what is behind it by one place.                       *)
LEMMA Inserted ==
  ASSUME NEW S, NEW seq \in Seq(S), NEW i \in 1..Len(seq) + 1, NEW e \in S
  PROVE  /\ InsertAt(seq, i, e) \in Seq(S)
         /\ Len(InsertAt(seq, i, e)) = Len(seq) + 1
         /\ InsertAt(seq, i, e)[i] = e
         /\ \A k \in 1..Len(seq) : \/ InsertAt(seq, i, e)[k] = seq[k]
                                  \/ InsertAt(seq, i, e)[k + 1] = seq[k]
  <1> DEFINE n == Len(seq)
             a == SubSeq(seq, 1, i - 1)
             c == SubSeq(seq, i, n)
             b == a \o <<e>>
  <1>1. n \in Nat /\ i \in Nat /\ i - 1 \in Nat /\ i - 1 <= n /\ i <= n + 1
    BY LenProperties
  <1>2. \A k \in 1..n : seq[k] \in S
    BY ElementOfSeq
  <1>3. a \in Seq(S) /\ Len(a) = i - 1 /\ \A k \in 1..i - 1 : a[k] = seq[k]
    <2>1. \A k \in 1..i - 1 : k \in 1..n
      BY <1>1
    <2>2. i - 1 - 1 + 1 = i - 1 /\ 1 \in Int /\ \A k \in 1..i - 1 : 1 + k - 1 = k
      BY <1>1
    <2>3. /\ a \in Seq(S) /\ Len(a) = IF 1 <= i - 1 THEN i - 1 - 1 + 1 ELSE 0
          /\ \A k \in 1..i - 1 - 1 + 1 : a[k] = seq[1 + k - 1]
      BY <1>1, <1>2, <2>1, <2>2, SubSeqProperties
    <2>4. 1 <= i - 1 \/ i - 1 = 0
      BY <1>1
    <2> QED BY <2>2, <2>3, <2>4
  <1>4. c \in Seq(S) /\ Len(c) = n - i + 1 /\ \A k \in 1..n - i + 1 : c[k] = seq[i + k - 1]
    <2>1. \A k \in i..n : k \in 1..n
      BY <1>1
    <2>2. /\ c \in Seq(S) /\ Len(c) = IF i <= n THEN n - i + 1 ELSE 0
          /\ \A k \in 1..n - i + 1 : c[k] = seq[i + k - 1]
      BY <1>1, <1>2, <2>1, SubSeqProperties
    <2>3. i <= n \/ n - i + 1 = 0
      BY <1>1
    <2> QED BY <2>2, <2>3
  <1>5. <<e>> \in Seq(S) /\ Len(<<e>>) = 1 /\ <<e>>[1] = e
    OBVIOUS
  <1> HIDE DEF a, c
  <1>6. /\ b \in Seq(S) /\ Len(b) = Len(a) + 1
        /\ \A k \in 1..Len(a) + 1 : b[k] = IF k <= Len(a) THEN a[k] ELSE <<e>>[k - Len(a)]
    BY <1>3, <1>5, ConcatProperties
  <1>7. Len(b) = i /\ b[i] = e /\ \A k \in 1..i - 1 : b[k] = seq[k]
    <2>1. i \in 1..i - 1 + 1 /\ ~(i <= i - 1) /\ i - (i - 1) = 1 /\ i - 1 + 1 = i
      BY <1>1
    <2>2. \A k \in 1..i - 1 : k \in 1..i - 1 + 1 /\ k <= i - 1
      BY <1>1
    <2>3. Len(b) = i
      BY ONLY <1>3, <1>6, <2>1
    <2>4. b[i] = <<e>>[i - (i - 1)]
      BY ONLY <1>3, <1>6, <2>1
    <2>5. \A k \in 1..i - 1 : b[k] = a[k]
      BY ONLY <1>3, <1>6, <2>2
    <2>6. b[i] = e
      BY ONLY <1>5, <2>1, <2>4
    <2>7. \A k \in 1..i - 1 : b[k] = seq[k]
      BY ONLY <1>3, <2>5
    <2> QED BY <2>3, <2>6, <2>7
  <1> HIDE DEF b
  <1> DEFINE ins == b \o c
  <1>8. /\ ins \in Seq(S) /\ Len(ins) = Len(b) + Len(c)
        /\ \A k \in 1..Len(b) + Len(c) : ins[k] = IF k <= Len(b) THEN b[k] ELSE c[k - Len(b)]
    BY <1>4, <1>6, ConcatProperties
  <1>9. InsertAt(seq, i, e) = ins
    BY DEF InsertAt, a, b, c
  <1> HIDE DEF ins
  <1>10. i + (n - i + 1) = n + 1
    BY <1>1
  <1>11. Len(ins) = n + 1 /\ \A k \in 1..n + 1 : ins[k] = IF k <= i THEN b[k] ELSE c[k - i]
    BY <1>4, <1>7, <1>8, <1>10
  <1>12. ins[i] = e
    <2>1. i \in 1..n + 1 /\ i <= i
      BY <1>1
    <2> QED BY <1>7, <1>11, <2>1
  <1>13. ASSUME NEW k \in 1..n PROVE ins[k] = seq[k] \/ ins[k + 1] = seq[k]
    <2>1. CASE k < i
      <3>1. k \in 1..i - 1 /\ k \in 1..n + 1 /\ k <= i
        BY <1>1, <2>1
      <3> QED BY <1>7, <1>11, <3>1
    <2>2. CASE ~(k < i)
      <3>1. /\ k + 1 \in 1..n + 1 /\ ~(k + 1 <= i) /\ k + 1 - i \in 1..n - i + 1
            /\ i + (k + 1 - i) - 1 = k
        BY <1>1, <2>2
      <3>2. ins[k + 1] = c[k + 1 - i]
        BY <1>11, <3>1
      <3>3. c[k + 1 - i] = seq[i + (k + 1 - i) - 1]
        BY <1>4, <3>1
      <3> QED BY <3>1, <3>2, <3>3
    <2> QED BY <2>1, <2>2
  <1> QED BY <1>8, <1>9, <1>11, <1>12, <1>13 DEF n

(* What is added to a list of lists that lose nothing is in the last one.   *)
Gathers(f, items, places, last) ==
  \A i \in 1..last : /\ ToSet(f[i - 1]) \subseteq ToSet(f[i])
                     /\ i \in places => items[i] \in ToSet(f[i])

LEMMA GatheredStays ==
  ASSUME NEW last \in Nat, NEW f, NEW items, NEW places, Gathers(f, items, places, last)
  PROVE  \A i \in 1..last : i \in places => items[i] \in ToSet(f[last])
  <1> SUFFICES ASSUME NEW i \in 1..last, i \in places PROVE items[i] \in ToSet(f[last])
    OBVIOUS
  <1> DEFINE N == {d \in Nat : i + d <= last => items[i] \in ToSet(f[i + d])}
  <1>1. 0 \in N
    BY DEF Gathers
  <1>2. ASSUME NEW d \in N PROVE d + 1 \in N
    <2>1. i + (d + 1) <= last => i + d <= last /\ i + (d + 1) \in 1..last
      OBVIOUS
    <2>2. i + (d + 1) - 1 = i + d /\ d + 1 \in Nat
      OBVIOUS
    <2> QED BY <2>1, <2>2 DEF Gathers
  <1>3. N = Nat
    BY <1>1, <1>2, CountingUp
  <1>4. last - i \in Nat /\ i + (last - i) = last
    OBVIOUS
  <1>5. last - i \in N
    BY <1>3, <1>4
  <1> QED BY <1>4, <1>5

(* What Picked returns.                                                     *)
LEMMA PickedThose ==
  ASSUME NEW S, NEW U, NEW recs \in Seq(S), NEW places,
         \A i \in 1..Len(recs) : i \in places => recs[i] \in U
  PROVE  /\ Picked(recs, places) \in Seq(U)
         /\ \A i \in 1..Len(recs) : i \in places => recs[i] \in ToSet(Picked(recs, places))
  <1> DEFINE last == Len(recs)
             T == Seq(U)
             Turn(i, l) == IF i \in places THEN Append(l, recs[i]) ELSE l
             move == [p \in (1..last) \X T |-> Turn(p[1], p[2])]
  <1>1. last \in Nat
    BY LenProperties
  <1>2. ASSUME NEW i \in 1..last, NEW l \in T
        PROVE  /\ Turn(i, l) \in T /\ ToSet(l) \subseteq ToSet(Turn(i, l))
               /\ i \in places => recs[i] \in ToSet(Turn(i, l))
    <2>1. CASE i \in places
      <3>1. /\ Append(l, recs[i]) \in Seq(U) /\ Len(Append(l, recs[i])) = Len(l) + 1
            /\ \A k \in 1..Len(l) : Append(l, recs[i])[k] = l[k]
            /\ Append(l, recs[i])[Len(l) + 1] = recs[i]
        BY <2>1, AppendProperties
      <3>2. DOMAIN l = 1..Len(l) /\ DOMAIN Append(l, recs[i]) = 1..Len(l) + 1
            /\ Len(l) \in Nat
        BY <3>1, LenProperties
      <3>3. \A k \in 1..Len(l) : k \in 1..Len(l) + 1
        BY <3>2
      <3>4. Len(l) + 1 \in 1..Len(l) + 1
        BY <3>2
      <3> QED BY <2>1, <3>1, <3>2, <3>3, <3>4 DEF ToSet
    <2>2. CASE i \notin places
      BY <2>2
    <2> QED BY <2>1, <2>2
  <1> HIDE DEF Turn
  <1>3. \A i \in 1..last, l \in T : move[<<i, l>>] = Turn(i, l)
    OBVIOUS
  <1>4. Stays(move, last, T)
    BY <1>2, <1>3 DEF Stays
  <1>5. <<>> \in T
    BY EmptySeq
  <1> HIDE DEF T, move, last
  <1>6. PICK f \in [0..last -> T] : Taken(<<>>, move, last, f)
    BY <1>1, <1>4, <1>5, StepsCanBeTaken
  <1>7. \A i \in 1..last : i - 1 \in 0..last /\ i \in 0..last /\ i # 0
    BY <1>1
  <1>8. f[0] = <<>> /\ \A i \in 1..last : f[i] = Turn(i, f[i - 1])
    BY <1>3, <1>6, <1>7 DEF Taken
  <1>9. 0 \in 0..last /\ last \in 0..last /\ \A i \in 0..last : i # 0 => i \in 1..last
    BY <1>1
  <1> DEFINE Walk(g) == g = [i \in 0..last |-> IF i = 0 THEN <<>> ELSE Turn(i, g[i - 1])]
             h == CHOOSE g : Walk(g)
  <1>10. Walk(f)
    BY <1>8, <1>9
  <1>11. Walk(h)
    <2> HIDE DEF Walk
    <2> QED BY <1>10
  <1>12. Picked(recs, places) = h[last]
    BY DEF Picked, Turn, last
  <1>13. h[0] = <<>> /\ \A i \in 1..last : h[i] = Turn(i, h[i - 1])
    BY <1>7, <1>9, <1>11
  <1> HIDE DEF h, Walk
  <1>14. \A i \in 0..last : h[i] = f[i]
    <2>1. SameSteps(h, f, last)
      BY <1>8, <1>13 DEF SameSteps
    <2> QED BY <1>1, <2>1, StepsAgree
  <1>15. \A i \in 0..last : h[i] \in T
    BY <1>6, <1>14
  <1>16. Gathers(h, recs, places, last)
    BY <1>2, <1>7, <1>13, <1>15 DEF Gathers
  <1>17. \A i \in 1..last : i \in places => recs[i] \in ToSet(h[last])
    BY <1>1, <1>16, GatheredStays
  <1> QED BY <1>9, <1>12, <1>15, <1>17 DEF T, last

(* A record that is put among others is one of them.                        *)
LEMMA PutAmongThem ==
  ASSUME NEW U, NEW recs \in Seq(U), NEW rec \in U
  PROVE  /\ PutInOrder(recs, rec) \in Seq(U)
         /\ ToSet(recs) \subseteq ToSet(PutInOrder(recs, rec))
         /\ rec \in ToSet(PutInOrder(recs, rec))
  <1> DEFINE n == Len(recs)
             below == {k \in DOMAIN recs : recs[k].lsn <= rec.lsn}
  <1>1. n \in Nat /\ DOMAIN recs = 1..n
    BY LenProperties
  <1>2. IsFiniteSet(1..n) /\ Cardinality(1..n) = n
    <2>1. 1 \in Int /\ n \in Int
      BY <1>1
    <2>2. IsFiniteSet(1..n) /\ Cardinality(1..n) = IF 1 > n THEN 0 ELSE n - 1 + 1
      BY <2>1, FS_Interval
    <2> QED BY <1>1, <2>2
  <1>3. below \subseteq 1..n
    BY <1>1
  <1>4. PutInOrder(recs, rec) = InsertAt(recs, 1 + Cardinality(below), rec)
    BY DEF PutInOrder
  <1> HIDE DEF below
  <1>5. Cardinality(below) \in Nat /\ Cardinality(below) <= n
    BY <1>2, <1>3, FS_Subset, FS_CardinalityType
  <1>6. PICK place : place = 1 + Cardinality(below)
    OBVIOUS
  <1>7. place \in 1..n + 1
    BY <1>1, <1>5, <1>6
  <1>8. PICK ins : ins = PutInOrder(recs, rec)
    OBVIOUS
  <1>9. ins = InsertAt(recs, place, rec)
    BY ONLY <1>4, <1>6, <1>8
  <1>10. /\ ins \in Seq(U) /\ Len(ins) = n + 1 /\ ins[place] = rec
         /\ \A k \in 1..n : ins[k] = recs[k] \/ ins[k + 1] = recs[k]
    <2>1. InsertAt(recs, place, rec) \in Seq(U)
      BY <1>7, Inserted
    <2>2. Len(InsertAt(recs, place, rec)) = n + 1
      BY <1>7, Inserted
    <2>3. InsertAt(recs, place, rec)[place] = rec
      BY <1>7, Inserted
    <2>4. \A k \in 1..n : \/ InsertAt(recs, place, rec)[k] = recs[k]
                         \/ InsertAt(recs, place, rec)[k + 1] = recs[k]
      BY <1>7, Inserted
    <2> QED BY <1>9, <2>1, <2>2, <2>3, <2>4
  <1>11. DOMAIN ins = 1..n + 1
    BY <1>10, LenProperties
  <1>12. \A k \in 1..n : k \in 1..n + 1 /\ k + 1 \in 1..n + 1
    BY <1>1
  <1> HIDE DEF n
  <1>13. ToSet(recs) \subseteq ToSet(ins)
    BY <1>1, <1>10, <1>11, <1>12 DEF ToSet
  <1>14. rec \in ToSet(ins)
    BY <1>7, <1>10, <1>11 DEF ToSet
  <1> QED BY ONLY <1>8, <1>10, <1>13, <1>14

(* What sort_by_key returns: the same records.                              *)
LEMMA SortedThose ==
  ASSUME NEW U, FileRecords \in Seq(U)
  PROVE  /\ Sorted \in Seq(U)
         /\ \A i \in 1..Len(FileRecords) : FileRecords[i] \in ToSet(Sorted)
  <1> DEFINE last == Len(FileRecords)
             T == Seq(U)
             Turn(i, l) == PutInOrder(l, FileRecords[i])
             move == [p \in (1..last) \X T |-> Turn(p[1], p[2])]
  <1>1. last \in Nat
    BY LenProperties
  <1>2. ASSUME NEW i \in 1..last, NEW l \in T
        PROVE  /\ Turn(i, l) \in T /\ ToSet(l) \subseteq ToSet(Turn(i, l))
               /\ FileRecords[i] \in ToSet(Turn(i, l))
    <2>1. FileRecords[i] \in U
      BY ElementOfSeq
    <2> QED BY <2>1, PutAmongThem
  <1> HIDE DEF Turn
  <1>3. \A i \in 1..last, l \in T : move[<<i, l>>] = Turn(i, l)
    OBVIOUS
  <1>4. Stays(move, last, T)
    BY <1>2, <1>3 DEF Stays
  <1>5. <<>> \in T
    BY EmptySeq
  <1> HIDE DEF T, move, last
  <1>6. PICK f \in [0..last -> T] : Taken(<<>>, move, last, f)
    BY <1>1, <1>4, <1>5, StepsCanBeTaken
  <1>7. \A i \in 1..last : i - 1 \in 0..last /\ i \in 0..last /\ i # 0
    BY <1>1
  <1>8. f[0] = <<>> /\ \A i \in 1..last : f[i] = Turn(i, f[i - 1])
    BY <1>3, <1>6, <1>7 DEF Taken
  <1>9. 0 \in 0..last /\ last \in 0..last /\ \A i \in 0..last : i # 0 => i \in 1..last
    BY <1>1
  <1> DEFINE Walk(g) == g = [i \in 0..last |-> IF i = 0 THEN <<>> ELSE Turn(i, g[i - 1])]
             h == CHOOSE g : Walk(g)
  <1>10. Walk(f)
    BY <1>8, <1>9
  <1>11. Walk(h)
    <2> HIDE DEF Walk
    <2> QED BY <1>10
  <1>12. Sorted = h[last]
    BY DEF Sorted, Turn, last
  <1>13. h[0] = <<>> /\ \A i \in 1..last : h[i] = Turn(i, h[i - 1])
    BY <1>7, <1>9, <1>11
  <1> HIDE DEF h, Walk
  <1>14. \A i \in 0..last : h[i] = f[i]
    <2>1. SameSteps(h, f, last)
      BY <1>8, <1>13 DEF SameSteps
    <2> QED BY <1>1, <2>1, StepsAgree
  <1>15. \A i \in 0..last : h[i] \in T
    BY <1>6, <1>14
  <1>16. Gathers(h, FileRecords, 1..last, last)
    BY <1>2, <1>7, <1>13, <1>15 DEF Gathers
  <1>17. \A i \in 1..last : FileRecords[i] \in ToSet(h[last])
    BY <1>1, <1>16, GatheredStays
  <1> QED BY <1>9, <1>12, <1>15, <1>17 DEF T, last

(* A set of numbers that is bounded has a greatest one.                     *)
LEMMA MaxIs ==
  ASSUME NEW T \in SUBSET Nat, NEW m \in T, \A y \in T : y <= m
  PROVE  Max(T) = m
  <1>1. \A y \in T : m >= y
    OBVIOUS
  <1>2. \A x \in T : (\A y \in T : x >= y) => x = m
    OBVIOUS
  <1> QED BY <1>1, <1>2 DEF Max

LEMMA MaxBelongs ==
  ASSUME NEW T \in SUBSET Nat, T # {}, NEW bound \in Nat, \A y \in T : y <= bound
  PROVE  Max(T) \in T
  <1> DEFINE B == {u \in Nat : \A y \in T : y <= u}
  <1>1. B \in SUBSET Nat /\ bound \in B
    OBVIOUS
  <1> HIDE DEF B
  <1>2. PICK m \in B : m - 1 \notin B
    BY <1>1, FirstMissing
  <1>3. m \in Nat /\ \A y \in T : y <= m
    BY <1>2 DEF B
  <1>4. m \in T
    <2>1. CASE m = 0
      <3>1. PICK y \in T : TRUE
        OBVIOUS
      <3>2. y \in Nat /\ y <= 0
        BY <1>3, <2>1
      <3>3. y = 0
        BY <3>2
      <3> QED BY <2>1, <3>1, <3>3
    <2>2. CASE m # 0
      <3>1. PICK y \in T : ~(y <= m - 1)
        BY <1>2, <1>3, <2>2 DEF B
      <3>2. y = m
        BY <1>3, <3>1
      <3> QED BY <3>2
    <2> QED BY <2>1, <2>2
  <1>5. Max(T) = m
    BY <1>3, <1>4, MaxIs
  <1> QED BY <1>4, <1>5

LEMMA PrefixOf ==
  ASSUME NEW S, NEW s \in Seq(S), NEW t \in Seq(S), Len(s) <= Len(t),
         \A i \in 1..Len(s) : s[i] = t[i]
  PROVE  IsPrefix(s, t)
  <1> DEFINE n == Len(s)
             p == SubSeq(t, 1, n)
  <1>1. n \in Nat /\ Len(t) \in Nat
    BY LenProperties
  <1>2. \A i \in 1..n : t[i] \in S
    <2>1. \A i \in 1..n : i \in 1..Len(t)
      BY <1>1
    <2> QED BY <2>1, ElementOfSeq
  <1>3. p \in Seq(S) /\ Len(p) = n /\ \A i \in 1..n : p[i] = t[i]
    <2>1. /\ p \in Seq(S) /\ Len(p) = IF 1 <= n THEN n - 1 + 1 ELSE 0
          /\ \A i \in 1..n - 1 + 1 : p[i] = t[1 + i - 1]
      BY <1>1, <1>2, SubSeqProperties
    <2>2. n - 1 + 1 = n /\ (1 <= n \/ n = 0) /\ \A i \in 1..n : 1 + i - 1 = i
      BY <1>1
    <2> QED BY <2>1, <2>2
  <1>4. SubSeq(s, 1, n) = s
    BY SubSeqFull
  <1> HIDE DEF p
  <1>5. s = p
    BY <1>3, SeqEqual DEF n
  <1> QED BY <1>4, <1>5 DEF IsPrefix, p, n

(* A record of the chain is genuine if it decodes; numbers that are linked  *)
(* rise by one.                                                             *)
LEMMA LinkedRises ==
  ASSUME NEW recs \in Seq(AnyRecords), Linked(recs), Len(recs) # 0
  PROVE  \A i \in 1..Len(recs) : recs[i].lsn <= recs[Len(recs)].lsn
  <1> DEFINE last == Len(recs)
             first == recs[1].lsn
             N == {d \in Nat : d < last => recs[d + 1].lsn = first + d}
  <1>1. last \in Nat \ {0} /\ 1 \in 1..last
    BY LenProperties
  <1>2. \A i \in 1..last : recs[i].lsn \in Nat
    <2>1. \A i \in 1..last : recs[i] \in AnyRecords
      BY ElementOfSeq
    <2> QED BY <2>1 DEF AnyRecords
  <1>3. first \in Nat
    BY <1>1, <1>2
  <1> HIDE DEF first
  <1>4. 0 \in N
    BY <1>3 DEF first
  <1>5. ASSUME NEW d \in N PROVE d + 1 \in N
    <2> SUFFICES ASSUME d + 1 < last PROVE recs[d + 1 + 1].lsn = first + (d + 1)
      OBVIOUS
    <2>1. d \in Nat /\ d < last /\ d + 1 \in 1..last - 1
      BY <1>1
    <2>2. recs[d + 1].lsn = first + d
      BY <2>1
    <2>3. recs[d + 1 + 1].lsn = recs[d + 1].lsn + 1
      BY <2>1 DEF Linked
    <2> QED BY <1>3, <2>1, <2>2, <2>3
  <1>6. N = Nat
    BY <1>4, <1>5, CountingUp
  <1>7. \A i \in 1..last : recs[i].lsn = first + (i - 1)
    <2> SUFFICES ASSUME NEW i \in 1..last PROVE recs[i].lsn = first + (i - 1)
      OBVIOUS
    <2>1. i - 1 \in Nat /\ i - 1 < last /\ i - 1 + 1 = i
      BY <1>1
    <2>2. i - 1 \in N
      BY <1>6, <2>1
    <2> QED BY <2>1, <2>2
  <1>8. last \in 1..last
    BY <1>1
  <1>9. \A i \in 1..last : first + (i - 1) <= first + (last - 1)
    BY <1>1, <1>3
  <1> QED BY <1>7, <1>8, <1>9

(* A record and a signature of a run name the run and the number.           *)
LEMMA NamesItsMaker ==
  ASSUME IssuedInv, NEW r \in 1..MaxRuns, NEW k \in 1..Len(issued[r])
  PROVE  /\ issued[r][k].lsn \in Nat /\ issued[r][k] = Made(issued[r][k].lsn, r)
         /\ issued[r][k].hash = <<issued[r][k].lsn, r>> /\ issued[r][k].hash # NoHash
  <1>1. issued[r][k] \in AnyRecords
    BY ElementOfSeq DEF IssuedInv
  <1>2. issued[r][k].lsn \in Nat
    BY <1>1 DEF AnyRecords
  <1>3. issued[r][k] = Made(issued[r][k].lsn, r)
    BY DEF IssuedInv
  <1>4. \A n : Made(n, r).hash = <<n, r>> /\ <<n, r>> # <<>>
    BY DEF Made
  <1>5. issued[r][k].hash = <<issued[r][k].lsn, r>>
    BY <1>3, <1>4
  <1> QED BY <1>2, <1>3, <1>4, <1>5 DEF NoHash

(* A record whose signature holds was made where its signature was.         *)
LEMMA SignedWhereMade ==
  ASSUME IssuedInv, NEW rec, Genuine(rec), NEW prev, GenuineSignature(Signature(rec, prev))
  PROVE  \E r \in 1..MaxRuns : \E k \in 1..Len(issued[r]) :
           rec = issued[r][k] /\ prev = Before(r, k)
  <1> PICK r \in 1..MaxRuns :
        \E k \in 1..Len(issued[r]) :
          Signature(rec, prev) = Signature(issued[r][k], Before(r, k))
    BY DEF GenuineSignature
  <1>1. PICK k \in 1..Len(issued[r]) :
          Signature(rec, prev) = Signature(issued[r][k], Before(r, k))
    OBVIOUS
  <1> PICK q \in 1..MaxRuns : \E j \in 1..Len(issued[q]) : rec = issued[q][j]
    BY DEF Genuine
  <1>2. PICK j \in 1..Len(issued[q]) : rec = issued[q][j]
    OBVIOUS
  <1>3. /\ rec.lsn = issued[r][k].lsn /\ rec.hash = issued[r][k].hash
        /\ prev = Before(r, k)
    BY <1>1 DEF Signature
  <1>4. issued[r][k].hash = <<issued[r][k].lsn, r>>
        /\ issued[r][k] = Made(issued[r][k].lsn, r)
    BY NamesItsMaker
  <1>5. rec.hash = <<rec.lsn, q>> /\ rec = Made(rec.lsn, q)
    BY <1>2, NamesItsMaker
  <1>6. <<rec.lsn, q>> = <<rec.lsn, r>>
    BY <1>3, <1>4, <1>5
  <1>7. q = r
    BY <1>6
  <1>8. rec = issued[r][k]
    BY <1>3, <1>4, <1>5, <1>7
  <1> QED BY <1>3, <1>8

(* Records that bind each its predecessor are the first of a run.           *)
LEMMA ChainOfOneRun ==
  ASSUME IssuedInv, NEW recs \in Seq(AnyRecords),
         \A i \in 1..Len(recs) : \E r \in 1..MaxRuns : \E k \in 1..Len(issued[r]) :
           /\ recs[i] = issued[r][k]
           /\ (IF i = 1 THEN Genesis ELSE LinkTo(recs[i - 1])) = Before(r, k)
  PROVE  \E r \in 1..MaxRuns : IsPrefix(recs, issued[r])
  <1>1. /\ Len(recs) \in Nat /\ 1 \in 1..MaxRuns
        /\ \A r \in 1..MaxRuns : issued[r] \in Seq(AnyRecords) /\ Len(issued[r]) \in Nat
    BY VerifyAssumption, LenProperties DEF IssuedInv
  <1>2. CASE Len(recs) = 0
    <2>1. Len(recs) <= Len(issued[1]) /\ \A i \in 1..Len(recs) : recs[i] = issued[1][i]
      BY <1>1, <1>2
    <2> QED BY <1>1, <2>1, PrefixOf
  <1>3. CASE Len(recs) # 0
    <2>1. 1 \in 1..Len(recs)
      BY <1>1, <1>3
    <2> PICK r \in 1..MaxRuns :
          \E k \in 1..Len(issued[r]) : recs[1] = issued[r][k] /\ Genesis = Before(r, k)
      BY <2>1
    <2>2. PICK k \in 1..Len(issued[r]) : recs[1] = issued[r][k] /\ Genesis = Before(r, k)
      OBVIOUS
    <2>3. k = 1
      <3> SUFFICES ASSUME k # 1 PROVE FALSE
        OBVIOUS
      <3>1. k - 1 \in 1..Len(issued[r])
        BY <1>1
      <3>2. Genesis.hash = issued[r][k - 1].hash
        BY <2>2 DEF Before, SignedLink, LinkTo
      <3> QED BY <3>1, <3>2, NamesItsMaker DEF Genesis
    <2> DEFINE Same(i) == i \in 1..Len(issued[r]) /\ recs[i] = issued[r][i]
               N == {d \in Nat : d < Len(recs) => Same(d + 1)}
    <2>4. 0 \in N
      BY <2>2, <2>3
    <2>5. ASSUME NEW d \in N PROVE d + 1 \in N
      <3> SUFFICES ASSUME d + 1 < Len(recs) PROVE Same(d + 1 + 1)
        OBVIOUS
      <3> DEFINE i == d + 1
      <3>1. d \in Nat /\ i \in Nat /\ i + 1 \in 1..Len(recs) /\ i + 1 # 1 /\ i + 1 - 1 = i
        BY <1>1
      <3>2. i \in 1..Len(issued[r]) /\ recs[i] = issued[r][i]
        BY <1>1
      <3> HIDE DEF i
      <3> PICK q \in 1..MaxRuns :
            \E j \in 1..Len(issued[q]) :
              recs[i + 1] = issued[q][j] /\ LinkTo(recs[i]) = Before(q, j)
        BY <3>1
      <3>3. PICK j \in 1..Len(issued[q]) :
              recs[i + 1] = issued[q][j] /\ LinkTo(recs[i]) = Before(q, j)
        OBVIOUS
      <3>4. j # 1
        <4> SUFFICES ASSUME j = 1 PROVE FALSE
          OBVIOUS
        <4>1. recs[i].hash = NoHash
          BY <3>3 DEF Before, LinkTo, Genesis
        <4>2. issued[r][i].hash # NoHash
          BY <3>2, NamesItsMaker
        <4> QED BY ONLY <3>2, <4>1, <4>2
      <3>5. j \in Nat /\ j - 1 \in 1..Len(issued[q])
        BY <1>1, <3>4
      <3>6. /\ issued[r][i].hash = issued[q][j - 1].hash
            /\ issued[r][i].lsn = issued[q][j - 1].lsn
        BY <3>2, <3>3, <3>4 DEF Before, SignedLink, LinkTo
      <3>7. issued[r][i].hash = <<issued[r][i].lsn, r>>
            /\ issued[q][j - 1].hash = <<issued[q][j - 1].lsn, q>>
        BY <3>2, <3>5, NamesItsMaker
      <3>8. <<issued[r][i].lsn, r>> = <<issued[r][i].lsn, q>>
        BY <3>6, <3>7
      <3>9. q = r
        BY <3>8
      <3>10. j - 1 = i
        <4>1. \A a, b \in 1..Len(issued[r]) : a < b => issued[r][a].lsn < issued[r][b].lsn
          BY DEF IssuedInv
        <4>2. issued[r][i].lsn \in Nat
          BY <3>2, NamesItsMaker
        <4>3. ~(issued[r][i].lsn < issued[r][i].lsn)
          <5>1. \A x \in Nat : ~(x < x)
            OBVIOUS
          <5> QED BY ONLY <4>2, <5>1
        <4>4. ~(i < j - 1) /\ ~(j - 1 < i)
          BY <3>2, <3>5, <3>6, <3>9, <4>1, <4>3
        <4> QED BY <3>1, <3>5, <4>4
      <3>11. i + 1 = j
        BY <3>1, <3>5, <3>10
      <3> QED BY <3>3, <3>9, <3>11 DEF i
    <2>6. N = Nat
      BY <2>4, <2>5, CountingUp
    <2>7. \A i \in 1..Len(recs) : Same(i)
      <3> SUFFICES ASSUME NEW i \in 1..Len(recs) PROVE Same(i)
        OBVIOUS
      <3>1. i - 1 \in Nat /\ i - 1 < Len(recs) /\ i - 1 + 1 = i
        BY <1>1
      <3>2. i - 1 \in N
        BY <2>6, <3>1
      <3> QED BY <3>1, <3>2
    <2>8. Len(recs) <= Len(issued[r])
      BY <1>1, <1>3, <2>7
    <2> QED BY <1>1, <2>7, <2>8, PrefixOf
  <1> QED BY <1>2, <1>3

LEMMA RecordsOfFile ==
  ASSUME VerifyInv
  PROVE  LET R == {rec \in TrailRecords : rec.ok}
         IN  /\ FileRecords \in Seq(R) /\ Sorted \in Seq(R)
             /\ \A i \in 1..Len(trail) : trail[i].ok => trail[i] \in ToSet(Sorted)
             /\ FileRecords # <<>> => Len(Sorted) # 0
  <1> DEFINE R == {rec \in TrailRecords : rec.ok}
  <1>1. trail \in Seq(TrailRecords) /\ DOMAIN trail = 1..Len(trail)
    BY LenProperties DEF VerifyInv
  <1>2. \A i \in 1..Len(trail) : trail[i] \in TrailRecords
    BY <1>1, ElementOfSeq
  <1> DEFINE whole == {i \in DOMAIN trail : trail[i].ok}
  <1>3. \A i \in 1..Len(trail) : i \in whole => trail[i] \in R
    BY <1>2
  <1>4. FileRecords = Picked(trail, whole)
    BY DEF FileRecords
  <1>5. \A i \in 1..Len(trail) : trail[i].ok => i \in whole
    BY <1>1
  <1> HIDE DEF whole, R
  <1>6. /\ FileRecords \in Seq(R)
        /\ \A i \in 1..Len(trail) : i \in whole => trail[i] \in ToSet(FileRecords)
    BY <1>1, <1>3, <1>4, PickedThose
  <1>7. /\ Sorted \in Seq(R)
        /\ \A i \in 1..Len(FileRecords) : FileRecords[i] \in ToSet(Sorted)
    BY <1>6, SortedThose
  <1>8. \A i \in 1..Len(trail) : trail[i].ok => trail[i] \in ToSet(Sorted)
    BY <1>5, <1>6, <1>7, LenProperties DEF ToSet
  <1>9. FileRecords # <<>> => Len(Sorted) # 0
    <2> SUFFICES ASSUME FileRecords # <<>> PROVE Len(Sorted) # 0
      OBVIOUS
    <2>1. Len(FileRecords) \in Nat \ {0}
      BY <1>6, EmptySeq
    <2>2. FileRecords[1] \in ToSet(Sorted)
      BY <1>7, <2>1
    <2>3. Sorted # <<>>
      BY <2>2 DEF ToSet
    <2> QED BY <1>7, <2>3, EmptySeq
  <1> QED BY <1>6, <1>7, <1>8, <1>9 DEF R

LEMMA EntryIsALine ==
  ASSUME VerifyInv, NEW lsn, Lines(lsn) # {}
  PROVE  Entry(lsn) \in SidecarLines
  <1>1. sidecar \in Seq(SidecarLines) /\ DOMAIN sidecar = 1..Len(sidecar) /\ Len(sidecar) \in Nat
    BY LenProperties DEF VerifyInv
  <1>2. Lines(lsn) \in SUBSET Nat /\ \A i \in Lines(lsn) : i \in 1..Len(sidecar)
    BY <1>1 DEF Lines
  <1>3. \A i \in Lines(lsn) : i <= Len(sidecar)
    BY <1>1, <1>2
  <1>4. Max(Lines(lsn)) \in Lines(lsn)
    BY <1>1, <1>2, <1>3, MaxBelongs
  <1>5. Max(Lines(lsn)) \in 1..Len(sidecar)
    BY <1>2, <1>4
  <1> QED BY <1>1, <1>5, ElementOfSeq DEF Entry

(* What passes is of one run.                                               *)
LEMMA PassingFrames ==
  ASSUME VerifyInv, LogPasses, FileRecords # <<>>
  PROVE  \E r \in 1..MaxRuns : IsPrefix(InChain(Sorted), issued[r])
  <1> DEFINE C == {rec \in AnyRecords : Genuine(rec)}
             places == {i \in DOMAIN Sorted : Sorted[i].hash # NoHash}
             recs == InChain(Sorted)
  <1>1. \A i \in 1..Len(Sorted) : i \in places => Sorted[i] \in C
    <2>1. Sorted \in Seq({rec \in TrailRecords : rec.ok})
      BY RecordsOfFile
    <2>2. \A i \in 1..Len(Sorted) : Sorted[i] \in TrailRecords /\ Sorted[i].ok
      BY <2>1, ElementOfSeq
    <2> QED BY <2>2 DEF TrailRecords
  <1>2. Sorted \in Seq({rec \in TrailRecords : rec.ok}) /\ recs = Picked(Sorted, places)
    BY RecordsOfFile DEF InChain
  <1>3. SignaturesHold(recs)
    BY DEF LogPasses
  <1> HIDE DEF places, recs, C
  <1>4. recs \in Seq(C)
    BY <1>1, <1>2, PickedThose
  <1>5. DOMAIN recs = 1..Len(recs)
    BY <1>4, LenProperties
  <1>6. ASSUME NEW i \in 1..Len(recs)
        PROVE  \E r \in 1..MaxRuns : \E k \in 1..Len(issued[r]) :
                 /\ recs[i] = issued[r][k]
                 /\ (IF i = 1 THEN Genesis ELSE LinkTo(recs[i - 1])) = Before(r, k)
    <2> DEFINE prev == IF i = 1 THEN Genesis ELSE LinkTo(recs[i - 1])
               lsn == recs[i].lsn
    <2>1. Lines(lsn) # {} /\ Entry(lsn).sig = Signature(recs[i], prev)
      BY <1>3, <1>5 DEF SignaturesHold, LinkTo
    <2> HIDE DEF lsn, prev
    <2>2. Entry(lsn) \in SidecarLines
      BY <2>1, EntryIsALine
    <2>3. Signature(recs[i], prev) # NoHash
      <3>1. "lsn" \in DOMAIN Signature(recs[i], prev)
        BY DEF Signature
      <3> QED BY <3>1 DEF NoHash
    <2>4. GenuineSignature(Signature(recs[i], prev))
      BY <2>1, <2>2, <2>3 DEF SidecarLines
    <2>5. Genuine(recs[i])
      <3>1. recs[i] \in C
        BY <1>4, ElementOfSeq
      <3> QED BY <3>1 DEF C
    <2>6. \E r \in 1..MaxRuns : \E k \in 1..Len(issued[r]) :
            recs[i] = issued[r][k] /\ prev = Before(r, k)
      BY <2>4, <2>5, SignedWhereMade DEF VerifyInv
    <2> QED BY <2>6 DEF prev
  <1>7. recs \in Seq(AnyRecords)
    <2>1. C \subseteq AnyRecords
      BY DEF C
    <2> QED BY <1>4, <2>1, SeqMonotonic
  <1>8. IssuedInv
    BY DEF VerifyInv
  <1>9. \E r \in 1..MaxRuns : IsPrefix(recs, issued[r])
    BY <1>6, <1>7, <1>8, ChainOfOneRun
  <1> QED BY <1>9 DEF recs

LEMMA PassingAnchors ==
  ASSUME VerifyInv, kind = "anchors", AnchorsPass
  PROVE  IsPrefix(trail, issued[1])
  <1>1. trail \in Seq(TrailRecords) /\ DOMAIN trail = 1..Len(trail) /\ Len(trail) \in Nat
    BY LenProperties DEF VerifyInv
  <1>2. 1 \in 1..MaxRuns /\ issued[1] \in Seq(AnyRecords) /\ Len(issued[1]) \in Nat
    BY VerifyAssumption, LenProperties DEF VerifyInv, IssuedInv
  <1>3. ASSUME NEW i \in 1..Len(trail)
        PROVE  i \in 1..Len(issued[1]) /\ trail[i] = issued[1][i]
    <2>1. trail[i] \in TrailRecords /\ trail[i].ok /\ trail[i].lsn = i
      BY <1>1, ElementOfSeq DEF AnchorsPass, IdsInOrder
    <2>2. Genuine(trail[i])
      BY <2>1 DEF TrailRecords
    <2> PICK r \in 1..MaxRuns : \E k \in 1..Len(issued[r]) : trail[i] = issued[r][k]
      BY <2>2 DEF Genuine
    <2>3. PICK k \in 1..Len(issued[r]) : trail[i] = issued[r][k]
      OBVIOUS
    <2>4. r = 1
      <3>1. Len(issued[r]) # 0
        BY <2>3
      <3>2. ~(r > 1)
        BY <3>1 DEF VerifyInv, IssuedInv
      <3> QED BY <3>2
    <2>5. issued[1][k].lsn = k
      BY <2>3, <2>4 DEF VerifyInv, IssuedInv
    <2> QED BY <2>1, <2>3, <2>4, <2>5
  <1>4. Len(trail) <= Len(issued[1])
    BY <1>1, <1>2, <1>3
  <1>5. trail \in Seq(AnyRecords)
    <2>1. TrailRecords \subseteq AnyRecords
      BY DEF TrailRecords
    <2> QED BY <1>1, <2>1, SeqMonotonic
  <1> QED BY <1>2, <1>3, <1>4, <1>5, PrefixOf

LEMMA ResumesBehindAll ==
  ASSUME VerifyInv, Healthy, FileRecords # <<>>
  PROVE  \A i \in DOMAIN trail : trail[i].ok => trail[i].lsn < ResumeLsn
  <1> DEFINE s == Sorted
             last == Len(s)
             M == {n \in DOMAIN s : Linked(SubSeq(s, 1, n))}
  <1>1. s \in Seq({rec \in TrailRecords : rec.ok}) /\ last # 0
    BY RecordsOfFile
  <1>2. Linked(s)
    BY DEF Healthy
  <1>3. \A i \in 1..Len(trail) : trail[i].ok => trail[i] \in ToSet(s)
    BY RecordsOfFile
  <1>4. ResumeLsn = s[Max(M)].lsn + 1
    BY DEF ResumeLsn
  <1> HIDE DEF s
  <1>5. {rec \in TrailRecords : rec.ok} \subseteq AnyRecords
    BY DEF TrailRecords
  <1>6. s \in Seq(AnyRecords)
    BY <1>1, <1>5, SeqMonotonic
  <1>7. DOMAIN s = 1..last /\ last \in Nat
    BY <1>6, LenProperties
  <1>8. last \in 1..last /\ \A n \in 1..last : n <= last
    BY <1>1, <1>7
  <1>9. Max(M) = last
    <2>1. SubSeq(s, 1, last) = s
      BY <1>6, SubSeqFull
    <2> HIDE DEF last
    <2>2. last \in M
      BY <1>2, <1>7, <1>8, <2>1
    <2>3. \A n \in M : n \in 1..last
      BY <1>7
    <2> HIDE DEF M
    <2>4. M \in SUBSET Nat /\ \A n \in M : n <= last
      BY <1>7, <2>3
    <2> QED BY <2>2, <2>4, MaxIs
  <1>10. \A k \in 1..last : s[k].lsn <= s[last].lsn
    BY <1>1, <1>2, <1>6, LinkedRises
  <1>11. \A k \in 1..last : s[k].lsn \in Nat
    <2>1. \A k \in 1..last : s[k] \in AnyRecords
      BY <1>6, ElementOfSeq
    <2> QED BY <2>1 DEF AnyRecords
  <1>12. DOMAIN trail = 1..Len(trail)
    BY LenProperties DEF VerifyInv
  <1>13. ASSUME NEW i \in DOMAIN trail, trail[i].ok PROVE trail[i].lsn < ResumeLsn
    <2>1. PICK k \in 1..last : trail[i] = s[k]
      BY <1>3, <1>7, <1>12, <1>13 DEF ToSet
    <2>2. s[k].lsn <= s[last].lsn /\ s[k].lsn \in Nat /\ s[last].lsn \in Nat
      BY <1>8, <1>10, <1>11
    <2>3. ResumeLsn = s[last].lsn + 1
      BY <1>4, <1>9
    <2> QED BY <2>1, <2>2, <2>3
  <1> QED BY <1>13

(* Whatever damage a trail suffers, if it passes the verification, what is  *)
(* left of it is as one run of the engine wrote it (cmd_verify_log,         *)
(* cmd_verify_anchor and cmd_recovery_report of verify.rs).                 *)
THEOREM PassingMeansIntact == VerifySpec => []PassMeansIntact
  <1>1. VerifyInv => PassMeansIntact
    BY PassingFrames, PassingAnchors, ResumesBehindAll DEF PassMeansIntact
  <1> QED BY <1>1, VerifyInvariant, PTL

(***************************************************************************)
(* Components together                                                     *)
(*                                                                         *)
(* The properties that MCComponents checks of components of a kind, and the*)
(* theorems about them.                                                    *)
(***************************************************************************)

(* Neither a burst of callers nor a late store lets more records through   *)
(* than the rate allows, two of them get the same identifier only if a     *)
(* call was outrun by a full turn of the sequence, and a half-open circuit *)
(* lets no more than its probes through.                                   *)
AdmissionIsBounded == RateIsBounded /\ ProbesAreBounded /\ IdsAreUnique

(* Plugins that need each other are found, the consumer thread is never in  *)
(* an unmapped or revoked library, a name once signed does not pass        *)
(* unsigned, and a reload migrates only a state captured before it.        *)
PluginsAreSafe ==
  CyclesAreFound /\ DispatchIsLive /\ SignedStaysSigned /\ StateIsFromBefore

(* Every record the file sink reported written is in a file, once and in    *)
(* order, and what remote sinks send arrives in order but for the retries  *)
(* of one request.                                                         *)
SinksKeepRecords == RotationKeepsRecords /\ ExportsAreOrdered

(* Signatures stay verifiable through rotations and revocations, a key is   *)
(* superseded only after the grace of its own rotation, and the external   *)
(* anchors cover the audit chain without a hole.                           *)
KeysAndAnchorsHold ==
  [](SignaturesVerify /\ AnchorsCoverTheChain) /\ GraceIsRespected

(* The configuration is that of one file with one profile in full, a child *)
(* domain only tightens what its parent says, and --shm outlives every     *)
(* edit of the file.                                                       *)
ConfigurationHolds == OneFileOneProfile /\ ChildrenTighten /\ CommandLineHolds

(* What admits a record, limiter, breaker and identifiers, keeps its bounds *)
(* for every number of callers and every setting of the limits.            *)
THEOREM AdmissionStaysBounded ==
  RateSpec /\ BreakerSpec /\ IdSpec => []AdmissionIsBounded
  BY RateKeeps, ProbesKeep, IdsKeep, PTL DEF AdmissionIsBounded

(* The rules for plugins hold for every set of plugins, libraries, names,   *)
(* keys and versions, and any number of threads that reload.               *)
THEOREM PluginsStaySafe ==
  DependencySpec /\ PluginHostSpec /\ PluginStoreSpec /\ MigrationSpec
    => []PluginsAreSafe
  BY CyclesAreAlwaysFound, DispatchStaysLive, SignaturesStay, StatesComeBefore,
     PTL
     DEF PluginsAreSafe

(* However rotations and requests fail, files and receivers have the        *)
(* records in order.                                                       *)
THEOREM SinksAlwaysKeep == FileSinkSpec /\ RemoteSpec => []SinksKeepRecords
  BY RotationsKeep, ExportsStayOrdered, PTL DEF SinksKeepRecords

(* Rotations in any number, broken off by revocations or not, and anchors   *)
(* at any interval keep the promises of both.                              *)
THEOREM KeysAndAnchorsStay == RotationSpec /\ AnchorSpec => KeysAndAnchorsHold
  BY KeysKeepVerifying, AnchorsCover, PTL DEF KeysAndAnchorsHold

(* Whatever files, environment and hosts ask for, however domains are       *)
(* added and the file of `dologctl run` is edited.                         *)
THEOREM ConfigurationAlwaysHolds ==
  LoadSpec /\ DomainSpec /\ RunSpec => []ConfigurationHolds
  BY OneFileIsLoaded, ChildrenAlwaysTighten, CommandLineStays, PTL
     DEF ConfigurationHolds

=============================================================================
