------------------------------ MODULE RateLimit ------------------------------
(***************************************************************************)
(* The token bucket of the pre-filter (core/src/pipeline/policy.rs,        *)
(* RateLimiter): callers that evaluate at once refill it under a mutex and *)
(* take a token by compare-and-swap, while time passes between any two of  *)
(* their steps.  Time is counted in halves of the refill interval, and a   *)
(* token is one (the code keeps thousandths, always a multiple of 1000).   *)
(***************************************************************************)
EXTENDS Integers, FiniteSets

CONSTANTS
  RateCallers,      \* threads that evaluate
  BurstSizes,       \* values burst_size may have
  TokensPerRefill,  \* rate_per_sec / 10, and at least 1
  MaxTime,          \* bound on the half intervals that pass
  MaxDropped        \* bound on the records refused

ASSUME RateAssumption ==
  /\ IsFiniteSet(RateCallers)
  /\ BurstSizes \subseteq Nat
  /\ TokensPerRefill \in Nat

VARIABLES
  burst_size,
  time, tokens, last_refill,
  holder,           \* who holds the mutex of last_refill, or "nobody"
  rate_pc,          \* where each caller is
  read_time,        \* `now`, read once the mutex is held
  loaded,           \* the tokens a caller has loaded
  allowed_count, dropped_count,
  taken             \* history: tokens taken

limits == <<burst_size, time>>
counts == <<allowed_count, dropped_count>>
ratevars == <<limits, counts, tokens, last_refill, holder, rate_pc, read_time, loaded, taken>>

Interval == 2

RateInit ==
  /\ burst_size \in BurstSizes
  /\ time = 0 /\ last_refill = 0 /\ tokens = burst_size
  /\ holder = "nobody"
  /\ rate_pc = [c \in RateCallers |-> "idle"]
  /\ read_time = [c \in RateCallers |-> 0] /\ loaded = [c \in RateCallers |-> 0]
  /\ allowed_count = 0 /\ dropped_count = 0 /\ taken = 0

TimePasses ==
  /\ time < MaxTime
  /\ time' = time + 1
  /\ UNCHANGED <<burst_size, counts, tokens, last_refill, holder, rate_pc,
                 read_time, loaded, taken>>

(***************************************************************************)
(* refill.                                                                 *)
(***************************************************************************)

Due(c) == read_time'[c] - last_refill >= Interval

LockAndReadTime(c) ==
  /\ rate_pc[c] = "idle" /\ holder = "nobody" /\ dropped_count < MaxDropped
  /\ read_time' = [read_time EXCEPT ![c] = time]
  /\ IF Due(c) THEN holder' = c /\ rate_pc' = [rate_pc EXCEPT ![c] = "refill"]
               ELSE UNCHANGED holder /\ rate_pc' = [rate_pc EXCEPT ![c] = "take"]
  /\ UNCHANGED <<limits, counts, tokens, last_refill, loaded, taken>>

Load(c, from, to) ==
  /\ rate_pc[c] = from
  /\ loaded' = [loaded EXCEPT ![c] = tokens]
  /\ rate_pc' = [rate_pc EXCEPT ![c] = to]
  /\ UNCHANGED <<limits, counts, tokens, last_refill, holder, read_time, taken>>

AtMost(a, b) == IF a < b THEN a ELSE b

Refilled(c) ==
  AtMost(burst_size,
         loaded[c] + ((read_time[c] - last_refill) \div Interval) * TokensPerRefill)

(* Mutant: the refill stores what it computed without comparing. *)
StoreRefillMutant(c) ==
  /\ rate_pc[c] = "refill CAS"
  /\ tokens' = Refilled(c) /\ last_refill' = read_time[c]
  /\ holder' = "nobody" /\ rate_pc' = [rate_pc EXCEPT ![c] = "take"]
  /\ UNCHANGED <<limits, counts, read_time, loaded, taken>>

StoreRefill(c) ==
  /\ rate_pc[c] = "refill CAS"
  /\ IF tokens = loaded[c]
     THEN /\ tokens' = Refilled(c) /\ last_refill' = read_time[c]
          /\ holder' = "nobody" /\ rate_pc' = [rate_pc EXCEPT ![c] = "take"]
     ELSE /\ rate_pc' = [rate_pc EXCEPT ![c] = "refill"]
          /\ UNCHANGED <<tokens, last_refill, holder>>
  /\ UNCHANGED <<limits, counts, read_time, loaded, taken>>

(***************************************************************************)
(* evaluate, after the refill.                                             *)
(***************************************************************************)

Refuse(c) ==
  /\ rate_pc[c] = "take CAS" /\ loaded[c] < 1
  /\ dropped_count' = dropped_count + 1
  /\ rate_pc' = [rate_pc EXCEPT ![c] = "idle"]
  /\ UNCHANGED <<limits, allowed_count, tokens, last_refill, holder, read_time,
                 loaded, taken>>

TakeToken(c) ==
  /\ rate_pc[c] = "take CAS" /\ loaded[c] >= 1
  /\ IF tokens = loaded[c]
     THEN /\ tokens' = loaded[c] - 1 /\ taken' = taken + 1
          /\ rate_pc' = [rate_pc EXCEPT ![c] = "allowed"]
     ELSE rate_pc' = [rate_pc EXCEPT ![c] = "take"] /\ UNCHANGED <<tokens, taken>>
  /\ UNCHANGED <<limits, counts, last_refill, holder, read_time, loaded>>

Allow(c) ==
  /\ rate_pc[c] = "allowed"
  /\ allowed_count' = allowed_count + 1
  /\ rate_pc' = [rate_pc EXCEPT ![c] = "idle"]
  /\ UNCHANGED <<limits, dropped_count, tokens, last_refill, holder, read_time,
                 loaded, taken>>

RateNext ==
  \/ TimePasses
  \/ \E c \in RateCallers :
       \/ LockAndReadTime(c) \/ Load(c, "refill", "refill CAS") \/ StoreRefill(c)
       \/ Load(c, "take", "take CAS") \/ Refuse(c) \/ TakeToken(c) \/ Allow(c)

RateSpec == RateInit /\ [][RateNext]_ratevars

-----------------------------------------------------------------------------

(* However callers refill and take at once, the records let through and the *)
(* tokens left never exceed the first burst and one refill for each whole  *)
(* interval since: no token is taken twice or put back by a late store.    *)
RateIsBounded ==
  /\ tokens + taken <= burst_size + TokensPerRefill * (time \div Interval)
  /\ allowed_count <= taken

=============================================================================
