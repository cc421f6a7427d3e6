--------------------------- MODULE CircuitBreaker ---------------------------
(***************************************************************************)
(* The breaker in front of a remote sink (pipeline/circuit_breaker.rs),    *)
(* called by several threads.  Its state changes under one mutex, but its  *)
(* failure count is updated before the mutex is taken.  The timeout is a   *)
(* flag that time sets, failure_count stops at failure_threshold, beyond   *)
(* which no comparison tells its values apart, and statistics are left out. *)
(***************************************************************************)
EXTENDS Integers

CONSTANTS
  Callers,
  failure_threshold, half_open_max_requests

ASSUME BreakerAssumption ==
  failure_threshold \in Nat /\ half_open_max_requests \in Nat

VARIABLES
  circuit,          \* "Closed", "Open" or "HalfOpen"
  elapsed,          \* the timeout has passed since opened_at
  failure_count, probes_remaining,
  call,             \* each caller: [pc, prev]
  probes            \* history: requests admitted since the circuit became half open

breakervars == <<circuit, elapsed, failure_count, probes_remaining, call,
                 probes>>

BreakerInit ==
  /\ circuit = "Closed" /\ elapsed = FALSE
  /\ failure_count = 0 /\ probes_remaining = 0
  /\ call = [c \in Callers |-> [pc |-> "idle", prev |-> 0]]
  /\ probes = 0

Goes(c, from, to) == call[c].pc = from /\ call' = [call EXCEPT ![c].pc = to]

TimeoutElapses ==
  /\ circuit = "Open" /\ ~elapsed
  /\ elapsed' = TRUE
  /\ UNCHANGED <<circuit, failure_count, probes_remaining, call, probes>>

(***************************************************************************)
(* allow_request.  The transition to half open releases the mutex and      *)
(* calls allow_request again.                                              *)
(***************************************************************************)
Admit(c) ==
  /\ circuit = "Closed"
  /\ Goes(c, "idle", "writing")
  /\ UNCHANGED <<circuit, elapsed, failure_count, probes_remaining, probes>>

HalfOpen(c) ==
  /\ circuit = "Open" /\ elapsed
  /\ Goes(c, "idle", "idle")
  /\ circuit' = "HalfOpen"
  /\ probes_remaining' = half_open_max_requests
  /\ probes' = 0
  /\ UNCHANGED <<elapsed, failure_count>>

Probe(c) ==
  /\ circuit = "HalfOpen" /\ probes_remaining > 0
  /\ Goes(c, "idle", "writing")
  /\ probes_remaining' = probes_remaining - 1
  /\ probes' = probes + 1
  /\ UNCHANGED <<circuit, elapsed, failure_count>>

(***************************************************************************)
(* report_success, report_failure and reset: the count, then the mutex.    *)
(***************************************************************************)
Succeed(c) ==
  /\ Goes(c, "writing", "success")
  /\ failure_count' = 0
  /\ UNCHANGED <<circuit, elapsed, probes_remaining, probes>>

Fail(c) ==
  /\ call[c].pc = "writing"
  /\ call' = [call EXCEPT ![c] = [pc |-> "failure", prev |-> failure_count]]
  /\ failure_count' = IF failure_count < failure_threshold
                      THEN failure_count + 1 ELSE failure_count
  /\ UNCHANGED <<circuit, elapsed, probes_remaining, probes>>

(* Mutant: a success does not close the circuit. *)
ReportSuccessMutant(c) ==
  /\ Goes(c, "success", "idle")
  /\ UNCHANGED <<circuit, elapsed, failure_count, probes_remaining, probes>>

ReportSuccess(c) ==
  /\ Goes(c, "success", "idle")
  /\ circuit' = IF circuit = "HalfOpen" THEN "Closed" ELSE circuit
  /\ UNCHANGED <<elapsed, failure_count, probes_remaining, probes>>

(* In the open state a late failure only restarts the timeout. *)
ReportFailure(c) ==
  LET opens == circuit = "HalfOpen" \/ call[c].prev + 1 >= failure_threshold IN
  /\ Goes(c, "failure", "idle")
  /\ circuit' = IF opens THEN "Open" ELSE circuit
  /\ elapsed' = IF opens \/ circuit = "Open" THEN FALSE ELSE elapsed
  /\ probes_remaining' = IF circuit = "HalfOpen" THEN 0 ELSE probes_remaining
  /\ UNCHANGED <<failure_count, probes>>

BeginReset(c) ==
  /\ Goes(c, "idle", "reset")
  /\ failure_count' = 0
  /\ UNCHANGED <<circuit, elapsed, probes_remaining, probes>>

EndReset(c) ==
  /\ Goes(c, "reset", "idle")
  /\ circuit' = "Closed" /\ elapsed' = FALSE /\ probes_remaining' = 0
  /\ UNCHANGED <<failure_count, probes>>

Report(c) == Succeed(c) \/ Fail(c) \/ ReportSuccess(c) \/ ReportFailure(c) \/ EndReset(c)
Request(c) == Admit(c) \/ HalfOpen(c) \/ Probe(c)

BreakerNext ==
  \/ TimeoutElapses
  \/ \E c \in Callers : Request(c) \/ Report(c) \/ BeginReset(c)

BreakerSpec == BreakerInit /\ [][BreakerNext]_breakervars

(***************************************************************************)
(* Properties.                                                             *)
(***************************************************************************)

(* No more requests than half_open_max_requests reach the sink between the  *)
(* end of a timeout and the report that decides it, whoever asks.          *)
ProbesAreBounded ==
  circuit = "HalfOpen" => probes + probes_remaining <= half_open_max_requests

(* A half-open circuit does not stay so: some admitted request is reported, *)
(* even when the probes are used up by threads that were not waiting.      *)
HalfOpenEnds == circuit = "HalfOpen" ~> circuit # "HalfOpen"

=============================================================================
