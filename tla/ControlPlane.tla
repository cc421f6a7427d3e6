---------------------------- MODULE ControlPlane ----------------------------
(***************************************************************************)
(* The listener thread of core/src/sys/control_plane.rs: reading a request, *)
(* answering it, and what the answer changes.  A request is a record of    *)
(* what read_request and handle_request look at; names and numbers within  *)
(* their limits are left out.                                              *)
(***************************************************************************)
EXTENDS Integers, Sequences

CONSTANTS
  Levels,           \* the canonical level names
  Requests,         \* the requests clients send
  MaxRequests       \* bound on their number

VARIABLES
  policy,           \* the pre-filter's minimum level: DropLevelPolicy
  runtime_level,    \* the level /status reports
  reload_requested, \* control_reload_requested
  errors, reload_requests, reloads,     \* ControlPlaneStats
  cpc, clevel,      \* the listener: "idle" or "display", and the level to store
  served,           \* requests answered
  status            \* the last answer

controlvars == <<policy, runtime_level, reload_requested, errors, reload_requests,
                 reloads, cpc, clevel, served, status>>

ControlInit(level) ==
  /\ policy = level /\ runtime_level = level
  /\ reload_requested = FALSE
  /\ errors = 0 /\ reload_requests = 0 /\ reloads = 0
  /\ cpc = "idle" /\ clevel = level
  /\ served = 0 /\ status = 200

(* read_request: the first check that fails decides the answer. *)
ReadStatus(q) ==
  IF ~q.line_ok THEN 400                 \* length, three parts, HTTP version
  ELSE IF q.method \notin {"GET", "POST"} THEN 405
  ELSE IF ~q.path_ok THEN 400
  ELSE IF q.headers = "too large" THEN 431
  ELSE IF q.headers = "bad" THEN 400     \* no colon, transfer-encoding, two lengths
  ELSE IF q.length = "too large" THEN 413
  ELSE IF q.length = "short" THEN 400    \* the body ends early
  ELSE 200

(* handle_request, for a request that could be read. *)
HandleStatus(q) ==
  CASE q.method = "GET" /\ q.path = "/status"          -> 200
    [] q.method = "POST" /\ q.path = "/level"          -> IF q.body \in Levels THEN 200 ELSE 400
    [] q.method = "POST" /\ q.path = "/reload"         -> 200
    [] q.method = "POST" /\ q.path = "/metrics/reset"  -> IF q.body = "" THEN 200 ELSE 400
    [] OTHER                                           -> 404

Status(q) == IF ReadStatus(q) = 200 THEN HandleStatus(q) ELSE ReadStatus(q)

(* Every refused request is counted as an error, unknown paths excepted. *)
Answer(q) ==
  /\ cpc = "idle"
  /\ served < MaxRequests
  /\ served' = served + 1
  /\ status' = Status(q)

Refuse(q) ==
  /\ Answer(q)
  /\ Status(q) # 200
  /\ errors' = IF Status(q) = 404 THEN errors ELSE errors + 1
  /\ UNCHANGED <<policy, runtime_level, reload_requested, reload_requests,
                 reloads, cpc, clevel>>

Report(q) ==
  /\ Answer(q)
  /\ Status(q) = 200 /\ q.path = "/status"
  /\ UNCHANGED <<policy, runtime_level, reload_requested, errors,
                 reload_requests, reloads, cpc, clevel>>

(* The level callback sets the policy; the reported level is stored after. *)
ApplyLevel(q) ==
  /\ Answer(q)
  /\ Status(q) = 200 /\ q.path = "/level"
  /\ policy' = q.body
  /\ clevel' = q.body
  /\ cpc' = "display"
  /\ UNCHANGED <<runtime_level, reload_requested, errors, reload_requests, reloads>>

StoreLevel ==
  /\ cpc = "display"
  /\ cpc' = "idle"
  /\ runtime_level' = clevel
  /\ UNCHANGED <<policy, reload_requested, errors, reload_requests, reloads,
                 clevel, served, status>>

RequestReload(q) ==
  /\ Answer(q)
  /\ Status(q) = 200 /\ q.path = "/reload"
  /\ reload_requests' = reload_requests + 1
  /\ reload_requested' = TRUE
  /\ UNCHANGED <<policy, runtime_level, errors, reloads, cpc, clevel>>

ResetCounters(q) ==
  /\ Answer(q)
  /\ Status(q) = 200 /\ q.path = "/metrics/reset"
  /\ errors' = 0 /\ reload_requests' = 0 /\ reloads' = 0
  /\ UNCHANGED <<policy, runtime_level, reload_requested, cpc, clevel>>

ControlStep ==
  \/ \E q \in Requests :
       Refuse(q) \/ Report(q) \/ ApplyLevel(q) \/ RequestReload(q) \/ ResetCounters(q)
  \/ StoreLevel

=============================================================================
