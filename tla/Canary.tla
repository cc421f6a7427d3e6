------------------------------- MODULE Canary -------------------------------
(***************************************************************************)
(* The canary probers of the sinks (pipeline/canary.rs): a timer thread    *)
(* asks the manager which sinks are due, writes a canary to each and       *)
(* reports the result, while another thread resets a prober or takes it    *)
(* out of the manager.  The fields are separate atomics: reports and       *)
(* resets meet between their stores.  consecutive_failures stops at        *)
(* failure_threshold, and statistics are left out.                         *)
(***************************************************************************)
EXTENDS FiniteSets, Integers

CONSTANTS
  Sinks, failure_threshold,
  MaxResets         \* bound: resets and changes of the probers

VARIABLES
  probers,          \* the sinks whose prober is registered
  interval_over,    \* sinks whose last probe is an interval ago
  consecutive_failures, dead,
  works,            \* the sinks a write reaches
  timer,            \* the timer thread: [pc, left, at]
  reset,            \* the other thread: the prober whose reset is half done, or none
  resets

canaryvars == <<probers, interval_over, consecutive_failures, dead, works,
                timer, reset, resets>>

CanaryInit ==
  /\ probers = {} /\ interval_over = {} /\ dead = {}
  /\ consecutive_failures = [s \in Sinks |-> 0]
  /\ works = Sinks
  /\ timer = [pc |-> "idle", left |-> {}, at |-> {}]
  /\ reset = {} /\ resets = 0

FailOrRecover(s) ==
  /\ resets < MaxResets
  /\ works' = IF s \in works THEN works \ {s} ELSE works \cup {s}
  /\ resets' = resets + 1
  /\ UNCHANGED <<probers, interval_over, consecutive_failures, dead, timer, reset>>

Register(s) ==
  /\ s \notin probers
  /\ probers' = probers \cup {s}
  /\ UNCHANGED <<interval_over, consecutive_failures, dead, works, timer,
                 reset, resets>>

Unregister(s) ==
  /\ s \in probers /\ resets < MaxResets
  /\ probers' = probers \ {s}
  /\ resets' = resets + 1
  /\ UNCHANGED <<interval_over, consecutive_failures, dead, works, timer, reset>>

IntervalPasses(s) ==
  /\ s \notin interval_over
  /\ interval_over' = interval_over \cup {s}
  /\ UNCHANGED <<probers, consecutive_failures, dead, works, timer, reset, resets>>

ShouldProbe(s) == s \notin dead /\ s \in interval_over

DueProbes ==
  /\ timer.pc = "idle"
  /\ \E due \in SUBSET probers :
       /\ due = {s \in probers : ShouldProbe(s)} /\ due # {}
       /\ timer' = [timer EXCEPT !.pc = "next", !.left = due]
  /\ UNCHANGED <<probers, interval_over, consecutive_failures, dead, works,
                 reset, resets>>

MarkProbeSent(s) ==
  /\ timer.pc = "next" /\ s \in timer.left
  /\ timer' = [pc |-> "probing", left |-> timer.left \ {s}, at |-> {s}]
  /\ interval_over' = interval_over \ {s}
  /\ UNCHANGED <<probers, consecutive_failures, dead, works, reset, resets>>

Proceed(next) == timer' = [timer EXCEPT !.pc = next]
AfterProbe == IF timer.left = {} THEN "idle" ELSE "next"

(* report_result: the streak changes first, then the dead flag. *)
ReportUnhealthy(s) ==
  /\ timer.pc = "probing" /\ timer.at = {s} /\ s \notin works
  /\ LET consecutive == consecutive_failures[s] + 1
     IN /\ consecutive_failures' =
             [consecutive_failures EXCEPT
                ![s] = IF consecutive > failure_threshold THEN @ ELSE consecutive]
        /\ Proceed(IF consecutive >= failure_threshold THEN "bury" ELSE AfterProbe)
  /\ UNCHANGED <<probers, interval_over, dead, works, reset, resets>>

Bury(s) ==
  /\ timer.pc = "bury" /\ timer.at = {s}
  /\ dead' = dead \cup {s}
  /\ Proceed(AfterProbe)
  /\ UNCHANGED <<probers, interval_over, consecutive_failures, works, reset,
                 resets>>

ReportHealthy(s) ==
  /\ timer.pc = "probing" /\ timer.at = {s} /\ s \in works
  /\ consecutive_failures' = [consecutive_failures EXCEPT ![s] = 0]
  /\ Proceed("revive")
  /\ UNCHANGED <<probers, interval_over, dead, works, reset, resets>>

Revive(s) ==
  /\ timer.pc = "revive" /\ timer.at = {s}
  /\ dead' = dead \ {s}
  /\ Proceed(AfterProbe)
  /\ UNCHANGED <<probers, interval_over, consecutive_failures, works, reset,
                 resets>>

(* A probe that was not sent, such as to a sink not open yet, counts for nothing. *)
ReportSkipped ==
  /\ timer.pc = "probing" /\ timer.at \subseteq works
  /\ Proceed(AfterProbe)
  /\ UNCHANGED <<probers, interval_over, consecutive_failures, dead, works,
                 reset, resets>>

(* reset: the streak, then the flag and the time of the last probe. *)
ResetStreak(s) ==
  /\ reset = {} /\ s \in probers /\ resets < MaxResets
  /\ reset' = {s} /\ resets' = resets + 1
  /\ consecutive_failures' = [consecutive_failures EXCEPT ![s] = 0]
  /\ UNCHANGED <<probers, interval_over, dead, works, timer>>

ResetFlag ==
  /\ reset # {}
  /\ reset' = {}
  /\ dead' = dead \ reset
  /\ interval_over' = interval_over \ reset
  /\ UNCHANGED <<probers, consecutive_failures, works, timer, resets>>

TimerStep ==
  \/ DueProbes \/ ReportSkipped
  \/ \E s \in Sinks : \/ MarkProbeSent(s) \/ ReportUnhealthy(s) \/ Bury(s)
                      \/ ReportHealthy(s) \/ Revive(s)

CanaryNext ==
  \/ TimerStep
  \/ \E s \in Sinks : \/ FailOrRecover(s) \/ Register(s) \/ Unregister(s)
                      \/ IntervalPasses(s) \/ ResetStreak(s)
  \/ ResetFlag

-----------------------------------------------------------------------------

(* A sink that fails for good is declared dead, or was while a reset of    *)
(* its prober was under way, if it stays registered and the timer thread   *)
(* goes on; resets may fall between a report's two stores.                 *)
FailuresAreNoticed ==
  \A s \in Sinks :
    <>[](s \in probers /\ s \notin works) => <>[](s \in dead)

(* Not so, though the module's comment promises recovery on the first      *)
(* success: the dead are never probed, and only a reset revives them.      *)
TheWorkingAreAlive ==
  \A s \in Sinks : <>[](s \in probers /\ s \in works) => <>[](s \notin dead)
=============================================================================
