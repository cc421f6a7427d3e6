---------------------------- MODULE Backpressure ----------------------------
(***************************************************************************)
(* The backpressure controller (pipeline/backpressure.rs).  Any thread     *)
(* evaluates a record against the ring's fill level and stores the level;  *)
(* the threads of Checkers poll check_emergency, which reads the level and *)
(* the flag first and acts on them later.  Five seconds pass as one step.  *)
(* Of the counters only the verdict that moves them is kept.               *)
(***************************************************************************)
EXTENDS Integers

CONSTANTS
  Checkers,
  Fills,            \* fill levels, in permille
  RecordLevels      \* LogLevel discriminants: a larger number is more severe

ASSUME PressureAssumption == Fills \subseteq Nat

VARIABLES
  profile, is_audit,
  fill, emergency,
  since,            \* emergency_since: "none", "fresh" or "old" (over 5 s)
  check,            \* each checker: [pc, fill, emergency]
  verdict,          \* the last evaluation: "accepted", "blocked" or "dropped"
  overload          \* history: how long no check has read less than 950

pressurevars == <<profile, is_audit, fill, emergency, since, check, verdict,
                  overload>>

LevelWarn == 3

(* BackpressureConfig::for_profile. *)
DropStrategy ==
  IF is_audit THEN "Never"
  ELSE CASE profile = "Dev" -> "Newest"
         [] profile \in {"ProdPerformance", "ProdAudit"} -> "BelowWarn"
         [] profile = "Balanced" -> "Oldest"

PressureInit ==
  /\ profile \in {"Dev", "ProdPerformance", "ProdAudit", "Balanced"}
  /\ is_audit \in BOOLEAN
  /\ fill = 0 /\ emergency = FALSE /\ since = "none"
  /\ check = [c \in Checkers |-> [pc |-> "idle", fill |-> 0, emergency |-> FALSE]]
  /\ verdict = "accepted" /\ overload = "none"

Drops(level) ==
  \/ DropStrategy = "Newest"
  \/ DropStrategy = "BelowWarn" /\ level < LevelWarn

(* evaluate: the level is stored before the verdict. *)
Evaluate(ratio, level) ==
  /\ fill' = ratio
  /\ verdict' = IF ratio < 900 THEN "accepted"
                ELSE IF ratio >= 950 /\ Drops(level) THEN "dropped"
                ELSE "blocked"
  /\ UNCHANGED <<profile, is_audit, emergency, since, check, overload>>

FiveSecondsPass ==
  /\ "fresh" \in {since, overload}
  /\ since' = IF since = "fresh" THEN "old" ELSE since
  /\ overload' = IF overload = "fresh" THEN "old" ELSE overload
  /\ UNCHANGED <<profile, is_audit, fill, emergency, check, verdict>>

(* check_emergency: the two loads. *)
ReadLevel(c) ==
  /\ check[c].pc = "idle"
  /\ check' = [check EXCEPT ![c] = [pc |-> "decide", fill |-> fill,
                                    emergency |-> emergency]]
  /\ overload' = IF fill < 950 THEN "none"
                 ELSE IF fill > 950 /\ overload = "none" THEN "fresh"
                 ELSE overload
  /\ UNCHANGED <<profile, is_audit, fill, emergency, since, verdict>>

Decides(c, next) ==
  /\ check[c].pc = "decide"
  /\ check' = [check EXCEPT ![c].pc = next]
  /\ UNCHANGED <<profile, is_audit, fill, verdict, overload>>

Recovered(c) == check[c].emergency /\ check[c].fill < 500

Overloaded(c) ==
  /\ check[c].fill > 950
  /\ Decides(c, "idle")
  /\ since' = IF ~check[c].emergency /\ since = "none" THEN "fresh" ELSE since
  /\ emergency' = (emergency \/ (~check[c].emergency /\ since = "old"))

(* Recovery: the flag is cleared before the time stamp. *)
Recover(c) ==
  /\ Recovered(c)
  /\ Decides(c, "forget")
  /\ emergency' = FALSE
  /\ UNCHANGED since

(* Mutant: the time stamp of the emergency that ended is kept. *)
ForgetOverloadMutant(c) ==
  /\ check[c].pc = "forget"
  /\ check' = [check EXCEPT ![c].pc = "idle"]
  /\ UNCHANGED <<profile, is_audit, fill, emergency, since, verdict, overload>>

ForgetOverload(c) ==
  /\ check[c].pc = "forget"
  /\ since' = "none"
  /\ check' = [check EXCEPT ![c].pc = "idle"]
  /\ UNCHANGED <<profile, is_audit, fill, emergency, verdict, overload>>

Relieved(c) ==
  /\ check[c].fill <= 950
  /\ ~Recovered(c)
  /\ Decides(c, "idle")
  /\ since' = IF check[c].fill < 950 THEN "none" ELSE since
  /\ UNCHANGED emergency

CheckEmergency(c) ==
  ReadLevel(c) \/ Overloaded(c) \/ Recover(c) \/ ForgetOverload(c) \/ Relieved(c)

PressureNext ==
  \/ \E ratio \in Fills, level \in RecordLevels : Evaluate(ratio, level)
  \/ FiveSecondsPass
  \/ \E c \in Checkers : CheckEmergency(c)

PressureSpec == PressureInit /\ [][PressureNext]_pressurevars

-----------------------------------------------------------------------------

(* Emergency mode begins only when no check of the last five seconds has   *)
(* read the ring below 95%: the time stamp of an earlier overload is never *)
(* used for a later one.  One checker polls; a second one, between   *)
(* the two steps of Recover and ForgetOverload, would see the old time stamp.      *)
EmergencyIsEarned ==
  [][~emergency /\ emergency' => overload = "old"]_pressurevars

(* Emergency mode does not outlive its cause: once the ring stays below    *)
(* half full the mode ends and stays off, if checks go on.                 *)
EmergencyEnds == <>[](fill < 500) => <>[]~emergency
=============================================================================
