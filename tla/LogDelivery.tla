----------------------------- MODULE LogDelivery -----------------------------
(***************************************************************************)
(* What dologger_log and the pipeline behind it promise of the ordinary    *)
(* records: every record that was accepted meets one fate, once, and those *)
(* that reach the configured sinks do so in the order of acceptance.       *)
(***************************************************************************)
EXTENDS Naturals, Sequences

VARIABLES
  fate,     \* fate[i]: of the i-th record accepted; "waiting" at first
  written   \* the last record handed to the configured sinks

vars == <<fate, written>>

Init ==
  /\ fate = <<>>
  /\ written = 0

Accept ==
  /\ fate' = Append(fate, "waiting")
  /\ UNCHANGED written

\* Dropped by a pipeline stage, or processed by a helping producer.
Settle(i) ==
  /\ fate[i] = "waiting"
  /\ \E f \in {"filtered", "helped"} : fate' = [fate EXCEPT ![i] = f]
  /\ UNCHANGED written

\* Handed to the configured sinks, which may fail to write it.
Write(i) ==
  /\ fate[i] = "waiting"
  /\ written < i
  /\ \E f \in {"written", "lost"} : fate' = [fate EXCEPT ![i] = f]
  /\ written' = i

Next == Accept \/ \E i \in DOMAIN fate : Settle(i) \/ Write(i)

Spec == Init /\ [][Next]_vars

=============================================================================
