---------------------------- MODULE MCHeartbeat -----------------------------
(* Intervals for checking Heartbeat. *)
EXTENDS Heartbeat, TLC

\* The status is polled every time, live metrics are sent every other tick.
BudgetIntervals == [m \in Mark |-> IF m = "live_metrics" THEN 1 ELSE 0]

\* The section is left out of every other payload, the rest is always due.
SectionIntervals == [m \in Mark |-> IF m \in Section THEN 1 ELSE 0]

\* The senders of the budget's runs may be exchanged.
SenderSymmetry == Permutations(Sender)
=============================================================================
