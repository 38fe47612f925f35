--------------------------- MODULE MCNetworkUsage ---------------------------
(* Months of two ticks of the clock, for TLC. *)
EXTENDS NetworkUsage

TwoTickMonths == [t \in Time |-> (t + 1) \div 2]

=============================================================================
