---------------------------- MODULE NetworkUsage ----------------------------
(***************************************************************************)
(* The count of bytes a machine moves (store._add_to_usage).               *)
(*                                                                         *)
(* Every heartbeat first reads the byte counter of the default interface   *)
(* (net_health.take_sample), then waits for a ping and a connection, and   *)
(* then stores the reading in one transaction, which adds what the counter *)
(* gained since the latest stored reading.  In between the clock may be    *)
(* corrected, counters start over and the default route move; and another  *)
(* heartbeat may do the same.                                              *)
(*                                                                         *)
(* A counter stands for rx_bytes as for tx_bytes, which are treated alike, *)
(* and counted for the sum over the months: the month only chooses the row *)
(* that holds the reading.  Time 0 is no time.                             *)
(***************************************************************************)
EXTENDS Integers

CONSTANTS
    Sampler,   \* heartbeat processes
    Iface,     \* network interfaces
    MaxTime,   \* bound: the clock
    MonthOf,   \* the month of a time
    MaxGap,    \* _USAGE_MAX_GAP_S
    MaxMoved   \* bound: bytes moved

Time == 1..MaxTime
Month == {MonthOf[t] : t \in Time}

ASSUME UsageAssumption ==
    /\ MaxTime \in Nat \ {0}
    /\ MaxGap \in Nat
    /\ MaxMoved \in Nat
    /\ MonthOf \in [Time -> Nat]
    /\ \A s, t \in Time : s <= t => MonthOf[s] <= MonthOf[t]

VARIABLES
    now,      \* the clock
    route,    \* the interface of the default route
    counter,  \* the interfaces' byte counters
    moved,    \* bytes moved so far, by all of them
    held,     \* the reading that each process holds
    last,     \* the reading in each month's row
    counted   \* bytes counted so far, in all rows

vars == <<now, route, counter, moved, held, last, counted>>

\* A reading of a counter.  at says how much had been moved by then.
Reading == [ts : Time, iface : Iface, count : Nat, at : Nat]
NoReading == [ts |-> 0, iface |-> "", count |-> 0, at |-> 0]

None(r) == r.ts = 0

\* The latest reading of any month, none if there is no row.
Latest(r) ==
    \E m \in Month :
        /\ r = last[m]
        /\ \A n \in Month : last[n].ts <= r.ts

\* Mutant: the month's own reading is the one to compare with.
BaselineOfMonth(r) == LET m == MonthOf[r.ts] IN last[m]

Baseline(r) == CHOOSE b \in {last[m] : m \in Month} : Latest(b)

\* Mutant: a counter that started over is not noticed.
GainUnchecked(b, r) ==
    IF ~None(b) /\ b.iface = r.iface THEN r.count - b.count ELSE 0

\* What reading r adds on top of reading b.  A counter that went backwards
\* was reset: what is there now was moved since.
Gain(b, r) ==
    IF /\ ~None(b)
       /\ b.iface = r.iface
       /\ 0 < r.ts - b.ts
       /\ r.ts - b.ts <= MaxGap
      THEN IF r.count >= b.count THEN r.count - b.count ELSE r.count
      ELSE 0

Init ==
    /\ now \in Time
    /\ route \in Iface
    /\ counter = [i \in Iface |-> 0]
    /\ moved = 0
    /\ held = [s \in Sampler |-> NoReading]
    /\ last = [m \in Month |-> NoReading]
    /\ counted = 0

Drop(s) == held' = [held EXCEPT ![s] = NoReading]

Read(s) ==
    /\ None(held[s])
    /\ held' = [held EXCEPT ![s] = [ts |-> now, iface |-> route,
                                    count |-> counter[route], at |-> moved]]
    /\ UNCHANGED <<now, route, counter, moved, last, counted>>

\* save_network_sample: the reading goes to its month's row, whether it
\* counts or not.
Save(s) ==
    LET r == held[s]
    IN  /\ ~None(r)
        /\ counted' = counted + Gain(Baseline(r), r)
        /\ last' = [last EXCEPT ![MonthOf[r.ts]] = r]
        /\ Drop(s)
        /\ UNCHANGED <<now, route, counter, moved>>

\* The process dies, or the transaction fails.
Lose(s) ==
    /\ ~None(held[s])
    /\ Drop(s)
    /\ UNCHANGED <<now, route, counter, moved, last, counted>>

MoveByte(i) ==
    /\ moved < MaxMoved
    /\ moved' = moved + 1
    /\ counter' = [counter EXCEPT ![i] = @ + 1]
    /\ UNCHANGED <<now, route, held, last, counted>>

\* Time passes, or the clock is corrected either way.
SetClock ==
    /\ now' \in Time
    /\ UNCHANGED <<route, counter, moved, held, last, counted>>

\* The interface comes up anew.
ResetCounter(i) ==
    /\ counter' = [counter EXCEPT ![i] = 0]
    /\ UNCHANGED <<now, route, moved, held, last, counted>>

Reboot ==
    /\ counter' = [i \in Iface |-> 0]
    /\ held' = [s \in Sampler |-> NoReading]
    /\ UNCHANGED <<now, route, moved, last, counted>>

Reroute ==
    /\ route' \in Iface
    /\ UNCHANGED <<now, counter, moved, held, last, counted>>

Next ==
    \/ \E s \in Sampler : Read(s) \/ Save(s) \/ Lose(s)
    \/ \E i \in Iface : MoveByte(i) \/ ResetCounter(i)
    \/ SetClock
    \/ Reboot
    \/ Reroute

Spec == Init /\ [][Next]_vars

-----------------------------------------------------------------------------
(* Properties *)

\* Types of the variables.
TypeOK ==
    /\ now \in Time
    /\ route \in Iface
    /\ counter \in [Iface -> Nat]
    /\ moved \in 0..MaxMoved
    /\ held \in [Sampler -> Reading \cup {NoReading}]
    /\ last \in [Month -> Reading \cup {NoReading}]
    /\ counted \in Nat

\* "Bytes moved per calendar month, added up from the counters as they grow"
\* (storage/store.py): no byte is counted twice, however the clock is set,
\* whatever counters start over and wherever the route goes.
UsageIsMoved == counted <= moved

=============================================================================
