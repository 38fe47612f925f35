--------------------------- MODULE NetworkHealth ----------------------------
(***************************************************************************)
(* The verdict on a machine's connection (analyzers/network_health.py).    *)
(*                                                                         *)
(* The stored readings, oldest first, become intervals between two         *)
(* readings; sustained slowdowns are found among them; the verdict weighs  *)
(* the port, losses, slowdowns and the traffic during them, in that order. *)
(* Of the four counters of errors one stands for all, traffic is in bytes  *)
(* and a capacity in bytes per unit of time, 0 when it is not known.       *)
(***************************************************************************)
EXTENDS Ordering, SequencesExt

CONSTANTS
    Unmeasured,  \* a latency, loss, speed or counter that was not read
    Limit        \* the numbers at the top of the source file, by name

ASSUME NetworkHealthAssumption ==
    /\ DOMAIN Limit =
          {"min_interval", "max_interval", "learning", "episode", "readings",
           "values", "ceiling_values", "plateau_readings", "ceiling",
           "factor", "inet_rise", "gw_rise", "recent", "segments", "errors",
           "losses", "slow_speed"}
    /\ \A l \in DOMAIN Limit : Limit[l] \in Nat
    /\ Limit.episode > 0

Greatest(a, b) == IF a > b THEN a ELSE b

Total(rows, Of(_)) == FoldLeft(LAMBDA sum, row : sum + Of(row), 0, rows)

\* _percentile, of a sequence of numbers that is not empty.
Percentile(values, percent) ==
    LET sorted == SortSeq(values, <)
    IN sorted[1 + (2 * percent * (Len(values) - 1) + 100) \div 200]

\* What a counter that may not have been read or may have been reset gained.
Gained(a, b, counter) ==
    IF a[counter] # Unmeasured /\ b[counter] # Unmeasured
         /\ b[counter] >= a[counter]
    THEN b[counter] - a[counter] ELSE 0

\* Whether two consecutive readings make an interval.
Usable(a, b) ==
    /\ b.ts - a.ts \in Limit.min_interval..Limit.max_interval
    /\ a.iface = b.iface
    /\ b.rx >= a.rx /\ b.tx >= a.tx

Interval(a, b) ==
    LET counted == /\ a.sent # Unmeasured /\ b.sent # Unmeasured
                   /\ b.sent >= a.sent /\ b.resent >= a.resent
    IN [ts |-> b.ts, dt |-> b.ts - a.ts,
        down |-> b.rx - a.rx, up |-> b.tx - a.tx,
        inet |-> b.inet, gw |-> b.gw, lost |-> b.lost,
        segments |-> IF counted THEN b.sent - a.sent ELSE 0,
        resent |-> IF counted THEN b.resent - a.resent ELSE 0,
        errors |-> Gained(a, b, "errs")]

\* _intervals.
Intervals(samples) ==
    LET pairs == 1..Len(samples) - 1
    IN Picked([i \in pairs |-> Interval(samples[i], samples[i + 1])],
              {i \in pairs : Usable(samples[i], samples[i + 1])})

Values(rows, key) ==
    LET read == SelectSeq(rows, LAMBDA row : row[key] # Unmeasured)
    IN [i \in DOMAIN read |-> read[i][key]]

\* The latency from which a reading is slow, one of them or none.
Threshold(rows, key, rise) ==
    LET base == Percentile(Values(rows, key), 20)
    IN IF Len(Values(rows, key)) < Limit.values THEN {}
       ELSE {Greatest(Limit.factor * base, base + rise)}

Slow(row, key, threshold) ==
    row[key] # Unmeasured /\ \E t \in threshold : row[key] >= t

\* The loop of _episodes: the slowdowns that have ended, the one that may
\* still go on, and the time of the reading before.
NoEpisode == [inside |-> <<>>, run |-> <<>>, previous |-> 0]

\* A slowdown of too few readings is dropped.
Flushed(s) ==
    IF Len(s.run) >= Limit.readings THEN s.inside \o s.run ELSE s.inside

AfterRow(s, row, slow) ==
    IF slow /\ (s.run = <<>> \/ row.ts - s.previous <= Limit.max_interval)
    THEN [inside |-> s.inside, run |-> Append(s.run, row), previous |-> row.ts]
    ELSE [inside |-> Flushed(s),
          run |-> IF slow THEN <<row>> ELSE <<>>,
          previous |-> row.ts]

\* After n intervals.
LoopState(rows, key, threshold) ==
    LET state[n \in 0..Len(rows)] ==
            IF n = 0 THEN NoEpisode
            ELSE AfterRow(state[n - 1], rows[n], Slow(rows[n], key, threshold))
    IN state

\* Mutant: a slowdown that lasts until now is left out.
EpisodesEnded(rows, key, rise) ==
    LoopState(rows, key, Threshold(rows, key, rise))[Len(rows)].inside

\* _episodes: the intervals of slowdowns of enough readings in a row.
Episodes(rows, key, rise) ==
    Flushed(LoopState(rows, key, Threshold(rows, key, rise))[Len(rows)])

\* A rate that traffic reaches often and never exceeds, or 0.
Ceiling(rows, way) ==
    LET rates == [i \in DOMAIN rows |-> rows[i][way] \div rows[i].dt]
        top == Percentile(rates, 99)
        near == SelectSeq(rates, LAMBDA rate : 100 * rate >= 95 * top)
    IN IF /\ Len(rates) >= Limit.ceiling_values
          /\ top >= Limit.ceiling
          /\ Len(near) >= Limit.plateau_readings
       THEN top ELSE 0

\* _capacity: of the plan, of a speed test, or a ceiling.
Capacity(rows, plan, test) ==
    IF plan.down > 0 \/ plan.up > 0 THEN plan
    ELSE IF test.down > 0 \/ test.up > 0 THEN test
    ELSE [down |-> Ceiling(rows, "down"), up |-> Ceiling(rows, "up")]

\* Whether traffic was near capacity, either way.
Full(row, capacity) ==
    \/ capacity.down > 0 /\ 10 * row.down >= 8 * capacity.down * row.dt
    \/ capacity.up > 0 /\ 10 * row.up >= 8 * capacity.up * row.dt

SlowPort(last) ==
    /\ last.medium = "ethernet"
    /\ \/ last.speed # Unmeasured /\ last.speed <= Limit.slow_speed
       \/ last.duplex = "half"

\* Segments sent again, errors of the port, pings lost on the way to the
\* router: any of them often enough, of late.
Lossy(rows, last) ==
    LET recent == SelectSeq(rows, LAMBDA row : row.ts >= last.ts - Limit.recent)
        segments == Total(recent, LAMBDA row : row.segments)
        resent == Total(recent, LAMBDA row : row.resent)
        losses == Values(recent, "lost")
    IN \/ segments >= Limit.segments /\ 1000 * resent >= 15 * segments
       \/ Total(recent, LAMBDA row : row.errors) >= Limit.errors
       \/ /\ Len(losses) >= Limit.losses
          /\ Total(losses, LAMBDA lost : lost) >= Len(losses)

\* assess, up to the words of the verdict.
Assess(samples, plan, test) ==
    LET rows == Intervals(samples)
        slow == Episodes(rows, "inet", Limit.inet_rise)
        router == Episodes(rows, "gw", Limit.gw_rise)
        capacity == Capacity(rows, plan, test)
        congested == Total(slow, LAMBDA row : row.dt)
        full == Total(SelectSeq(slow, LAMBDA row : Full(row, capacity)),
                      LAMBDA row : row.dt)
        shared == SelectSeq(slow, LAMBDA row :
                     \E i \in DOMAIN router : router[i].ts = row.ts)
        known == capacity.down > 0 \/ capacity.up > 0
    IN CASE samples # <<>> /\ SlowPort(Last(samples)) -> "link_slow"
         [] samples # <<>> /\ ~SlowPort(Last(samples))
              /\ Lossy(rows, Last(samples)) -> "lossy"
         [] OTHER ->
              IF congested >= Limit.episode THEN
                  IF /\ known
                     /\ 2 * full >= congested
                     /\ 2 * Len(shared) < Len(slow)
                  THEN "saturated" ELSE "congested"
              ELSE IF Total(rows, LAMBDA row : row.dt) < Limit.learning
              THEN "learning" ELSE "ok"
=============================================================================
