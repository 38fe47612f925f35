---------------------------- MODULE MCAnalyses ------------------------------
(* Logs, readings and answers for checking Analyses. *)
EXTENDS Analyses

\* A soft lockup's line names the watchdog's BUG; a panic names its trigger.
MCMatches ==
    [fault |-> {"oops", "BUG:"},
     panicked |-> {"panic", "hard_lockup"},
     stuck |-> {"soft_lockup", "BUG:"},
     lockup |-> {"hard_lockup"},
     corrected |-> {"edac"},
     hot |-> {"overheated"},
     disk |-> {"io_error"},
     burn |-> {"start", "gpu_load"},
     down |-> {"going_down"},
     stopped |-> {"journal_stopped"},
     work |-> {}]

MCLine == DOMAIN MCMatches

MCFacts ==
    {[disks |-> hw, warned |-> hw, endings |-> e, boots |-> 2,
      record |-> FALSE, down |-> "long", vendor |-> "nvidia"] :
        hw \in BOOLEAN, e \in {<<FALSE>>, <<FALSE, TRUE, FALSE>>}}

MCAnswer ==
    {[type |-> Null, severity |-> "high", alternatives |-> Null],
     [severity |-> Null],
     [severity |-> "low", confidence |-> 900,
      alternatives |-> <<[type |-> "unknown", confidence |-> 950]>>,
      timeline |-> <<>>]}

MCLimit ==
    [min_interval |-> 1, max_interval |-> 2, learning |-> 3, episode |-> 2,
     readings |-> 2, values |-> 3, ceiling_values |-> 4,
     plateau_readings |-> 2, ceiling |-> 1, factor |-> 3, inet_rise |-> 4,
     gw_rise |-> 2, recent |-> 4, segments |-> 1, errors |-> 2, losses |-> 3,
     slow_speed |-> 100]

MCSample ==
    [ts |-> 1, iface |-> "eth0", rx |-> 4, tx |-> 0, inet |-> 1, gw |-> 1,
     lost |-> 0, sent |-> Unmeasured, resent |-> 0, errs |-> 0,
     speed |-> 1000, duplex |-> "full", medium |-> "ethernet"]

\* Normal, slow, slow after a gap, slow after a restart, not measured,
\* with errors, and on a slow port.
MCReading ==
    {[reset |-> FALSE, sample |-> MCSample],
     [reset |-> FALSE, sample |-> [MCSample EXCEPT !.inet = 9]],
     [reset |-> FALSE, sample |-> [MCSample EXCEPT !.inet = 9, !.ts = 3]],
     [reset |-> TRUE, sample |-> [MCSample EXCEPT !.inet = 9, !.rx = 0]],
     [reset |-> FALSE, sample |-> [MCSample EXCEPT !.inet = Unmeasured]],
     [reset |-> FALSE, sample |-> [MCSample EXCEPT !.errs = 2]],
     [reset |-> FALSE, sample |-> [MCSample EXCEPT !.speed = 100]]}

\* Not known, or reached by every reading.
MCPlan == {[down |-> 0, up |-> 0], [down |-> 4, up |-> 0]}

\* The clock is set back once a section was counted.
MCCorrection == {-4}
=============================================================================
