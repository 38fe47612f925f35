--------------------------- MODULE FlightRecorder ---------------------------
(***************************************************************************)
(* Which processes grew in memory (flight_recorder.py).                    *)
(*                                                                         *)
(* A heartbeat stores a snapshot with the processes that use the most      *)
(* memory at that moment.  The summary of a window compares the latest     *)
(* snapshot with the first one that lists the same process, known by its   *)
(* number, start and program, since a number is given to another process   *)
(* once its own has ended.                                                 *)
(***************************************************************************)
EXTENDS Ordering, SequencesExt

CONSTANTS
    TopSize,    \* processes a snapshot lists
    MinGrowth,  \* growth that is reported, in MB
    MaxReported \* processes a summary reports

ASSUME FlightRecorderAssumption ==
    {TopSize, MinGrowth, MaxReported} \subseteq Nat

\* Mutant: a process is known by its number.
IdentityPid(row) == row.pid

\* The identity a row is given by _top_processes.
Identity(row) == <<row.pid, row.started, row.exe>>

\* _top_processes: the largest first, in the order of the process list when
\* equal.
TopProcesses(processes) ==
    LET larger(p, q) == \/ p.rss > q.rss
                        \/ p.rss = q.rss /\ p.pid < q.pid
        sorted == Sorted(processes, larger)
    IN SubSeq(sorted, 1, IF Len(sorted) < TopSize THEN Len(sorted) ELSE TopSize)

\* list_flight_snapshots: the snapshots of the window, none from the future.
Window(snapshots, now, hours) ==
    SelectSeq(snapshots, LAMBDA s : s.at >= now - hours /\ s.at <= now)

\* The earliest row with an identity in any snapshot of the window: in the
\* first snapshot that lists it, the first that has it.
Earliest(samples, identity) ==
    LET place(s) == SelectInSeq(s.top, LAMBDA row : Identity(row) = identity)
        sample == samples[SelectInSeq(samples, LAMBDA s : place(s) # 0)]
    IN sample.top[place(sample)]

\* summarize_window, process_memory_growth: the largest growth first.
MemoryGrowth(samples) ==
    LET grown(row) == [pid |-> row.pid, started |-> row.started, rss |-> row.rss,
                       growth |-> row.rss - Earliest(samples, Identity(row)).rss]
        found == {g \in {grown(row) : row \in ToSet(Last(samples).top)} :
                    g.growth > MinGrowth}
        more(g, h) == \/ g.growth > h.growth
                      \/ /\ g.growth = h.growth
                         /\ \/ g.rss > h.rss
                            \/ g.rss = h.rss /\ g.pid < h.pid
        sorted == Sorted(found, more)
    IN IF samples = <<>> THEN <<>>
       ELSE SubSeq(sorted, 1, IF Len(sorted) < MaxReported THEN Len(sorted)
                              ELSE MaxReported)
=============================================================================
