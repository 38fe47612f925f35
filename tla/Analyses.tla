----------------------------- MODULE Analyses -------------------------------
(***************************************************************************)
(* The analyses of the agent at work, each on data that grows step by step *)
(* as it does on a machine: the log of a boot that ends and is reported,   *)
(* the readings of a connection, the processes of the flight recorder and  *)
(* the kernel's ring buffer.  They share nothing, so a behaviour follows   *)
(* one of them, its subject.                                               *)
(***************************************************************************)
EXTENDS CrashAnalysis, NetworkHealth, FlightRecorder, KernelAlerts

CONSTANTS
    Facts,         \* what the collectors say besides the logs
    Answer,        \* answers of the language model
    Reading,       \* what a reading of the connection may add
    Plan,          \* what is known of the plan's speed
    Ringed,        \* lines that only the kernel's or the driver's log has
    Ahead,         \* how far ahead of the clock a kernel stamp may be
    Pid,           \* process numbers
    DmesgInterval, \* _DMESG_SECTION_TTL_SECS
    MaxLines,      \* bound: log lines of a boot
    MaxReadings,   \* bound: readings of the connection
    MaxSnapshots,  \* bound: snapshots of the flight recorder
    MaxStarted,    \* bound: processes started
    MaxMemory,     \* bound: memory of a process
    Correction,    \* what the clock may be set back or forward by
    MaxKernel,     \* bound: lines in the ring buffer
    MaxClock       \* bound: the clock, and the time since the boot

\* A section is sent so seldom that a line which counted in two of them is
\* older than the window by the third.
ASSUME AnalysesAssumption ==
    /\ Ringed \subseteq Line
    /\ Pid \subseteq Nat
    /\ {DmesgInterval, MaxReadings, MaxSnapshots, MaxKernel, MaxClock}
          \subseteq Nat
    /\ MaxMemory \in Nat \ {0}
    /\ Ahead \subseteq Int /\ Correction \subseteq Int
    /\ AlertWindow + ClockSkew + CacheTtl < 2 * DmesgInterval

VARIABLES
    subject,    \* the analysis this behaviour follows
    telemetry,  \* what is collected about the previous boot
    detection,  \* what was detected, if it was
    report,     \* the report's analysis, if there is one
    stored,     \* type and severity in the report's row
    outcome,    \* what became of the analysis of the boot that ended
    samples,    \* the readings of the connection
    verdict,    \* what was last said of the connection
    processes,  \* the running processes
    started,    \* how many were started
    snapshots,  \* the stored snapshots
    clock,      \* the time, for the kernel's lines
    uptime,     \* and the time since the boot
    ring,       \* the kernel's lines
    cache,      \* live_dmesg.json, if it was written
    sent,       \* when the dmesg section was last sent, if it was
    raised      \* which lines were counted, with which stamp and in the section
                \* sent when, since the clock was last corrected

crashVars == <<telemetry, detection, report, stored, outcome>>
networkVars == <<samples, verdict>>
memoryVars == <<processes, started, snapshots>>
alertVars == <<clock, uptime, ring, cache, sent, raised>>
vars == <<subject, crashVars, networkVars, memoryVars, alertVars>>

\* Collected before anything is known of the boot's end.
Running == [journal |-> <<>>, dmesg |-> <<>>, xids |-> <<>>]

Init ==
    /\ subject \in {"crash", "network", "memory", "alerts"}
    /\ telemetry = Running
    /\ detection = {}
    /\ report = {}
    /\ stored = {}
    /\ outcome = "none"
    /\ samples = <<>>
    /\ verdict = "learning"
    /\ processes = {}
    /\ started = 0
    /\ snapshots = <<>>
    /\ clock = 0
    /\ uptime = 0
    /\ ring = <<>>
    /\ cache = {}
    /\ sent = {}
    /\ raised = {}

-----------------------------------------------------------------------------
(* A boot, its log and its report. *)

CrashOnly ==
    /\ subject = "crash"
    /\ UNCHANGED <<subject, networkVars, memoryVars, alertVars>>

Logged == Len(telemetry.journal) + Len(telemetry.dmesg) + Len(telemetry.xids)

\* The boot writes a line some time after the one before it.
LogLine(line, gap) ==
    LET log == telemetry.journal
        now == IF log = <<>> THEN 0 ELSE Last(log).at
    IN /\ CrashOnly
       /\ detection = {} /\ Logged < MaxLines
       /\ telemetry' = [telemetry EXCEPT
                          !.journal = Append(log, [line |-> line, at |-> now + gap])]
       /\ UNCHANGED <<detection, report, stored, outcome>>

\* A line that only the kernel's ring buffer or the driver's log has.
KernelLine(line, collector) ==
    /\ CrashOnly
    /\ detection = {} /\ Logged < MaxLines
    /\ telemetry' = [telemetry EXCEPT
                       ![collector] = Append(@, [line |-> line, at |-> NoStamp])]
    /\ UNCHANGED <<detection, report, stored, outcome>>

\* The boot ends and the next one detects how; a report is saved, of a clean
\* shutdown only when one was asked for.
DetectCrash(facts) ==
    LET t == [f \in DOMAIN telemetry \cup DOMAIN facts |->
                IF f \in DOMAIN telemetry THEN telemetry[f] ELSE facts[f]]
    IN /\ CrashOnly
       /\ detection = {}
       /\ telemetry' = t
       /\ detection' = {Detect(t)}
       /\ \E d \in detection' :
             \E saved \in {{d}} \cup {x \in {{}} : d.type = "clean_shutdown"} :
                /\ report' = {Preliminary(t, x) : x \in saved}
                /\ stored' = {[type |-> x.type, severity |-> x.severity] : x \in saved}
       /\ UNCHANGED outcome

\* The report is completed with what analyze_crash returned; the row's type
\* stays the one detected.  The row's severity must be a text: SQLite refuses
\* anything else, and the exception ends the analysis of the boot.
Complete(result) ==
    /\ CrashOnly
    /\ report # {} /\ outcome = "none"
    /\ IF result.severity = Null
         THEN outcome' = "aborted" /\ UNCHANGED <<report, stored>>
         ELSE /\ outcome' = "noted"
              /\ report' = {Updated(r, result) : r \in report}
              /\ stored' = {[row EXCEPT !.severity = result.severity] : row \in stored}
    /\ UNCHANGED <<telemetry, detection>>

\* The model takes longer than analysis_timeout: the report stays as saved.
TimeOut ==
    /\ CrashOnly
    /\ report # {} /\ outcome = "none"
    /\ outcome' = "noted"
    /\ UNCHANGED <<telemetry, detection, report, stored>>

\* There is no key, or the model fails.
UseHeuristics(error) ==
    \E d \in detection : Complete(HeuristicResult(d, error))

UseAnswer(answer) ==
    \E d \in detection : Complete(ModelResult(d, answer))

-----------------------------------------------------------------------------
(* The connection. *)

\* A reading is stored and all are assessed; the counters go on from the last
\* one, or from 0.
TakeReading(r, plan) ==
    LET last == Last(samples)
        base == IF samples = <<>> \/ r.reset THEN 0 ELSE last.rx
    IN /\ subject = "network"
       /\ Len(samples) < MaxReadings
       /\ samples' = Append(samples,
            [r.sample EXCEPT
               !.ts = @ + (IF samples = <<>> THEN 0 ELSE last.ts),
               !.rx = @ + base])
       /\ verdict' = Assess(samples', plan, [down |-> 0, up |-> 0])
       /\ UNCHANGED <<subject, crashVars, memoryVars, alertVars>>

-----------------------------------------------------------------------------
(* The processes. *)

MemoryOnly ==
    /\ subject = "memory"
    /\ UNCHANGED <<subject, crashVars, networkVars, alertVars>>

\* A process starts, with a number no running process has.
StartProcess(pid) ==
    /\ MemoryOnly
    /\ started < MaxStarted
    /\ \A p \in processes : p.pid # pid
    /\ processes' = processes \cup
          {[pid |-> pid, started |-> started, exe |-> "exe", rss |-> 1]}
    /\ started' = started + 1
    /\ UNCHANGED snapshots

EndProcess(p) ==
    /\ MemoryOnly
    /\ processes' = processes \ {p}
    /\ UNCHANGED <<started, snapshots>>

\* A process comes to use more or less memory.
Resize(p, rss) ==
    /\ MemoryOnly
    /\ processes' = (processes \ {p}) \cup {[p EXCEPT !.rss = rss]}
    /\ UNCHANGED <<started, snapshots>>

\* record_snapshot.
RecordSnapshot ==
    /\ MemoryOnly
    /\ Len(snapshots) < MaxSnapshots
    /\ snapshots' = Append(snapshots, [at |-> Len(snapshots),
                                       top |-> TopProcesses(processes)])
    /\ UNCHANGED <<processes, started>>

-----------------------------------------------------------------------------
(* The kernel's lines. *)

AlertsOnly ==
    /\ subject = "alerts"
    /\ UNCHANGED <<subject, crashVars, networkVars, memoryVars>>

\* The kernel logs a critical line.  The date dmesg gives it may be ahead of
\* the clock; a kernel may also put no time on its lines.
KernelLogs(ahead, stamped) ==
    /\ AlertsOnly
    /\ Len(ring) < MaxKernel
    /\ ring' = Append(ring,
         [id |-> Len(ring) + 1, critical |-> TRUE,
          date |-> IF stamped THEN clock + ahead ELSE Unread,
          up |-> IF stamped THEN uptime ELSE Unread])
    /\ UNCHANGED <<clock, uptime, cache, sent, raised>>

Pass ==
    /\ AlertsOnly
    /\ clock < MaxClock /\ uptime < MaxClock
    /\ clock' = clock + 1 /\ uptime' = uptime + 1
    /\ UNCHANGED <<ring, cache, sent, raised>>

\* The clock is corrected, back or forward.
SetClock(by) ==
    /\ AlertsOnly
    /\ clock + by \in 0..MaxClock
    /\ clock' = clock + by
    /\ raised' = {}
    /\ UNCHANGED <<uptime, ring, cache, sent>>

\* _section_due.
Due == \A time \in sent : ~Fresh(time, DmesgInterval, clock)

\* A heartbeat with live metrics collects the section and includes it when
\* it is due.  dmesg may fail to run, in either form.
LiveBeat(iso, plain) ==
    LET dated == {Dated(line) : line \in ToSet(ring)}
        since == {SinceBoot(line, clock - uptime) : line \in ToSet(ring)}
        fresh == Cached(cache, clock)
        section == IF fresh # {} THEN (CHOOSE c \in fresh : TRUE).section
                   ELSE Section([ok |-> iso, lines |-> dated],
                                [ok |-> plain, lines |-> since], clock)
    IN /\ AlertsOnly
       /\ cache' = IF fresh # {} THEN cache
                   ELSE {[at |-> clock, section |-> section]}
       /\ sent' = IF Due THEN {clock} ELSE sent
       /\ raised' = raised \cup
             {[id |-> line.id, at |-> line.at, sent |-> clock] :
                 line \in {counted \in section.counted : Due}}
       /\ UNCHANGED <<clock, uptime, ring>>

Next ==
    \/ \E line \in Line, gap \in 1..2 : LogLine(line, gap)
    \/ \E line \in Ringed, collector \in {"dmesg", "xids"} :
          KernelLine(line, collector)
    \/ \E facts \in Facts : DetectCrash(facts)
    \/ \E error \in Failure \cup {"none"} : UseHeuristics(error)
    \/ \E answer \in Answer : UseAnswer(answer)
    \/ TimeOut
    \/ \E r \in Reading, plan \in Plan : TakeReading(r, plan)
    \/ \E pid \in Pid : StartProcess(pid)
    \/ \E p \in processes : EndProcess(p)
    \/ \E p \in processes, rss \in 1..MaxMemory : Resize(p, rss)
    \/ RecordSnapshot
    \/ \E ahead \in Ahead, stamped \in BOOLEAN : KernelLogs(ahead, stamped)
    \/ Pass
    \/ \E by \in Correction : SetClock(by)
    \/ \E iso, plain \in BOOLEAN : LiveBeat(iso, plain)

Spec == Init /\ [][Next]_vars

-----------------------------------------------------------------------------
(* Properties. *)

Confident == 0..950

\* The values each analysis works on and produces.
TypeOK ==
    /\ subject \in {"crash", "network", "memory", "alerts"}
    /\ \A d \in detection :
          /\ d.type \in CrashType
          /\ d.severity \in DOMAIN Rank
          /\ d.confidence \in Confident
          /\ Len(d.sources) = Len(d.evidence)
          /\ d.evidence # <<>>
    /\ Cardinality(report) <= 1 /\ Cardinality(detection) <= 1
    /\ \A row \in stored : row.type \in CrashType
    /\ outcome \in {"none", "noted", "aborted"}
    /\ Len(samples) <= MaxReadings
    /\ verdict \in {"learning", "ok", "link_slow", "lossy", "congested",
                    "saturated"}
    /\ \A p \in processes : p.rss \in 1..MaxMemory /\ p.pid \in Pid
    /\ Len(snapshots) <= MaxSnapshots
    /\ \A i \in DOMAIN snapshots : Len(snapshots[i].top) <= TopSize
    /\ clock \in 0..MaxClock /\ uptime \in 0..MaxClock
    /\ Len(ring) <= MaxKernel
    /\ \A x \in raised : x.id \in 1..MaxKernel /\ x.sent \in 0..MaxClock

\* A boot with a line of kernel panic evidence is never reported as a normal
\* shutdown, however its log ends, and the panic is the detection or one of
\* its alternatives ("a real panic whose corpus also happens to contain a
\* shutdown-target line", crash_detector.py:303).
\* Mutant: PanicMarkersLast.
PanicIsReported ==
    \A d \in detection :
        (\E e \in ToSet(Corpus(telemetry)) : Says(e, {"panic", "oops"}))
          => \/ d.type = "kernel_panic"
             \/ \E i \in DOMAIN d.alternatives :
                   d.alternatives[i].type = "kernel_panic"

\* The detected type has the most evidence of its own, not counting the line
\* of a panic for what triggered it: another has more only where five lines
\* or the hardware's own signal settle it, and a more severe one has less.
\* Mutant: OwnHitsAll.
WinnerHasMostEvidence ==
    LET own(rule) == {e \in ToSet(Corpus(telemetry)) :
                        /\ Says(e, ToSet(rule.patterns))
                        /\ rule.type = "kernel_panic" \/ ~Says(e, {"panic"})}
        count(rule) == Cardinality(own(rule))
    IN \A d \in detection, i \in DOMAIN Rules, j \in DOMAIN Rules :
          (d.type = Rules[i].type /\ j # i) =>
             \/ d.type = "disk_error" /\ telemetry.disks
             \/ d.type = "thermal_shutdown" /\ telemetry.warned
             \/ count(Rules[i]) >= 5
             \/ /\ count(Rules[i]) >= count(Rules[j])
                /\ Rules[j].severity = "critical" /\ Rules[i].severity = "high"
                      => count(Rules[i]) > count(Rules[j])

\* What a report says of a sudden stop is of one piece: the heavy job in the
\* description, in the cause, in the first step and in the confidence are
\* the same job, and so is the repetition.
\* Mutant: SuspectsAny.
SuddenStopAgrees ==
    \A d \in detection, r \in report :
        (d.abrupt # {} /\ ~r.ai /\ "cause" \in DOMAIN r) =>
            LET says(what) == \E i \in DOMAIN d.evidence : d.evidence[i] = what
            IN /\ says("heavy_job") <=> "heavy_job" \in r.cause
               /\ says("heavy_job") <=>
                     Head(r.steps) \in {"cap_the_GPU", "less_load_at_once"}
               /\ says("not_the_first_time") <=> "not_the_first_time" \in r.cause
               /\ r.confidence = 550 <=>
                     ~says("heavy_job") /\ ~says("not_the_first_time")

\* The analysis of a report is complete, not only what was saved at once.
Completed(r) == "alternatives" \in DOMAIN r

\* Whatever becomes of the model, the report's row keeps the detected type and
\* has a severity, the one in the analysis.  A completed analysis has a list of
\* alternatives; one the model did not write keeps the severity and the
\* confidence of the detection and offers no alternative above it; one that
\* was not completed still says what was detected.
\* Mutant: FilledIfAbsent.
ReportIsUsable ==
    \A d \in detection, r \in report, row \in stored :
        /\ row.type = d.type /\ row.severity # Null
        /\ Completed(r) => r.alternatives # Null /\ r.severity = row.severity
        /\ Completed(r) /\ ~r.ai =>
              /\ <<r.type, r.severity, r.confidence>>
                    = <<d.type, d.severity, d.confidence>>
              /\ \A i \in DOMAIN r.alternatives :
                    r.alternatives[i].confidence <= d.confidence
        /\ ~Completed(r) =>
              /\ row.severity = d.severity
              /\ r.heuristic.type = d.type /\ r.heuristic.confidence = d.confidence

\* No answer of the model ends the analysis of a boot before it is noted and
\* the report pushed (ai_analyzer.py:198, "Ensure required fields exist").  A
\* severity given as null does.
AnswersAreNoted == outcome # "aborted"

\* Readings a to b are slow, each at most the longest interval after the one
\* before it.
SlowFrom(rows, a, b) ==
    LET threshold == Threshold(rows, "inet", Limit.inet_rise)
    IN /\ \A i \in a..b : Slow(rows[i], "inet", threshold)
       /\ \A i \in a + 1..b : rows[i].ts - rows[i - 1].ts <= Limit.max_interval

\* The readings that belong to a slowdown of enough readings.
Sustaining(rows) ==
    {i \in DOMAIN rows :
        \E a \in 1..i, b \in i..Len(rows) :
           b - a + 1 >= Limit.readings /\ SlowFrom(rows, a, b)}

\* A slowdown is found where, and only where, enough readings in a row were
\* slow, each at most the longest interval after the reading before it; and a
\* connection is blamed for slowness only when such slowdowns last long enough
\* taken together.  The code adds them up: it does not ask each of them to last
\* so long, as its comment has it (network_health.py:35).
\* Mutant: EpisodesEnded.
SlowdownsAreSustained ==
    LET rows == Intervals(samples)
        found == Episodes(rows, "inet", Limit.inet_rise)
    IN /\ ToSet(found) = {rows[i] : i \in Sustaining(rows)}
       /\ \A i \in DOMAIN rows : rows[i].dt <= Limit.max_interval
       /\ verdict \in {"congested", "saturated"} =>
             /\ Sustaining(rows) # {}
             /\ Total(found, LAMBDA row : row.dt) >= Limit.episode

\* The growth of a process is its own: it is measured from the first snapshot
\* that lists this very process, even when its number was another's before.
\* Mutant: IdentityPid.
GrowthIsOwn ==
    LET listed(i, g) == {row \in ToSet(snapshots[i].top) :
                           row.pid = g.pid /\ row.started = g.started}
    IN \A g \in ToSet(MemoryGrowth(snapshots)) :
          \E i \in DOMAIN snapshots :
             /\ \E row \in listed(i, g) : row.rss = g.rss - g.growth
             /\ \A k \in 1..i - 1 : listed(k, g) = {}

\* A kernel line raises an alert by the same stamp in two sections at most until
\* the clock is corrected, although it stays in the ring buffer and the stamp may
\* be ahead of the clock.  (The other form of dmesg, and a correction, may give
\* it another stamp.  A line without any counts as long as no line has one, as
\* _recent_critical says.)
\* Mutant: RecentAhead.
RaisedAtMostTwice ==
    \A x, y, z \in raised :
        /\ x.at # Unread
        /\ <<x.id, x.at>> = <<y.id, y.at>> /\ <<x.id, x.at>> = <<z.id, z.at>>
        => Cardinality({x.sent, y.sent, z.sent}) <= 2

=============================================================================
