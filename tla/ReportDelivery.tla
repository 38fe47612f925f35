--------------------------- MODULE ReportDelivery ---------------------------
(***************************************************************************)
(* How a crash report gets from the boot analysis to the cloud.            *)
(*                                                                         *)
(* Separate processes share one SQLite database: analyses                  *)
(* (monitor.check_and_analyze: at boot, or by hand with --force) write     *)
(* report rows and push them once; heartbeats (main._heartbeat_and_        *)
(* backfill, started every minute) push whatever is still unpushed; the    *)
(* API and retention delete rows.  Each store.py function is one SQLite    *)
(* transaction, hence one step; between two of them any process may run,   *)
(* be killed, or lose its power.                                           *)
(*                                                                         *)
(* Report content is a version number, a new one each time an analysis     *)
(* produces new content.  Identifiers are numbered by age.                 *)
(***************************************************************************)
EXTENDS Naturals, FiniteSets

CONSTANTS
    Analyzer,           \* processes running check_and_analyze
    Heartbeat,          \* processes running the heartbeat command
    MaxBoots,           \* bound: boots of the machine
    KnownBoots,         \* boots whose boot ID can be read
    MaxRuns,            \* bound: analyses started, over all boots
    MaxPushRejections,  \* MAX_PUSH_REJECTIONS
    ListLimit           \* the limit of list_unpushed

Boot == 1..MaxBoots
Report == 1..MaxRuns
Proc == Analyzer \cup Heartbeat

ASSUME DeliveryAssumption ==
    /\ Analyzer \cap Heartbeat = {}
    /\ IsFiniteSet(Heartbeat)
    /\ MaxBoots \in Nat \ {0}
    /\ KnownBoots \subseteq Boot
    /\ MaxRuns \in Nat
    /\ MaxPushRejections \in Nat \ {0}
    /\ ListLimit \in Nat \ {0}

VARIABLES
    boot,          \* the boot the machine is in
    crashed,       \* did the previous boot end in a crash?
    bootReport,    \* report of this boot's ID once saved, 0 before
    lastAnalyzed,  \* meta last_analyzed_boot, 0 if never written
    issued,        \* identifiers given out so far
    runs,          \* analyses started so far
    row,           \* crash_reports; version 0 means there is no row
    made,          \* made[r]: versions of r produced so far
    received,      \* received[r]: versions of r that reached the cloud
    refusals,      \* refusals[r]: refusals by the cloud, counted up to
                   \* MaxPushRejections
    pc,            \* where each process is
    job,           \* the copy a process holds in memory and sends
    listed         \* what a heartbeat has still to send of its list

machineVars == <<boot, crashed>>
recordVars == <<bootReport, issued, runs, made>>
storeVars == <<row, lastAnalyzed>>
cloudVars == <<received, refusals>>
procVars == <<pc, job, listed>>
vars == <<boot, crashed, bootReport, lastAnalyzed, issued, runs, row, made,
          received, refusals, pc, job, listed>>

Row == [ver : Nat, pushed : BOOLEAN, rejections : Nat]
Copy == [id : Nat, ver : Nat]
NoRow == [ver |-> 0, pushed |-> FALSE, rejections |-> 0]
NoCopy == [id |-> 0, ver |-> 0]

PcState == {"idle", "detect", "forced", "analyze", "remember", "prune",
            "failed", "cycle", "refused", "posting", "accepted"}

Stored(r) == row[r].ver # 0

\* The WHERE clause of list_unpushed and count_unpushed.
Queued(r) ==
    /\ Stored(r)
    /\ ~row[r].pushed
    /\ row[r].rejections < MaxPushRejections

\* The WHERE clause of count_set_aside.
SetAside(r) ==
    /\ Stored(r)
    /\ ~row[r].pushed
    /\ row[r].rejections >= MaxPushRejections

Sent(r) == Stored(r) /\ row[r].pushed

\* Mutant: rows without their content.
ListUnpushedIds == {[id |-> r] : r \in {q \in Report : Queued(q)}}

\* Rows whose oldest-first rank is within the limit, with their content.
ListUnpushed ==
    LET queue == {r \in Report : Queued(r)}
        first == {r \in queue :
                    Cardinality({q \in queue : q < r}) < ListLimit}
    IN  {[id |-> r, ver |-> row[r].ver] : r \in first}

AlreadyAnalyzed == boot \in KnownBoots /\ lastAnalyzed = boot

\* set_meta("last_analyzed_boot"), skipped when the boot is unknown.
MarkBootAnalyzed ==
    lastAnalyzed' = IF boot \in KnownBoots THEN boot ELSE lastAnalyzed

\* p goes on to s.  What it holds in memory ends with the cycle or the run.
Goto(p, s) ==
    /\ pc' = [pc EXCEPT ![p] = s]
    /\ job' = IF s \in {"idle", "cycle"}
                THEN [job EXCEPT ![p] = NoCopy] ELSE job
    /\ listed' = IF s = "idle" THEN [listed EXCEPT ![p] = {}] ELSE listed

Init ==
    /\ boot = 1
    /\ crashed \in BOOLEAN
    /\ bootReport = 0
    /\ lastAnalyzed = 0
    /\ issued = 0
    /\ runs = 0
    /\ row = [r \in Report |-> NoRow]
    /\ made = [r \in Report |-> 0]
    /\ received = [r \in Report |-> {}]
    /\ refusals = [r \in Report |-> 0]
    /\ pc = [p \in Proc |-> "idle"]
    /\ job = [p \in Proc |-> NoCopy]
    /\ listed = [p \in Proc |-> {}]

-----------------------------------------------------------------------------
(* The analysis *)

\* Mutant: the boot is recorded as analysed before its report is saved.
StartAnalysisMarked(a, force) ==
    /\ pc[a] = "idle" /\ runs < MaxRuns /\ (force \/ ~AlreadyAnalyzed)
    /\ runs' = runs + 1
    /\ MarkBootAnalyzed
    /\ Goto(a, IF force THEN "forced" ELSE "detect")
    /\ UNCHANGED <<machineVars, bootReport, issued, made, row, cloudVars>>

\* It reads last_analyzed_boot first; the decision is not taken again.
StartAnalysis(a, force) ==
    /\ pc[a] = "idle"
    /\ runs < MaxRuns
    /\ force \/ ~AlreadyAnalyzed
    /\ runs' = runs + 1
    /\ Goto(a, IF force THEN "forced" ELSE "detect")
    /\ UNCHANGED <<machineVars, bootReport, issued, made, storeVars,
                   cloudVars>>

FindCleanShutdown(a) ==
    /\ pc[a] = "detect" /\ ~crashed
    /\ MarkBootAnalyzed
    /\ Goto(a, "idle")
    /\ UNCHANGED <<machineVars, recordVars, row, cloudVars>>

\* The identifier is the hash of the boot ID, or a random one when the boot
\* is unknown.  INSERT OR REPLACE names neither pushed nor push_rejections:
\* a replaced row starts again with both at their default.
SaveReport(a) ==
    /\ pc[a] = "forced" \/ (pc[a] = "detect" /\ crashed)
    /\ LET id == IF boot \in KnownBoots /\ bootReport # 0
                   THEN bootReport ELSE issued + 1
           ver == made[id] + 1
       IN  /\ id \in Report
           /\ issued' = IF id > issued THEN id ELSE issued
           /\ bootReport' = IF boot \in KnownBoots THEN id ELSE 0
           /\ made' = [made EXCEPT ![id] = ver]
           /\ row' = [row EXCEPT ![id] =
                        [ver |-> ver, pushed |-> FALSE, rejections |-> 0]]
           /\ job' = [job EXCEPT ![a] = [id |-> id, ver |-> ver]]
    /\ pc' = [pc EXCEPT ![a] = "analyze"]
    /\ UNCHANGED <<machineVars, runs, lastAnalyzed, cloudVars, listed>>

\* analyze_crash answered in time: update_analysis, which leaves pushed and
\* push_rejections alone and does nothing when the row is gone.
FinishAnalysis(a) ==
    /\ pc[a] = "analyze"
    /\ LET id == job[a].id
           ver == made[id] + 1
       IN  /\ made' = [made EXCEPT ![id] = ver]
           /\ job' = [job EXCEPT ![a].ver = ver]
           /\ row' = IF Stored(id) THEN [row EXCEPT ![id].ver = ver] ELSE row
    /\ pc' = [pc EXCEPT ![a] = "remember"]
    /\ UNCHANGED <<machineVars, bootReport, issued, runs, lastAnalyzed,
                   cloudVars, listed>>

\* It did not: the heuristic content stays.
TimeOutAnalysis(a) ==
    /\ pc[a] = "analyze"
    /\ Goto(a, "remember")
    /\ UNCHANGED <<machineVars, recordVars, storeVars, cloudVars>>

RememberBoot(a) ==
    /\ pc[a] = "remember"
    /\ MarkBootAnalyzed
    /\ Goto(a, "prune")
    /\ UNCHANGED <<machineVars, recordVars, row, cloudVars>>

\* cleanup_old_reports: every row up to some age, its own included when the
\* machine was off for longer than max_report_age_days.  Then the push.
PruneOldReports(a) ==
    /\ pc[a] = "prune"
    /\ \E newestOld \in 0..issued :
          row' = [r \in Report |-> IF r <= newestOld THEN NoRow ELSE row[r]]
    /\ Goto(a, "posting")
    /\ UNCHANGED <<machineVars, recordVars, lastAnalyzed, cloudVars>>

\* The push failed: "will retry on next heartbeat" has been logged.
EndAnalysis(a) ==
    /\ pc[a] = "failed"
    /\ Goto(a, "idle")
    /\ UNCHANGED <<machineVars, recordVars, storeVars, cloudVars>>

-----------------------------------------------------------------------------
(* The heartbeat's backfill *)

BeginCycle(h) ==
    /\ pc[h] = "idle"
    /\ listed' = [listed EXCEPT ![h] = ListUnpushed]
    /\ pc' = [pc EXCEPT ![h] = "cycle"]
    /\ UNCHANGED <<machineVars, recordVars, storeVars, cloudVars, job>>

PostNext(h) ==
    /\ pc[h] = "cycle"
    /\ \E c \in listed[h] :
          /\ \A d \in listed[h] : c.id <= d.id
          /\ job' = [job EXCEPT ![h] = c]
          /\ listed' = [listed EXCEPT ![h] = @ \ {c}]
    /\ pc' = [pc EXCEPT ![h] = "posting"]
    /\ UNCHANGED <<machineVars, recordVars, storeVars, cloudVars>>

EndCycle(h) ==
    /\ pc[h] = "cycle"
    /\ listed[h] = {}
    /\ Goto(h, "idle")
    /\ UNCHANGED <<machineVars, recordVars, storeVars, cloudVars>>

\* Mutant: a refusal ends the cycle and is not counted.
CountRefusalNot(h) ==
    /\ pc[h] = "refused"
    /\ Goto(h, "idle")
    /\ UNCHANGED <<machineVars, recordVars, storeVars, cloudVars>>

\* A 4xx about this report: mark_push_rejected, then on to the next one.
CountRefusal(h) ==
    /\ pc[h] = "refused"
    /\ LET id == job[h].id
       IN  row' = IF Stored(id)
                    THEN [row EXCEPT ![id].rejections = @ + 1] ELSE row
    /\ Goto(h, "cycle")
    /\ UNCHANGED <<machineVars, recordVars, lastAnalyzed, cloudVars>>

-----------------------------------------------------------------------------
(* Both: the request to agent_push_report and mark_pushed *)

\* Mutants: a failed request goes on to mark_pushed; any failure of a
\* heartbeat's request is counted as a refusal.
AfterFailureConfirm(p) == "accepted"
AfterFailureCount(p) == IF p \in Analyzer THEN "failed" ELSE "refused"

\* Where an analysis or a heartbeat goes when its request failed.
AfterFailure(p) == IF p \in Analyzer THEN "failed" ELSE "idle"

Accept(p) ==
    /\ pc[p] = "posting"
    /\ received' = [received EXCEPT ![job[p].id] = @ \cup {job[p].ver}]
    /\ Goto(p, "accepted")
    /\ UNCHANGED <<machineVars, recordVars, storeVars, refusals>>

\* Status 400..499 other than 401, 403, 404, 408 and 429.  The analysis
\* treats it like any other failure and counts nothing.
Refuse(p) ==
    /\ pc[p] = "posting"
    /\ refusals' = [refusals EXCEPT ![job[p].id] =
                        IF @ < MaxPushRejections THEN @ + 1 ELSE @]
    /\ Goto(p, IF p \in Heartbeat THEN "refused" ELSE AfterFailure(p))
    /\ UNCHANGED <<machineVars, recordVars, storeVars, received>>

\* A link failure, a timeout, a server error or one of the statuses above.
\* The copy may have reached the cloud.  A heartbeat drops its list.
NoAnswer(p) ==
    /\ pc[p] = "posting"
    /\ \E v \in {{}, {job[p].ver}} :
          received' = [received EXCEPT ![job[p].id] = @ \cup v]
    /\ Goto(p, AfterFailure(p))
    /\ UNCHANGED <<machineVars, recordVars, storeVars, refusals>>

\* Mutant: mark_pushed writes the row even when it is gone.
ConfirmPushUpsert(p) ==
    /\ pc[p] = "accepted"
    /\ row' = [row EXCEPT ![job[p].id] = [ver |-> job[p].ver, pushed |-> TRUE,
                                          rejections |-> 0]]
    /\ Goto(p, IF p \in Analyzer THEN "idle" ELSE "cycle")
    /\ UNCHANGED <<machineVars, recordVars, lastAnalyzed, cloudVars>>

\* mark_pushed, by identifier: whatever content the row holds by now.
ConfirmPush(p) ==
    /\ pc[p] = "accepted"
    /\ LET id == job[p].id
       IN  row' = IF Stored(id) THEN [row EXCEPT ![id].pushed = TRUE] ELSE row
    /\ Goto(p, IF p \in Analyzer THEN "idle" ELSE "cycle")
    /\ UNCHANGED <<machineVars, recordVars, lastAnalyzed, cloudVars>>

-----------------------------------------------------------------------------
(* The rest of the machine *)

\* DELETE /api/v1/reports/{id}
DeleteReport(r) ==
    /\ Stored(r)
    /\ row' = [row EXCEPT ![r] = NoRow]
    /\ UNCHANGED <<machineVars, recordVars, lastAnalyzed, cloudVars, procVars>>

\* A process dies: a signal, a unit timeout, an exception nothing catches
\* (a failed write to the database among them).
Kill(p) ==
    /\ pc[p] # "idle"
    /\ Goto(p, "idle")
    /\ UNCHANGED <<machineVars, recordVars, storeVars, cloudVars>>

\* The machine goes down, cleanly or not, and comes up again.
Reboot ==
    /\ boot < MaxBoots
    /\ boot' = boot + 1
    /\ crashed' \in BOOLEAN
    /\ bootReport' = 0
    /\ pc' = [p \in Proc |-> "idle"]
    /\ job' = [p \in Proc |-> NoCopy]
    /\ listed' = [p \in Proc |-> {}]
    /\ UNCHANGED <<issued, runs, made, storeVars, cloudVars>>

AnalysisStep(a) ==
    \/ \E force \in BOOLEAN : StartAnalysis(a, force)
    \/ FindCleanShutdown(a)
    \/ SaveReport(a)
    \/ FinishAnalysis(a)
    \/ TimeOutAnalysis(a)
    \/ RememberBoot(a)
    \/ PruneOldReports(a)
    \/ EndAnalysis(a)

BackfillStep(h) ==
    \/ BeginCycle(h)
    \/ PostNext(h)
    \/ EndCycle(h)
    \/ CountRefusal(h)

PushStep(p) == Accept(p) \/ Refuse(p) \/ NoAnswer(p) \/ ConfirmPush(p)

Next ==
    \/ \E a \in Analyzer : AnalysisStep(a)
    \/ \E h \in Heartbeat : BackfillStep(h)
    \/ \E p \in Proc : PushStep(p) \/ Kill(p)
    \/ \E r \in Report : DeleteReport(r)
    \/ Reboot

Spec == Init /\ [][Next]_vars

\* The timer starts a heartbeat every minute.  Not every cycle is killed at
\* the same place, and the cloud does not fail to answer for ever.
HeartbeatFairness(h) ==
    /\ WF_vars(BeginCycle(h) \/ EndCycle(h))
    /\ SF_vars(PostNext(h))
    /\ SF_vars(Accept(h) \/ Refuse(h))
    /\ SF_vars(ConfirmPush(h) \/ CountRefusal(h))

FairSpec == Spec /\ \A h \in Heartbeat : HeartbeatFairness(h)

-----------------------------------------------------------------------------
(* Properties *)

\* Types of the variables, and what each process state says of its copy.
TypeOK ==
    /\ boot \in Boot
    /\ crashed \in BOOLEAN
    /\ bootReport \in 0..MaxRuns
    /\ lastAnalyzed \in 0..MaxBoots
    /\ issued \in 0..MaxRuns
    /\ runs \in 0..MaxRuns
    /\ row \in [Report -> Row]
    /\ made \in [Report -> Nat]
    /\ received \in [Report -> SUBSET Nat]
    /\ refusals \in [Report -> 0..MaxPushRejections]
    /\ pc \in [Proc -> PcState]
    /\ job \in [Proc -> Copy]
    /\ listed \in [Proc -> SUBSET Copy]

\* No report is written off as delivered unless the cloud has received it:
\* a row marked pushed belongs to a report of which some version arrived
\* there, whichever process sent it and however often it was re-analysed,
\* deleted, saved again or interrupted in between.
PushedHasArrived ==
    \A r \in Report : Sent(r) => received[r] # {}

\* An outage never uses up a report's chances: a report is set aside only
\* after the cloud itself refused it MAX_PUSH_REJECTIONS times, however many
\* cycles failed for other reasons or were killed half-way.
SetAsideWasRefused ==
    \A r \in Report : SetAside(r) => refusals[r] >= MaxPushRejections

\* A crash is not forgotten because its analysis was interrupted: once this
\* boot is recorded as analysed, a crash before it has a report on record.
AnalyzedMeansSaved ==
    crashed /\ boot \in KnownBoots /\ lastAnalyzed = boot => bootReport # 0

\* The store implements the abstract outbox.
OutboxStatus ==
    [r \in Report |->
        CASE r > issued                  -> "new"
          [] r <= issued /\ Queued(r)    -> "queued"
          [] r <= issued /\ SetAside(r)  -> "aside"
          [] r <= issued /\ Sent(r)      -> "delivered"
          [] OTHER                       -> "gone"]

Arrived == {r \in Report : received[r] # {}}

Outbox == INSTANCE ReportOutbox WITH
    Patience <- MaxPushRejections,
    status <- OutboxStatus,
    arrived <- Arrived

\* Every step of the agent is a step of the outbox: a report leaves the queue
\* only confirmed after arrival, refused often enough, or removed, and comes
\* back only with new content.
ImplementsOutbox == Outbox!Spec

\* No report waits for ever, not even behind others the cloud refuses.
QueueDrains == \A r \in Report : Queued(r) ~> ~Queued(r)

=============================================================================
