# A TLA+ model of the CrashPilot agent

TLA+ modules, TLC configurations and TLAPS proofs about the CrashPilot agent:
the program that finds out, after a boot, whether the last one ended in a
crash, reports it to a dashboard, and otherwise sends a heartbeat every minute.
Paths below are relative to the repository; `agent/crashpilot/` is left out of
Python paths. `PROJECT.json` maps every definition to the lines it models.

Contents: 1 the system, 2 the hazards, 3 the modules, 4 the runs, 5 fairness,
6 the proofs, 7 what the code does otherwise than it says, 8 what is not
modelled, 9 the plan.

    tlc -workers 2 -config ReportDelivery.cfg ReportDelivery.tla
    tlapm ReportDelivery_proofs.tla

## 1. The system

### 1.1 Processes

The agent is not one process. What runs on a machine at the same time, as
separate processes that share one SQLite database (`crashpilot.db`), one `.env`
file and a few JSON files:

| process | started by | does |
|---|---|---|
| boot analysis | `crashpilot.service` (at boot), `analyze` by hand | `monitor.check_and_analyze` |
| heartbeat | `crashpilot-heartbeat.timer`, 60 s | `main.heartbeat`: identity check, enrollment, network sample, heartbeat; once that is accepted, backfill of reports and flush of webhooks |
| update | `crashpilot-update.timer`, hourly, or a request from the dashboard | `updater`, then a heartbeat (`ExecStartPost`) |
| snapshot | its timer | `flight_recorder.record_snapshot` |
| API server | its service | reads, and deletes reports |
| sign-off | `crashpilot-signoff.service` when the machine stops | `enrollment.sign_off` |
| commands by hand | an operator | `enroll`, `configure`, `analyze --force`, `doctor`, ... |
| container | a container runtime | `docker/entrypoint.sh`: a shell with a loop of snapshot and heartbeat beside the main process |

No two of these exclude each other, except that systemd runs each unit once.
The only locks are SQLite's, for the length of one transaction. Each function
of `storage/store.py` opens a connection, runs one transaction and closes it,
so in the models it is one step. Everything else that reads and then writes is
two steps, and everything that waits (for the cloud, an AI provider, a ping)
lies between two steps.

### 1.2 Components

For each: its state; its operations; whom it deals with; what is hard about it;
what makes it correct.

**Crash report delivery** (`monitor.py`, `storage/store.py`,
`cloud_push.push_report`, the backfill in `main.heartbeat`, `DELETE` in
`api/server.py`). State: rows of `crash_reports` with the columns `pushed` and
`push_rejections`, `meta.last_analyzed_boot`. Operations: save, update after
the AI step, note the boot, prune, push and mark, list what is unpushed, count
a refusal, delete. Analyses and heartbeats act on the same rows, each with a
copy it read earlier; the cloud may accept, refuse or not answer, or accept and
not be heard. Correct: a report that counts as pushed has arrived; one that is
set aside was refused often enough; a boot noted as analysed has its report;
every queued report leaves the queue.

**Enrollment and machine identity** (`enrollment.py`, `main.heartbeat`,
`main.enroll`, `config.py`). State: credentials and pinned identity in `.env`,
the files `reenroll-attempt` (cooldown), `retired` and `identity-check`, and in
the cloud one system per identity with one valid token. Operations: detect the
identity, compare it with the pinned one once per boot, enroll, store, send,
react to a rejection, note a retirement. Hard: a disk image carries all of the
state to another machine; two processes enroll at once and each enrollment
replaces the other's token; an answer is lost after the cloud acted; identity
sources that do not answer. Correct: a machine never acts as another one; one
without working credentials gets some in the end.

**Webhook notifications** (`notifications.py`, table `webhook_deliveries`).
State: a row per delivery with attempts, `next_attempt_at`, `delivered_at`.
Operations: queue, list what is due, send, mark delivered or failed. Flushes
overlap and write back counts from copies. Correct: what is recorded as
delivered was received; what is given up was tried eight times; every delivery
ends one way or the other.

**Container entrypoint and sign-off** (`docker/entrypoint.sh`,
`main.sign_off_command`). State: a shell's variables, three child processes,
traps. Signals arrive between any two commands, processes end by themselves,
the runtime kills what is left. Correct: loop, sign-off and main process end in
that order; no heartbeat after the sign-off; the exit status is the main
process's.

**Network usage and samples** (`store.save_network_sample`,
`net_health.take_sample`, `cloud_push.record_network_sample`). State: tables
`network_samples` and `network_usage` (a row per month with a total and the
last reading). Counters start over, interfaces come and go, the clock is
corrected, heartbeats overlap. Correct: no byte is counted twice.

**Heartbeat payload and egress budget** (`cloud_push.py`). State: JSON files
for the bytes sent today, the time each section was last sent, the speed test
and the counters; `meta.maintenance_until` and
`meta.agent_update_requested_at`. Operations: choose normal, slim or minimal
mode, build the payload, post, poll the status, start an update, count what was
sent. Read-modify-write without a lock, sections marked as sent before they are
posted, answers applied out of order. Correct: nothing is throttled before the
budget is used and no more than a bounded excess is sent after; a section that
failed to arrive is not held back for longer than its interval; the maintenance
window the dashboard keeps is stored in the end.

**Updater** (`updater.py`, `crashpilot-update.*`). State: the installed
package, the systemd units, the file with the checksum. Operations: download,
verify, install, refresh units, clear the egress count, write the checksum.
Hard: a crash or a failure between any two of them; the run that installs a
version has the list of units of the one before; an operator's choices.
Correct: what counts as installed is; the newest version arrives with all of
its units; a sign-off that was disabled stays so.

**Store setup** (`store.init_db`). Schema, WAL mode and added columns, run by
every process at start under SQLite's lock, with retries. Correct: two first
starts both succeed.

**Local API server** (`api/server.py`). State: the token file. Deleting a
report is part of the report delivery; the other endpoints read. Two first
starts create the token file together.

**Crash detection and diagnosis** (`analyzers/crash_detector.py`,
`abrupt_end.py`, `timeline.py`, `forensic_snapshot.py`, `evidence_extract.py`,
`heuristic_advice.py`, `shutdown_markers.py`). No state: from the collected
logs, rules pick a type with its evidence and the runners-up; a log that just
stops is looked at for what started before; advice follows from the type. Hard:
logs in which a panic and a shutdown, or a fault and the panic it caused, both
appear; the same question answered in three places. Correct: a panic is never a
normal shutdown; the type has the most evidence of its own; description, cause
and advice agree.

**AI analysis** (`ai_analyzer.py`). A prompt and a provider's answer, which may
lack fields, give null or not come. What it returns is laid over the saved
report. Correct: the report stays usable.

**Network health** (`analyzers/network_health.py`). From the stored samples a
verdict. Hard: gaps, restarted counters and unmeasured readings between slow
ones. Correct: what is called a slowdown was one.

**Redaction** (`redaction.py`): regular expressions over text.

**Collectors and flight recorder** (`collectors/*`, `flight_recorder.py`, the
kernel's lines in `cloud_push.py`). Collectors read logs, `/proc` and command
output. State: a ring of snapshots, and a cached reading of the kernel's ring
buffer. Hard: process numbers and kernel stamps that do not mean what they
seem to. Correct: growth is one process's; an alert stops being raised.

**Configuration** (`config.py`), **CLI support commands** (`doctor`,
`support-bundle`, `status`, `token`), **installers, units and packages**
(`install.sh`, `systemd/`, `k8s/`, `packaging/`).

### 1.3 Who changes what

| shared state | written by | read by |
|---|---|---|
| `crash_reports` | analysis, backfill of heartbeats, API (delete) | the same |
| `meta.last_analyzed_boot` | analysis | analysis |
| `meta.maintenance_until` | heartbeats | analysis, before it queues a webhook |
| `webhook_deliveries` | analysis, heartbeats | the same |
| `network_usage`, `network_samples` | heartbeats | heartbeats |
| `.env`, `reenroll-attempt`, `retired`, `identity-check` | heartbeats, `enroll`, `configure` | all |
| egress tracker, section times | heartbeats, analysis (push), updater (clears) | heartbeats |
| `meta.agent_update_requested_at` | heartbeats | heartbeats |

## 2. Hazards

`PROJECT.json` lists them with their lines and the properties that would catch
them. They are of six kinds: copies that are old by the time they are written
back (pushed marks, webhook counts, readings, JSON files); a kill or reboot
between two transactions; an answer that is lost, late or refused; state that
outlives what it is about (a disk image, a process number, a kernel line, a
clock that was corrected); the order of a shutdown; and conclusions drawn from
evidence that says two things at once. Those without a property have a note:
they belong to modules of the plan, or the code does what it should not
(section 7).

## 3. The modules

    ReportOutbox      what the delivery of reports promises
    ReportDelivery    the database, analyses, heartbeats and the cloud; implements ReportOutbox
    Enrollment        machines, their files and processes, the cloud's systems and tokens
    WebhookQueue      the table of deliveries, flushes and the receiver
    Entrypoint        the container's shell, its children and the runtime
    NetworkUsage      readings, the monthly count and the kernel's counters
    Heartbeat         what senders send, count and mark over shared files
    AgentVersion      what updates promise of the version on a machine
    Updater           a run of the updater, the units, the published bundles; implements AgentVersion
    Ordering          operators: sorting and filtering, as list.sort and comprehensions do
    CrashDetector     operators: how the previous boot ended
    CrashAnalysis     operators: advice, the model's answer, the report (extends CrashDetector)
    NetworkHealth     operators: the verdict on a connection
    FlightRecorder    operators: the growth of processes
    KernelAlerts      operators: the kernel lines that count
    Analyses          the data those operators work on, growing step by step (extends them)
    MC*               months, intervals, units, logs and readings for TLC
    *_proofs          the theorems about each

### ReportOutbox, ReportDelivery

`ReportOutbox` is the abstract promise: a report is new, queued, delivered, set
aside or gone. It leaves the queue only by being confirmed after it arrived,
given up after `Patience` refusals, or removed, and comes back only with new
content. It knows no processes, copies or boots.

`ReportDelivery` has one process state per place where the code can be
interrupted. `job[p]` is the copy of a report that a process holds, `listed[h]`
the rest of a heartbeat's list; neither is ever refreshed, as in the code.

| code | model |
|---|---|
| `check_and_analyze`, up to the detector's verdict | `StartAnalysis`, `FindCleanShutdown` |
| `save_report` with the heuristic result | `SaveReport` |
| the AI step, with its timeout | `FinishAnalysis`, `TimeOutAnalysis` |
| `set_meta("last_analyzed_boot")` | `RememberBoot` |
| `cleanup_old_reports` | `PruneOldReports` |
| the analysis's push | `Accept`/`Refuse`/`NoAnswer`, `ConfirmPush`, `EndAnalysis` |
| `_heartbeat_and_backfill` | `BeginCycle`, `PostNext`, the push, `CountRefusal`, `EndCycle` |
| `DELETE /api/v1/reports/{id}` | `DeleteReport` |
| signals, unit timeouts, exceptions; power | `Kill`, `Reboot` |

`NoAnswer` leaves open whether the report arrived. A report's content is a
version number; `made` and `received` (which versions exist, which arrived) and
`refusals` are the model's own bookkeeping for the properties, and nothing in
the agent reads them.

### Enrollment

A machine detects its own name as its identity. Its `.env` is one record, the
cloud keeps `systems` and `retired`. Of a token only matters whether it is the
newest of its system, so tokens are "valid" or "stale", and enrolling makes all
older ones stale, wherever they are held. `StartCopy(m, n)` starts machine `n`
from `m`'s image, with all of its files. `UseCheck` and `AskSource` are
`copied_identity`; `NotAllowed`, `Allowed` and `NoteAttempt` are
`_auto_enroll` and `reenroll_allowed`, the reading and the writing of the
cooldown being two steps as in the code; `Enrolled`, `EnrolledUnheard`,
`EnrollFailed` and `ToldRetired` are the cloud's answers; `Store` writes the
credentials; `Accepted`, `Rejected`, `Unreached`, `ClearMarker` end the
heartbeat. Retiring and restoring happen in the dashboard. Every machine runs
the timer's heartbeat, those of `Paired` the update unit's too, and those of
`Imaged` may have the disk of another one.

Abstractions: storing the credentials and reading them back is one step, and so
is `.env` as a whole. The 600 s of the cooldown and the minute of the timer are
not measured: a cooldown ends at some time at which no enrollment that it
allowed is still under way (an enrollment gives up after 300 s). `EnrollFailed`
stands for a refusal and for that deadline.

### WebhookQueue

`stored`, `delivered` and `attempts` are the table, `due` the order in which
`next_attempt_at` passes: time is not measured. A heartbeat gets to its flush
(`StartFlush`) only when push mode is configured (`main.py:781-790` ends without
it) and the dashboard has accepted the heartbeat (`main.py:801` raises):
`accepting`, which `SwitchDashboard` changes at any time. A flush lists (`ListDue`, with
the limit), sends (`Deliver`, `SendFails`; `MarkFails` when the receiver took
it but the database did not take the mark), and writes back from its copy
(`MarkDelivered`, `MarkFailed`). An analysis first queues a delivery.

### Entrypoint

`sh` is the line of the script the shell is at, `back` the line at which the
handler interrupted it, `pending` a signal that bash has noted but not handled.
A trap runs between two commands and cuts a `wait` short (`Stop`). A signal
that has no trap kills an ordinary process and is ignored by process 1, hence
`namespace`: both of the deployments in the repository use the host's. The loop
has its own trap and ends between its commands or from its nap (`LoopTo`,
`CutNap`). `Beat` is a heartbeat's arrival at the dashboard, any number of
times while its command runs. `KillAll` is the runtime at the end of the grace
period, or once the shell is gone. TERM stands for INT, too.

### NetworkUsage

One counter stands for received and sent bytes, one number for the sum over the
months, because both are treated alike and the month only chooses the row.
`Read` notes counter, interface and time; `Save` is the transaction; between
the two lie the ping and the connection test. `at` in a reading says how much
had been moved by then: bookkeeping for the proof. `SetClock` moves the clock
to any time, forward or back.

### Heartbeat

A sender is a process that runs `push_heartbeat` or `push_report`; two of them
overlap in the runs (the timer's unit and the update unit's `ExecStartPost`).
The three files that matter are `tracker` (the bytes of the day), `marks` (when
each section was last sent, kept as an age that stops at the interval, where it
is due) and `window` (`maintenance_until` in the database).

| code | model |
|---|---|
| `push_heartbeat`, up to the choice of the payload | `Begin` |
| `_build_live_metrics`, collecting and then marking what is due | `Collect`, `SaveMarks` |
| the POST: accepted; accepted, but its answer lost, late or never read; failed or refused | `Posted`, `AnswerLost`, `PostFails` |
| the status poll and `set_meta("maintenance_until")` | `Polled`, `PollFails`, `StoreWindow` |
| `_mark_section_sent` for the poll and the live metrics | `MarkSent` |
| `_record_egress` with `_atomic_write_text` | `LoadCount`, `OpenTemporary`, `RenameTemporary` |
| `push_report`, which does not ask for the budget | `PushReport` |
| `updater._clear_egress_tracker` | `ClearTracker` |
| signals and unit timeouts; time; the turn of the day | `Kill`, `Tick`, `Midnight` |

The temporary file of a write has one name for all writers, so of two that are
past `OpenTemporary` the first may rename the other's file, whole or not;
`clash` notes it, and the count is then any of theirs, the old one, or torn,
which reads as 0. `spent`, `full`, `exact`, `tried` and `shown` are
bookkeeping for the properties. `exact` turns false when a recording is lost or
cleared: `FullBeatsBounded` is claimed only as long as it holds, because two
writers that overlap, and a sender that is killed after its answer, do lose
bytes. It is about `full`, the heartbeats that a sender knows to be accepted.
Those accepted without an answer (`AnswerLost`) are counted nowhere and are not
bounded: section 7.

Abstractions: `_mark_section_sent`, a read and a write with nothing between
them, is one step. The poll that fails notes its check like one that succeeds,
as in the code. A POST without an answer is not counted, as in the code. A clock that is
set back makes a mark due (`_fresh`); the marks' clock only goes forward here.
The update request in the poll's answer is in Updater.

### Updater

`run` is what a run of `install_latest` knows: the version whose code it is
(`code`, with its own list of units), the checksum it fetched, whether only
units were missing, and what it copied and added. `pc` is the statement it is
at. `FetchChecksum` returns early when nothing is to be done (`UpToDate`, no unit
missing); `Install` is pip; `CopyUnits`, `EnableUnits` and `RestartApi` are
`_refresh_systemd_units`, whose failures are reported and do not stop the run;
`Record` writes the checksum. `Fail` is any exception before the refresh, `Kill`
a kill, a loss of power at any statement, or pip's 180 seconds. pip is not one
step: cut short (`PipCutShort`) it may have done nothing, or all, or have left
the old version taken away and the new one not or partly in place. `package` is
then "mixed", which still starts, with the code of either version, or "dead",
and `cut` notes that the run was a forced one. A pip that fails by itself puts
back what it took away. Units are copied wherever their directory is `writable`
(`updater.py:155`), also on a host that was installed without any.
`StartRequested`, `NoteRequest` and `ForgetRequest` are
`_maybe_start_remote_update` in a heartbeat: the unit is started without
waiting, then the request is noted; a unit that runs already is not started
again, and the request is noted all the same. A bundle and its checksum are
published one after the other, and the newest version has all units of the
older ones (the constant's assumption).

*AgentVersion* is what is left of an update without its runs: a version is
published; an installation goes forward or stays, or is cut short (`BreakOff`,
which leaves an update to be made; `BreakForced`, which need not); what is
recorded is what is installed as a whole; or the record is lost. `ImplementsVersions` maps the published
checksum to `newest`; all else of Updater is invisible there. That a run skips an
update only when the published version is installed, and as a whole unless a
forced run was cut short in it (`SkippedMeansInstalled`), follows from it, and is a theorem rather than a run's property.

Abstractions: only one run at a time, which systemd guarantees for the service
but not for a `crashpilot update` by hand beside it. An exception while copying
may leave any part of the units copied. `upset` notes that a refresh was cut
short or that systemctl refused something: `RecordedIsInForce` is claimed
otherwise, because the code does not try those again: a sign-off that was
copied by a run that was then killed is never enabled, and a server whose
restart was refused keeps the old code.

### Ordering, CrashDetector, CrashAnalysis, NetworkHealth, FlightRecorder, KernelAlerts

Pure algorithms as operators named for the functions they translate. A log line
is a model value with the set of patterns it matches, one name for the regular
expressions of a rule that are never told apart; entries carry the time of
their line. Confidences are in thousandths; where the rounding of the program's
floating point decides an order (0.7 + 0.2 is less than 0.9) the model has it.
The numbers at the top of `network_health.py` are constants (`Limit`), as are
the windows of the others.

`Ordering` gives a sorted sequence by places: the k-th element is the one with
k - 1 before it. `Hits`, `Ranked`, `TopProcesses` and `MemoryGrowth` sort with
it, `OwnHits` and `Intervals` filter with its `Picked`; the community modules'
`SetToSortSeq` and `SelectSeq` rest on overridden or recursive operators, of
which nothing can be proved. The loop of `_episodes` is a recursive function
(`LoopState`) from the number of intervals read to the loop's three variables.

Abstractions: of the four error counters of a port one stands for all; a
percentile is rounded half up; the limits on the length of texts (10 000
characters of a log, 800 of the kernel's lines) are left out; a row of a
snapshot lists memory and identity only; `_forecast` is left out; one pattern
`panic` stands for the rule's and for the narrower `_PANIC_LINE`. The report
saved at once is `Preliminary`: what was detected under `heuristic` and a
timeline, without alternatives; `Updated` lays a result over it.

A line of the kernel has a date or none, and a time since the boot or none:
`dmesg` prints the first, or in its plain form the second, which the code dates
by the clock at the time of reading (`Dated`, `SinceBoot`). A time in the future
makes neither the cache nor the last section `Fresh`.

### Analyses

The five operator modules at work. A behaviour follows one `subject`: a boot
whose log grows line by line (`LogLine`, `KernelLine`), ends and is detected
(`DetectCrash`), reported and analysed (`UseHeuristics`, `UseAnswer`, or
`TimeOut`, after which the report stays as it was saved); a
connection (`TakeReading`, assessed after each); processes that start, end,
grow and are recorded (`StartProcess`, `EndProcess`, `Resize`,
`RecordSnapshot`); or the kernel's lines, stamped or not, under a clock that is
corrected (`KernelLogs`, `Pass`, `SetClock`, `LiveBeat`). `outcome` says whether
the analysis of a boot came to its end ("noted") or was ended by the database,
which refuses a severity of null ("aborted"). `raised` is bookkeeping: which
lines were counted, with which stamp, in which section, since the clock was last
corrected.
They share no state, so nothing is lost by following one at a time, and the
bounds of each stay those of its own. Each property compares an operator with
a definition of what its result must mean, written over the data and not over
the algorithm.

## 4. The runs

| run | bounds | states | shows |
|---|---|---|---|
| `report_delivery` | 1 analysis, 1 heartbeat, 2 boots (one without a readable ID), 2 runs, 2 refusals, list of 1 | 524 252 | the safety properties, that ReportDelivery implements ReportOutbox, and that every queued report leaves the queue |
| `enrollment` | 2 machines (the second may be a copy), a heartbeat each, one `enroll` by hand | 1 600 586 | nobody acts as another machine |
| `enrollment_heals` | one machine that runs: a new one with heartbeats of timer and update unit, or a new or copied one with the timer's; a silent source at times | 29 134 | credentials in the end, also when two heartbeats replace each other's tokens |
| `webhook_queue` | 2 deliveries, a heartbeat and an analysis, 3 attempts, list of 1, a dashboard that comes and goes | 193 636 | the table tells the truth; every delivery ends while heartbeats are accepted |
| `entrypoint` | both namespaces, 2 signals | 1 391 | order, exit status, quiet after the sign-off, the stop ends |
| `network_usage` | 1 process, 2 interfaces, 4 ticks in 2 months, gap of 2, 3 bytes | 3 538 208 | nothing is counted twice |
| `network_usage_race` | 2 processes, 1 interface | violation | section 7 |
| `heartbeat_budget` | 2 senders, no sections, limits of 2 and 3, a full heartbeat of 2, counts up to 7 | 1 360 739 | when the budget throttles, and what it lets through |
| `heartbeat_sections` | 2 senders, 1 section, 1 maintenance window, no budget | 49 320 | sections and the window get through |
| `updater` | 2 versions, the second with more units, 2 requests, 2 kills, in the middle of pip too | 202 089 | what is recorded is in force; AgentVersion is implemented; the newest version arrives |
| `analyses` | logs of 3 lines of 11 kinds, 5 readings of 7 kinds, 3 processes with 2 numbers in 3 snapshots, 2 kernel lines over 8 ticks of a clock that is set back by 4 | 903 343 | what each analysis concludes is so |
| `analyses_null` | one line, the answers of the model | violation | section 7 |

Why these bounds are enough to be of interest. *Reports*: with one analysis and
one heartbeat every pair of an analysis's and a heartbeat's steps occurs in
every order; two boots and two runs give a second report and a forced
re-analysis of the first; a list of one with two reports is the list that is
shorter than the queue (50 in the code); two refusals instead of five keep the
difference between one and enough. *Enrollment*: a takeover needs two machines,
a race two units. *Webhooks*: two processes and three attempts let counts
overwrite each other and still reach the limit (8 in the code). *Entrypoint*:
the second signal is the one that arrives while the handler runs. *Usage*: two
ticks a month and a longest gap of two ticks give readings within a month,
across the turn of the month and too far apart; two interfaces let the route
leave and return. *Heartbeat*: a third of the hard limit is one pulse, so that
slim, minimal and the excess of two full heartbeats all occur; counts stop at 7,
above the bound that is claimed (2 + 2 * 2). One section and two senders give
every order of two writes of the marks. *Updater*: the second version adds a
unit, so the run that installs it does not know of it; two kills give one in
each of two runs, and with them a package that is broken and mended or broken
again. *Analyses*: three lines give a fault, its panic and a
shutdown in every order, and two rules that tie or outvote each other; five
readings give a run of slow ones before, across and after a gap and three
ordinary ones for the threshold; a list of one process makes processes leave
the top and return; the intervals of the kernel's lines keep the proportions
that the theorem's assumption needs, and the clock goes far enough to be set
back by a whole window and to reach the stamps of before again. The theorems of section 6 hold for all
bounds.

A bound that limits an action is a constant and named so in its module:
`MaxBoots`, `MaxRuns`, `MaxOn`, `MaxByHand`, `MaxAsked`, `MaxTime`, `MaxMoved`,
`MaxCount`, `MaxVersion`, `MaxRequests`, `MaxKills`, `MaxLines`, `MaxReadings`,
`MaxSnapshots`, `MaxStarted`, `MaxMemory`, `MaxKernel`, `MaxClock`.
Deadlock is not checked where the system may stop: a container ends, a boot's
log is reported, and the data of Analyses is bounded.

Every property of a passing run has a mutant in its module (a comment "Mutant:"
above it): a change of the code that a careless edit could make, which TLC
finds to violate the property in the same run.

## 5. Fairness

- *Reports*: the timer starts a heartbeat every minute, so a cycle begins and
  ends (weak fairness). Kills may interrupt it, but not at the same place for
  ever, and the cloud does not fail to answer for ever (strong fairness of
  posting, of an answer, of the mark). It may refuse for ever. Nothing is
  assumed of analyses.
- *Enrollment*: the same for heartbeats and the identity source; a cooldown ends
  because time passes (weak). Kills,
  reboots, copies, retirements and side-by-side heartbeats stop some time
  (`CalmDown`): two heartbeats that started together every time, and of which
  the older answer was always stored last, would never have a valid token.
- *Webhooks*: a heartbeat's flush that has begun goes on and is not killed at
  the same place for ever; `next_attempt_at` passes. Nothing is assumed of the
  receiver, nor of how often a heartbeat gets to its flush: `Settles` is claimed
  of behaviours in which that happens for ever (`[]<>(pc[h] = "list")`).
- *Entrypoint*: the shell runs, commands end (each has timeouts), and a main
  process that was told to stop does. Nothing is assumed of the nap, of which
  the length is a setting, nor of the runtime, which never has to kill.
- *Heartbeat*: time passes and every step of a heartbeat that has begun is
  taken or the sender killed (weak fairness); the timers start heartbeats for
  ever (strong fairness). A heartbeat may be killed, refused or left without a
  section any number of times, but what is tried again and again succeeds at
  last: collecting, marking and posting a section, posting a heartbeat that
  polls, and an answer with the dashboard's window (strong fairness of each).
  Reports, kills, clearings and midnight are not fair.
- *Updater*: the hourly timer, where it is enabled and the package can start,
  starts runs (strong fairness), each run ends because every command it waits
  for has a timeout (weak fairness of a step or a failure), a publication is
  completed (weak), and download, pip and the copying of units do not fail for
  ever (strong). Kills are bounded. Nothing is assumed of requests, of systemctl
  or of the operator. `NewestArrives` is claimed where the timer is enabled and
  the package not broken for good (`Broken`), again and again.
- *Analyses*: none, it has no liveness properties.

## 6. The proofs

TLAPS checks these for every value of the constants that satisfies the named
assumption of the module.

| theorem | statement |
|---|---|
| `ReportDelivery_proofs!TypeCorrect` | `Spec => []TypeOK` |
| `ReportDelivery_proofs!PushedArrived` | `Spec => []PushedHasArrived` |
| `ReportDelivery_proofs!AnalyzedSaved` | `Spec => []AnalyzedMeansSaved` |
| `ReportDelivery_proofs!SetAsideRefused` | `Spec => []SetAsideWasRefused` |
| `ReportDelivery_proofs!RefinesOutbox` | `Spec => ImplementsOutbox` |
| `Enrollment_proofs!TypeCorrect`, `NeverTakesOver` | `Spec => []TypeOK`, `Spec => []NoTakeover` |
| `WebhookQueue_proofs!TypeCorrect`, `DeliveredReceived`, `GivenUpTried` | `Spec => []TypeOK`, `[]DeliveredWasReceived`, `[]GivenUpWasTried` |
| `Entrypoint_proofs!TypeCorrect`, `MainLast`, `ExitStatus`, `QuietStays` | `Spec => []TypeOK`, `[]MainStopsLast`, `[]ExitsAsMain`, `StaysQuiet` |
| `NetworkUsage_proofs!TypeCorrect`, `UsageMoved` | `OneSampler` implies `Spec => []TypeOK`, `Spec => []UsageIsMoved` |
| `Heartbeat_proofs!TypeCorrect`, `FullBounded` | `Spec => []TypeOK`, `Spec => []FullBeatsBounded` |
| `Heartbeat_proofs!Throttled`, `HeldBack` | `Spec => ThrottledWhenSpent`, `Spec => []HeldBackOnlyIfTried` |
| `Updater_proofs!TypeCorrect`, `SkippedInstalled` | `Spec => []TypeOK`, `Spec => []SkippedMeansInstalled` |
| `Updater_proofs!OptOutKept`, `RecordedInForce` | `Spec => []OptOutIsKept`, `Spec => []RecordedIsInForce` |
| `Updater_proofs!RefinesVersions`, `VersionsSkip` | `Spec => ImplementsVersions`, `ImplementsVersions => []SkippedMeansInstalled` |
| `Analyses_proofs!TypeCorrect` | `Spec => []TypeOK` |
| `Analyses_proofs!PanicReported`, `WinnerSupported` | `Spec => []PanicIsReported`, `[]WinnerHasMostEvidence` |
| `Analyses_proofs!StopAgrees`, `ReportsUsable` | `Spec => []SuddenStopAgrees`, `[]ReportIsUsable` |
| `Analyses_proofs!SlowdownsSustained`, `GrowthOwn` | `Spec => []SlowdownsAreSustained`, `[]GrowthIsOwn` |
| `Analyses_proofs!RaisedTwice` | `Spec => []RaisedAtMostTwice` |

The arguments:

*Reports.* `TypeInv` adds to the types that rows and copies only carry
identifiers that were given out: without it a late mark could be about a report
yet to come. That pushed reports have arrived rests on the fact that a process
about to mark was accepted (`AcceptedHasArrived`), which deletion and a new
version do not change because arrival is never undone. That set-aside reports
were refused needs counting: the column plus the heartbeats that were told of a
refusal and have not written it down never exceed the refusals given
(`RefusalsCounted`), with the cardinality of that set of heartbeats. A boot
noted as analysed has a report because an analysis past its save has one on
record for this boot (`SavedBeforeRemembered`), and a reboot takes all
processes with it. The refinement maps each step to a step of the outbox or to
none; `StatusByCases` gives the mapping in five cases, and `BootReportIssued`
excludes that a saved row is taken for a new report.

*Enrollment.* `AimsRight` follows a process from its decision to its heartbeat:
on a machine whose source answers it enrolls as that machine and sends with its
identity. `ChecksRight` is why: an `identity-check` that is good for this boot
and says "same" is about this machine, since a copy starts with a new boot.

*Webhooks.* `CountInv`: no number anywhere, in the table or in a list that was
read, is above the failures that happened. So overwriting can only lower a
count, and one that reaches the limit is true. `DueInv` and `StepInv` keep
lists and due deliveries in order.

*Entrypoint.* `LoopFirst`: the sign-off runs only once the loop has ended, for
good. `SignedOff` follows the handler, which runs once. `HasStatus` says where
the shell holds the main process's status, also while the handler interrupts.

*Usage.* `LatestCovers`: what is counted had been moved by the time of the
latest stored reading, and whatever is read or held comes after it in the sense
of `Leads`. `RowsInMonth` makes the latest reading unique, and the one a save
stores becomes the latest, or leaves the latest in place when the clock went
back. It needs `OneSampler`; the run `network_usage_race` shows what happens
without.

*Heartbeat.* `Typed` bounds every count. `Counted`: neither the file nor any
count that was read exceeds `spent`, whichever of the writers' counts is renamed
into place, so a throttled mode has had its reason. `Held`: a mark is at least
as old as the last attempt, in the file and in what a sender is about to write
over it, so a lost update only makes a section due earlier. `Budgeted` bounds
the excess: full heartbeats under way (`Ahead`) began below the limit, posted
ones (`Uncounted`) are in the count or still to be added to it, each sender is
in one of the two sets at most (`WeightOf` gives the arithmetic of their
cardinalities), and while no recording is lost one at most is under way, on the
count as it is. Without `exact` none of this holds: two recordings that overlap
lose one of the two.

*Updater.* `Made`: a run past pip, unless it only adds units, has installed what
it expects and left the package whole; what is recorded was published before and
is not above what is installed; a run that is on its way to a record works on
nothing older than what is recorded; and a package that is not whole has either
a record older than what is published or was cut short by a forced run. So a
recorded checksum that equals the published one is the installed one, whole or
`cut`. `Opted`: a sign-off that a run is about to enable is new to the machine,
so an operator cannot have disabled it. `InForce` follows what the run under way
still has to enable and to restart. `Forward`, that a run on its way to an
installation leads to nothing older than what is installed, is what the
refinement of AgentVersion adds: by it `Install` is a step forward, by `Made` a
pip that was cut short is `BreakOff` or `BreakForced`, what `Record` writes is
what is installed, and a kill while the checksum is written is `Forget`.

*Kernel lines.* `AlertInv`: of the stamped lines that a reading counts each was
recent when the reading was made (`CacheWasRecent`), and a reading is used only
while it is younger than its life, by a clock that is not behind it; so a section
that counts a line by a stamp is sent within `ClockSkew` before it and
`AlertWindow + CacheTtl` after it (`RaisedNear`). `SentApart`: since the clock
was last corrected sections were sent one after the other, an interval apart.
Three of them span two intervals, which the assumption
`AlertWindow + ClockSkew + CacheTtl < 2 * DmesgInterval` (in the code
1800 + 120 + 300 < 2 * 1800) keeps one stamp from reaching. A correction starts
the count anew, and needs no assumption of its own.

*Sets in order.* `InOrderSorts`: in a strict total order of a finite set the
number of elements before one is a bijection onto 0..n-1, so `InOrder` is the
set, each element once and in order. `PickedIs` is its form for filtered
sequences. Everything below that says what a list contains rests on these two.

*A boot and its report.* `CrashInv` is inductive because nothing is added to the
logs once something is detected: a detection is `Detect` of the telemetry as it
is, and a report is `Preliminary` of it, alone or with the result laid over it
(`Reported`), unless it was not completed. The four properties are then about the functions. `OwnHitsFound`:
the hits of a rule are the entries that show it, each once, so that confidence
counts evidence (`Matching`); `Ranking` sorts the matches by confidence,
severity and place; `DetectIs` divides detections into the four kinds the code
returns. `PanicShows` needs that a log with panic evidence fails the
test for a clean shutdown and that its match has at least the confidence 0.5;
`WinnerCounts` that below five hits the confidence grows with each one.
`HeuristicReport` and `ModelReport` follow a result into the report field by
field.

*Processes.* `MemoryInv`: running processes have different numbers, so a
snapshot lists a number once and its rows are told apart by identity.
`FirstListed`: the row growth is measured from is in the first snapshot that
lists the identity. That needs the identity to hold the start time: number
alone would take another process's row.

*Connection.* `NetworkInv` says that the verdict is `Assess` of the readings
there are. The rest is the invariant of the loop, `LoopInv`: the slow run that
still goes on began at a place p before which it cannot be extended, and what
was kept are the intervals of the sustained runs before p. `LoopStep` keeps it
through the three branches of the loop and `SustainedByRun` tells what a flush
adds, so the slowdowns found are exactly the sustained ones (`EpisodesAre`). An
induction over the number of intervals is done as a search for the least
number for which the invariant fails (`LeastNumber`), since the library's
induction theorems cannot be instantiated; that it needs the well-founded order
of the naturals only is why it goes through for a loop over a sequence.

Of the assumptions, `AnalysesAssumption` says that bounds are numbers, that
kernel-only lines are log lines, process numbers are numbers, and how the
kernel's intervals compare;
`NetworkHealthAssumption` names the limits and takes the shortest slowdown to
last some time (15 minutes in the code); `CrashAnalysisAssumption` says that null is
neither a list of alternatives nor a severity. Facts, answers of the model, readings and plans may
be anything.

Model-checked only: liveness (`QueueDrains`, `Heals`, `Settles`, `StopEnds`,
`SectionsArrive`, `WindowArrives`, `NewestArrives`), which is beyond the
prover. Every invariant and every step property of a passing run has its
theorem. What `Percentile`, `Ceiling` and the sums of `Assess` compute is not
stated by any property: the proofs take a threshold and a total as they are,
except that a total over nothing is 0.

## 7. What the code does otherwise than it says

Runs show:

- `network_usage_race`: usage is "added up from the counters as they grow"
  (`storage/store.py:76`). Of two overlapping heartbeats the older reading
  stored last moves the baseline back, and the interval is counted again.
- `analyses_null`: "Ensure required fields exist" (`ai_analyzer.py:198`). A
  severity of null passes `setdefault` (200), `update_analysis` writes it into a
  column that is `NOT NULL` (`store.py:29`, `229-239`), and the exception, which
  `monitor.py:264` does not catch, ends the analysis before the boot is noted
  and the report pushed.

Read while modelling; the models have these behaviours, and their properties
claim no more than remains true:

- "Above egress_daily_limit_mb heartbeats switch to an ultra-tiny keepalive"
  (`config.py:157-160`). The bytes are recorded after the answer
  (`cloud_push.py:1660`, `1715`); while answers are lost or take longer than
  10 s, nothing is recorded, and accepted full heartbeats go on without a limit.
  `FullBeatsBounded` is about those whose answer came.
- "CrashPilotX agent is already up to date." (`main.py:990`). A forced update of
  the recorded version that is killed in pip (`updater.py:267`), or takes more
  than 180 s, may leave parts of two versions; the record stays, so that no
  later run without `--force` mends it. `SkippedInstalled`, `AgentVersion` and
  `NewestArrives` except it (`cut`).
- "A slowdown must last this long" (15 minutes, `network_health.py:35`), and
  "2 readings is minutes, not a slowdown" (`tests/test_network_assess.py:103`).
  Runs of two slow readings count, and the minutes of all of them are added up
  over the week (`network_health.py:241`, `252`): eight on different days make
  a congested connection. `SlowdownsAreSustained` is about the sum.
- "will retry on next heartbeat" (`monitor.py:293`). A heartbeat that runs
  during the AI step sends the first version of the report and marks the row;
  when the push of the analysed version fails, nothing sends it again.
- "This node was retired from the dashboard" (`main.py:505`). The file is part
  of a disk image; a machine made from a retired one says so without ever
  having been known.
- The pod "signs the node off" when stopped (`k8s/daemonset.yaml:24`). Not while
  the analysis at start runs: the trap (`docker/entrypoint.sh:47`) comes after.
- `main.py:598` promises one automatic enrollment per cooldown, but the file is
  read and written in two steps, and two heartbeats can both enroll;
  `enrollment_heals` shows that the machine recovers.
- "nothing inside a window is missed" (`cloud_push.py:49`). A section is sent
  every 1800 s at the earliest, from a reading that may be 300 s old, and counts
  lines of the 1800 s before that reading: a line can fall between two sections.
  It can also be counted in two of them.
- `_PANIC_MARKERS` "must cover every KERNEL_PANIC/MCE pattern"
  (`crash_detector.py:291`); the two EDAC patterns of the MCE rule are not
  covered. `PanicIsReported` is about the panic's.
- A delivery is tried again by heartbeats only where push mode is configured and
  the dashboard accepts them. An agent that has a webhook and nothing else, or
  whose dashboard does not answer, tries a failed delivery again with the next
  analysis, which is after the next boot.
- An update copies and enables units on every host where it may write their
  directory, also on one that was installed with `INSTALL_SYSTEMD=no`
  (`install.sh:777`); `test_updater.py:127-161` asks for it.
- Where no line of `dmesg` has a readable stamp every critical one is counted in
  every section; `_recent_critical` says so (`cloud_push.py:651-652`), and
  `RaisedAtMostTwice` is about lines with a stamp.
- A requested update is noted as started, not as made, and a run that was active
  already is joined even if it fetched an older checksum; the timer's next run
  does what it did not (`NewestArrives`).
- A restart of the API server that systemctl refuses, and a sign-off whose
  enabling was interrupted, are not tried again although the update is recorded
  (`updater.py:288`); `RecordedIsInForce` excludes them by `upset`.
- `analysis.update` (`monitor.py:261`) lays a built-in analysis with an empty
  timeline over the one built from the log; `update_analysis`
  (`store.py:229`) stores the model's severity but keeps the detected type.

## 8. What is not modelled

- *The text*: report contents, prompts, redaction, payload sections, timeline,
  forensic snapshot, log wording. The properties do not depend on it.
- *In ReportDelivery*: the detector's verdict, of which either outcome is
  possible there; CrashDetector has it.
- *In Enrollment*: an explicit `--external-id`, `configure`, machine IDs that do
  not distinguish machines, an unreadable boot ID, a missing or revoked join
  token (the machine then stays as it is), edits of `.env` by hand.
- *In Entrypoint*: reuse of process numbers, a request that the server handles
  after its client gave up. The order systemd gives the sign-off unit on a
  machine without containers belongs to the units, which are not modelled.
- *In NetworkUsage*: the retention of samples; overflow of the kernel's 64-bit
  counters, which is a reset to the code.
- *In WebhookQueue*: payload, signature and URL; the length of the backoff.
- *In Heartbeat*: the caches of the speed test and of the network counters, the
  hardware profile, a clock that is set back, a database that cannot be written.
- *In Updater*: two runs side by side, an operator's reinstallation, packaged
  installs, the archive's layout.
- *In Analyses*: the regular expressions, the length limits of texts, the
  forecast, hours of the flight recorder's window; two heartbeats that send the
  kernel's section at once (`RaisedAtMostTwice` is about one at a time).
- *Store setup and the API's token file*: whether two first starts both succeed
  is a matter of SQLite's lock and of `O_EXCL`, in the plan.
- The components marked `not_modelled` in `PROJECT.json`, with their reasons.

## 9. The plan

Done: ReportOutbox, ReportDelivery, Enrollment, WebhookQueue, Entrypoint,
NetworkUsage, Heartbeat and Updater with AgentVersion, with their proofs, and Analyses with its
operator modules and the proofs of all its properties. Still to do, in
this order:

1. `StoreInit` and `ApiToken`: first starts of two processes under SQLite's
   lock and `O_EXCL`.
2. A composition of ReportDelivery and WebhookQueue with the maintenance
   window: an incident is announced once it is saved, unless in maintenance;
   the kill between the two.
3. Two runs of the updater side by side, one of them by hand.
4. `EnrollRetry`: the retries of one enrollment with their deadlines and the
   `Retry-After` of the server, as an algorithm over time.
5. The retention of samples in NetworkUsage and the sign-off's order under
   systemd.
