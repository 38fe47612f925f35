----------------------------- MODULE Heartbeat ------------------------------
(***************************************************************************)
(* What a heartbeat sends (cloud_push.push_heartbeat).                     *)
(*                                                                         *)
(* A heartbeat first looks at the day's count of bytes sent and at the     *)
(* times at which each section was last sent, both files.  It then builds  *)
(* a full payload with the sections that are due, a pulse, or, once the    *)
(* day's budget is spent, a minimal payload; posts it; asks now and then   *)
(* for the dashboard's maintenance window; marks what it sent; and adds    *)
(* the bytes to the count.  Each file is read, changed and renamed into    *)
(* place without a lock, while the heartbeats of two units, a report and   *)
(* an update that clears the count may overlap.                            *)
(*                                                                         *)
(* A file that is missing, torn or of another day reads as a count of 0,   *)
(* so the count is one number, which midnight sets to 0.  A mark is kept   *)
(* as its age in ticks, up to the section's interval, at which it is due.  *)
(***************************************************************************)
EXTENDS Naturals, FiniteSets

CONSTANTS
    Sender,     \* processes that send heartbeats and reports
    Section,    \* the stable sections of a payload
    Window,     \* maintenance windows an operator may set
    NoWindow,   \* no maintenance window
    Interval,   \* the interval of each mark, in ticks
    SoftLimit,  \* egress_soft_limit_mb, 0 for none
    HardLimit,  \* egress_daily_limit_mb, 0 for none
    PulseSize,  \* bytes of a pulse, a minimal heartbeat or an answer
    LiveSize,   \* bytes of a full heartbeat
    MaxCount    \* bound: counts of bytes stop here

Mark == Section \cup {"live_metrics", "cloud_status"}

ASSUME HeartbeatAssumption ==
    /\ Interval \in [Mark -> Nat]
    /\ {SoftLimit, HardLimit, PulseSize, LiveSize, MaxCount} \subseteq Nat
    /\ NoWindow \notin Window
    /\ IsFiniteSet(Sender)
    /\ Section \cap {"live_metrics", "cloud_status"} = {}

VARIABLES
    tracker,    \* the day's count in daily_egress.json
    marks,      \* the age of each mark in section_ttl.json
    window,     \* maintenance_until in the store
    dashboard,  \* the window set in the dashboard
    pc,         \* what each sender does next
    beat,       \* the heartbeat each sender is busy with
    known,      \* the marks each sender read and is about to write back
    count,      \* the count each sender read, its own bytes added
    clash,      \* whether another sender wrote the temporary file meanwhile
    \* What really happened, kept to state the properties.
    spent,      \* bytes of this day's recordings
    full,       \* bytes of this day's full heartbeats that were accepted
    exact,      \* no recording of this day was lost so far
    tried,      \* the age of each section's last attempt
    shown       \* whether each section reached the dashboard since the tick

files == <<tracker, marks, window>>
ghosts == <<spent, full, exact, tried, shown>>
vars == <<files, dashboard, pc, beat, known, count, clash, ghosts>>

Mode == {"normal", "slim", "skip"}
Kind == {"pulse", "minimal", "live", "report"}
Control == {"idle", "collect", "save", "post", "poll", "store", "mark",
            "load", "open", "rename"}
Beat == [mode : Mode, kind : Kind, polls : BOOLEAN, carries : SUBSET Section,
         bytes : Nat, answer : Window \cup {NoWindow}]

NoBeat == [mode |-> "normal", kind |-> "pulse", polls |-> FALSE,
           carries |-> {}, bytes |-> 0, answer |-> NoWindow]

Fresh == [m \in Mark |-> 0]
Due(m) == marks[m] = Interval[m]

\* A sum of bytes, as far as MaxCount.  The code compares a count with the
\* limits only, which are below.
Plus(a, b) == IF a + b > MaxCount THEN MaxCount ELSE a + b

\* Mutant: the mode has the name that the dashboard is shown.
ModeNowShown ==
    IF HardLimit > 0 /\ tracker >= HardLimit THEN "minimal"
    ELSE IF SoftLimit > 0 /\ tracker >= SoftLimit THEN "slim"
    ELSE "normal"

\* _check_egress_budget.
ModeNow ==
    IF HardLimit > 0 /\ tracker >= HardLimit THEN "skip"
    ELSE IF SoftLimit > 0 /\ tracker >= SoftLimit THEN "slim"
    ELSE "normal"

Size(kind) == IF kind \in {"live", "report"} THEN LiveSize ELSE PulseSize

Init ==
    /\ tracker = 0
    /\ marks = Interval
    /\ window = NoWindow
    /\ dashboard = NoWindow
    /\ pc = [p \in Sender |-> "idle"]
    /\ beat = [p \in Sender |-> NoBeat]
    /\ known = [p \in Sender |-> Fresh]
    /\ count = [p \in Sender |-> 0]
    /\ clash = [p \in Sender |-> FALSE]
    /\ spent = 0
    /\ full = 0
    /\ exact = TRUE
    /\ tried = [s \in Section |-> Interval[s]]
    /\ shown = [s \in Section |-> FALSE]

Go(p, here, there) == pc[p] = here /\ pc' = [pc EXCEPT ![p] = there]

-----------------------------------------------------------------------------
(* A heartbeat. *)

\* Mutant: live metrics that are due are sent whatever the budget.
BeginDue(p) ==
    LET kind == IF Due("live_metrics") THEN "live"
                ELSE IF ModeNow = "skip" THEN "minimal"
                ELSE "pulse"
    IN /\ Go(p, "idle", IF kind = "live" THEN "collect" ELSE "post")
       /\ beat' = [beat EXCEPT ![p] =
             [NoBeat EXCEPT !.mode = ModeNow, !.kind = kind,
                            !.polls = Due("cloud_status")]]
       /\ UNCHANGED <<files, dashboard, known, count, clash, ghosts>>

\* The budget and the marks are read and the kind of payload chosen.
Begin(p) ==
    LET kind == IF ModeNow = "skip" THEN "minimal"
                ELSE IF Due("live_metrics") THEN "live"
                ELSE "pulse"
    IN /\ Go(p, "idle", IF kind = "live" THEN "collect" ELSE "post")
       /\ beat' = [beat EXCEPT ![p] =
             [NoBeat EXCEPT !.mode = ModeNow, !.kind = kind,
                            !.polls = Due("cloud_status")]]
       /\ UNCHANGED <<files, dashboard, known, count, clash, ghosts>>

\* _build_live_metrics reads the marks again, and then collects the sections
\* that are due.  One that cannot be collected is left out.
Collect(p) ==
    /\ Go(p, "collect", "save")
    /\ \E ready \in SUBSET {s \in Section : Due(s)} :
          LET carries == IF beat[p].mode = "slim" THEN {} ELSE ready
          IN /\ beat' = [beat EXCEPT ![p].carries = carries]
             /\ known' = [known EXCEPT ![p] =
                   [m \in Mark |-> IF m \in carries THEN 0 ELSE marks[m]]]
             /\ tried' =
                   [s \in Section |-> IF s \in carries THEN 0 ELSE tried[s]]
    /\ UNCHANGED <<files, dashboard, count, clash, spent, full,
                   exact, shown>>

\* The marks it read, and those of the sections it carries, are written back
\* once everything is collected, which may take minutes.
SaveMarks(p) ==
    /\ Go(p, "save", "post")
    /\ marks' = IF beat[p].carries = {} THEN marks ELSE known[p]
    /\ known' = [known EXCEPT ![p] = Fresh]
    /\ UNCHANGED <<tracker, window, dashboard, beat, count, clash, ghosts>>

\* The dashboard accepts the payload.  An older schema takes it without its
\* metrics only.
Posted(p, whole) ==
    LET b == beat[p]
        bytes == Size(b.kind)
    IN /\ Go(p, "post", IF b.polls THEN "poll" ELSE "mark")
       /\ beat' = [beat EXCEPT ![p].bytes = bytes]
       /\ shown' = [s \in Section |->
                      shown[s] \/ (whole /\ s \in b.carries)]
       /\ full' = IF b.kind = "live" THEN Plus(full, bytes) ELSE full
       /\ UNCHANGED <<files, dashboard, known, count, clash,
                      spent, exact, tried>>

\* The dashboard accepts the payload, but its answer is lost or late, or the
\* sender is killed meanwhile: nothing is counted or marked any more.
AnswerLost(p) ==
    LET b == beat[p]
    IN /\ Go(p, "post", "idle")
       /\ beat' = [beat EXCEPT ![p] = NoBeat]
       /\ shown' = [s \in Section |-> shown[s] \/ s \in b.carries]
       /\ UNCHANGED <<files, dashboard, known, count, clash,
                      spent, full, exact, tried>>

\* The request fails or is refused: nothing is counted or marked any more.
PostFails(p) ==
    /\ Go(p, "post", "idle")
    /\ beat' = [beat EXCEPT ![p] = NoBeat]
    /\ UNCHANGED <<files, dashboard, known, count, clash, ghosts>>

\* The status poll is answered with the window set in the dashboard; with
\* something that is no window; or not, in which case only the check is noted.
Polled(p) ==
    /\ Go(p, "poll", "store")
    /\ \E w \in {dashboard, NoWindow} :
          beat' = [beat EXCEPT ![p].answer = w,
                               ![p].bytes = Plus(@, PulseSize)]
    /\ UNCHANGED <<files, dashboard, known, count, clash, ghosts>>

PollFails(p) ==
    /\ Go(p, "poll", "mark")
    /\ \E n \in {0, PulseSize} :
          beat' = [beat EXCEPT ![p].bytes = Plus(@, n)]
    /\ UNCHANGED <<files, dashboard, known, count, clash, ghosts>>

\* Mutant: no window in the answer leaves the stored one alone.
StoreWindowIfSet(p) ==
    /\ Go(p, "store", "mark")
    /\ window' = IF beat[p].answer = NoWindow THEN window ELSE beat[p].answer
    /\ UNCHANGED <<tracker, marks, dashboard, beat, known, count, clash,
                   ghosts>>

StoreWindow(p) ==
    /\ Go(p, "store", "mark")
    /\ window' = beat[p].answer
    /\ UNCHANGED <<tracker, marks, dashboard, beat, known, count, clash,
                   ghosts>>

\* Mutant: the file is written with all marks set to now.
MarkAllSent(p) ==
    /\ Go(p, "mark", "load")
    /\ marks' = Fresh
    /\ UNCHANGED <<tracker, window, dashboard, beat, known, count, clash,
                   ghosts>>

\* _mark_section_sent, for the poll and for the live metrics.
MarkSent(p) ==
    LET sent == {m \in {"cloud_status"} : beat[p].polls}
                \cup {m \in {"live_metrics"} : beat[p].kind = "live"}
    IN /\ Go(p, "mark", "load")
       /\ marks' = [m \in Mark |-> IF m \in sent THEN 0 ELSE marks[m]]
       /\ UNCHANGED <<tracker, window, dashboard, beat, known, count, clash,
                      ghosts>>

-----------------------------------------------------------------------------
(* The count of bytes: _record_egress, for a heartbeat and for a report. *)

\* push_report does not look at the budget: a report is always sent.
PushReport(p) ==
    /\ Go(p, "idle", "load")
    /\ beat' = [beat EXCEPT ![p] =
          [NoBeat EXCEPT !.kind = "report", !.bytes = LiveSize]]
    /\ UNCHANGED <<files, dashboard, known, count, clash, ghosts>>

Recording == {p \in Sender : pc[p] \in {"open", "rename"}}

LoadCount(p) ==
    /\ Go(p, "load", "open")
    /\ count' = [count EXCEPT ![p] = Plus(tracker, beat[p].bytes)]
    /\ spent' = Plus(spent, beat[p].bytes)
    /\ exact' = (exact /\ Recording = {})
    /\ UNCHANGED <<files, dashboard, beat, known, clash, full,
                   tried, shown>>

\* _atomic_write_text: the temporary file has one name for all writers.
OpenTemporary(p) ==
    LET others == {q \in Sender \ {p} : pc[q] = "rename"}
    IN /\ Go(p, "open", "rename")
       /\ clash' = [q \in Sender |->
             clash[q] \/ (others # {} /\ q \in others \cup {p})]
       /\ UNCHANGED <<files, dashboard, beat, known, count, ghosts>>

\* Of two writers the first may rename the other's file, half written or not,
\* and the second then finds none to rename.
RenameTemporary(p) ==
    LET left == IF clash[p]
                  THEN {tracker, 0} \cup {count[q] : q \in Recording}
                  ELSE {count[p]}
    IN /\ Go(p, "rename", "idle")
       /\ tracker' \in left
       /\ beat' = [beat EXCEPT ![p] = NoBeat]
       /\ count' = [count EXCEPT ![p] = 0]
       /\ clash' = [clash EXCEPT ![p] = FALSE]
       /\ UNCHANGED <<marks, window, dashboard, known, ghosts>>

\* updater._clear_egress_tracker.
ClearTracker ==
    /\ tracker # 0
    /\ tracker' = 0
    /\ exact' = FALSE
    /\ UNCHANGED <<marks, window, dashboard, pc, beat, known, count, clash,
                   spent, full, tried, shown>>

-----------------------------------------------------------------------------
(* What happens around them. *)

\* A sender is killed.  What it sent but did not record is lost.
Kill(p) ==
    /\ pc[p] # "idle"
    /\ pc' = [pc EXCEPT ![p] = "idle"]
    /\ beat' = [beat EXCEPT ![p] = NoBeat]
    /\ known' = [known EXCEPT ![p] = Fresh]
    /\ count' = [count EXCEPT ![p] = 0]
    /\ clash' = [clash EXCEPT ![p] = FALSE]
    /\ exact' = (exact /\ beat[p].bytes = 0)
    /\ UNCHANGED <<files, dashboard, spent, full, tried, shown>>

Older(m, age) == IF age < Interval[m] THEN age + 1 ELSE age

\* Time passes.
Tick ==
    /\ marks' = [m \in Mark |-> Older(m, marks[m])]
    /\ known' = [p \in Sender |->
          IF pc[p] = "save" THEN [m \in Mark |-> Older(m, known[p][m])]
          ELSE known[p]]
    /\ tried' = [s \in Section |-> Older(s, tried[s])]
    /\ shown' = [s \in Section |-> FALSE]
    /\ UNCHANGED <<tracker, window, dashboard, pc, beat, count, clash,
                   spent, full, exact>>

\* Mutant: the count is written under the date of its writing, not under the
\* date of the count it was read from.
MidnightAtWrite ==
    /\ tracker' = 0
    /\ spent' = 0
    /\ full' = 0
    /\ exact' = TRUE
    /\ UNCHANGED <<marks, window, dashboard, pc, beat, known, count, clash,
                   tried, shown>>

\* At midnight the file is another day's, and so is a count that was read
\* from it: written back, it still reads as 0.
Midnight ==
    /\ tracker' = 0
    /\ count' = [p \in Sender |-> 0]
    /\ spent' = 0
    /\ full' = 0
    /\ exact' = (Recording = {})
    /\ UNCHANGED <<marks, window, dashboard, pc, beat, known, clash,
                   tried, shown>>

SetWindow(w) ==
    /\ w # dashboard
    /\ dashboard' = w
    /\ UNCHANGED <<files, pc, beat, known, count, clash, ghosts>>

HeartbeatStep(p) ==
    \/ Begin(p)
    \/ Collect(p)
    \/ SaveMarks(p)
    \/ \E whole \in BOOLEAN : Posted(p, whole)
    \/ AnswerLost(p)
    \/ PostFails(p)
    \/ Polled(p)
    \/ PollFails(p)
    \/ StoreWindow(p)
    \/ MarkSent(p)
    \/ LoadCount(p)
    \/ OpenTemporary(p)
    \/ RenameTemporary(p)

Next ==
    \/ \E p \in Sender : HeartbeatStep(p) \/ PushReport(p) \/ Kill(p)
    \/ \E w \in Window \cup {NoWindow} : SetWindow(w)
    \/ ClearTracker
    \/ Tick
    \/ Midnight

Spec == Init /\ [][Next]_vars

\* Of the payloads that carry a section.
CollectOf(s) == \E p \in Sender : Collect(p) /\ s \in beat'[p].carries
SaveMarksOf(s) ==
    \E p \in Sender : SaveMarks(p) /\ s \in beat[p].carries
PostedOf(s) == \E p \in Sender : Posted(p, TRUE) /\ s \in beat[p].carries

\* Of the answers that hold the window set in the dashboard.
PostedOfPolling == \E p \in Sender : Posted(p, TRUE) /\ beat[p].polls
PolledNow == \E p \in Sender : Polled(p) /\ beat'[p].answer = dashboard
StoreNow == \E p \in Sender : StoreWindow(p) /\ beat[p].answer = dashboard

\* The timers start heartbeats for ever and time passes.  A heartbeat need
\* not succeed, but one that is tried again and again is not killed, refused
\* or left without a section every time.
FairSpec ==
    /\ Spec
    /\ WF_vars(Tick)
    /\ SF_vars(\E p \in Sender : Begin(p))
    /\ \A p \in Sender : WF_vars(HeartbeatStep(p))
    /\ \A s \in Section :
          SF_vars(CollectOf(s)) /\ SF_vars(SaveMarksOf(s))
          /\ SF_vars(PostedOf(s))
    /\ SF_vars(PostedOfPolling) /\ SF_vars(PolledNow) /\ SF_vars(StoreNow)

-----------------------------------------------------------------------------
(* Properties. *)

TypeOK ==
    /\ tracker \in 0..MaxCount
    /\ \A m \in Mark : marks[m] \in 0..Interval[m]
    /\ window \in Window \cup {NoWindow}
    /\ dashboard \in Window \cup {NoWindow}
    /\ pc \in [Sender -> Control]
    /\ beat \in [Sender -> Beat]
    /\ count \in [Sender -> 0..MaxCount]
    /\ clash \in [Sender -> BOOLEAN]
    /\ spent \in 0..MaxCount
    /\ full \in 0..MaxCount
    /\ exact \in BOOLEAN

\* A machine goes slim or minimal on a day only after that much was recorded
\* on that very day, whatever overlaps, is killed or is cleared.
ThrottledWhenSpent ==
    [][\A p \in Sender : pc[p] = "idle" /\ beat'[p] # NoBeat =>
          /\ beat'[p].mode = "skip" => spent >= HardLimit
          /\ beat'[p].mode = "slim" => spent >= SoftLimit]_vars

\* On a day on which no recording was lost, the full heartbeats that the
\* sender knows to be accepted exceed the hard limit by at most one for each
\* sender, the ones that were under way when it was reached.
FullBeatsBounded ==
    exact /\ HardLimit > 0 =>
        full <= (HardLimit - 1) + LiveSize * Cardinality(Sender)

\* However the marks are written back, no section is held back for longer
\* than its interval after the last time it was put into a payload.
HeldBackOnlyIfTried ==
    \A s \in Section : marks[s] >= tried[s]

\* As long as the budget is not spent, every section reaches the dashboard
\* again and again, although it is marked as sent before it is posted and a
\* mark may be overwritten.
SectionsArrive ==
    \A s \in Section :
        <>[](SoftLimit > 0 => tracker < SoftLimit) => []<>shown[s]

\* The window the dashboard keeps is stored again and again, whatever older
\* answer is stored late.
WindowArrives ==
    \A w \in Window \cup {NoWindow} :
        <>[](dashboard = w) => []<>(window = w)

=============================================================================
