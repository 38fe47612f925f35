--------------------------- MODULE CrashDetector ----------------------------
(***************************************************************************)
(* How the previous boot ended (analyzers/crash_detector.py,               *)
(* analyzers/abrupt_end.py, shutdown_markers.py).                          *)
(*                                                                         *)
(* A log is a sequence of entries, each a line and the time it was logged, *)
(* and two entries are the same text when both agree.  What a line says is *)
(* the set of patterns it matches, one name for the regular expressions of *)
(* a rule that are never told apart.  A confidence is in thousandths, with *)
(* the rounding of the program's floating point where it decides an order. *)
(***************************************************************************)
EXTENDS Ordering, SequencesExt

CONSTANTS
    Line,         \* what log lines say
    Matches,      \* the patterns each line matches
    NoStamp,      \* the time of an entry without a stamp
    EndWindow,    \* END_WINDOW_LINES
    StartWindow,  \* START_WINDOW_S
    RightBefore,  \* RIGHT_BEFORE_S
    MaxStarts,    \* _MAX_STARTS
    MaxEvidence   \* evidence lines a detection keeps

Pattern ==
    {"panic", "oops", "BUG:", "mce", "edac", "oom", "overheated",
     "hard_lockup", "soft_lockup", "blocked", "xid", "off_the_bus",
     "io_error", "going_down", "journal_stopped", "routine", "start",
     "refused", "gpu_load", "cpu_load"}

\* An entry of a log.
Entry == [line : Line, at : Nat \cup {NoStamp}]

ASSUME CrashDetectorAssumption ==
    /\ Matches \in [Line -> SUBSET Pattern]
    /\ {EndWindow, StartWindow, RightBefore, MaxStarts, MaxEvidence}
          \subseteq Nat \ {0}
    /\ NoStamp \notin Nat

Least(a, b) == IF a < b THEN a ELSE b

Says(e, patterns) == Matches[e.line] \cap patterns # {}

Rule(type, severity, patterns) ==
    [type |-> type, severity |-> severity, patterns |-> patterns]

Rules ==
    <<Rule("kernel_panic", "critical", <<"panic", "oops">>),
      Rule("machine_check_exception", "critical", <<"mce", "edac">>),
      Rule("oom_kill", "high", <<"oom">>),
      Rule("thermal_shutdown", "high", <<"overheated">>),
      Rule("watchdog_reset", "high", <<"hard_lockup">>),
      Rule("soft_lockup", "high", <<"soft_lockup", "blocked">>),
      Rule("gpu_fault", "high", <<"xid", "off_the_bus">>),
      Rule("disk_error", "high", <<"io_error">>)>>

CrashType == {Rules[i].type : i \in DOMAIN Rules}
                \cup {"clean_shutdown", "power_loss", "unknown"}

Rank == [critical |-> 0, high |-> 1, medium |-> 2, low |-> 3, info |-> 4]

ShutdownSequence == <<"going_down">>

\* Mutant: only a panic's last words count, not the fault that came first.
PanicMarkersLast == {"panic", "mce"}

PanicMarkers == {"panic", "oops", "BUG:", "mce"}

-----------------------------------------------------------------------------
(* The evidence. *)

\* _build_corpus.
Corpus(t) == t.journal \o t.dmesg \o t.xids

\* _line_source_map: the most specific collector that has the line.
SourceOf(t, e) ==
    IF Contains(t.xids, e) THEN "gpu_nvidia"
    ELSE IF Contains(t.dmesg, e) THEN "dmesg"
    ELSE IF Contains(t.journal, e) THEN "journal"
    ELSE "system"

SourcesOf(t, evidence) == [i \in DOMAIN evidence |-> SourceOf(t, evidence[i])]

\* _match_patterns: the lines of each pattern in turn, no text twice.  A match
\* is a pattern and a line by their places.
Hits(log, patterns) ==
    LET found == {m \in (DOMAIN patterns) \X (DOMAIN log) :
                    Says(log[m[2]], {patterns[m[1]]})}
        before(m, n) == \/ m[1] < n[1]
                        \/ m[1] = n[1] /\ m[2] < n[2]
        new == {m \in found :
                  \A n \in found : before(n, m) => log[n[2]] # log[m[2]]}
        order == Sorted(new, before)
    IN [k \in DOMAIN order |-> log[order[k][2]]]

HasPanic(log) == \E i \in DOMAIN log : Says(log[i], PanicMarkers)

\* ended_with_shutdown.
EndedWithShutdown(log) ==
    \E i \in DOMAIN log :
        /\ i + EndWindow > Len(log)
        /\ Says(log[i], {"going_down", "journal_stopped"})

\* Lines that show a shutdown: of its sequence, or the last of the journal.
ShutdownHits(t) ==
    LET sequence == Hits(Corpus(t), ShutdownSequence)
    IN IF sequence # <<>> THEN sequence
       ELSE IF EndedWithShutdown(t.journal) THEN <<Last(t.journal)>>
       ELSE <<>>

\* Mutant: the line of a panic counts for what triggered it as well.
OwnHitsAll(log, rule) == Hits(log, rule.patterns)

\* The evidence of a rule; a panic's own line names its trigger and is
\* counted for the panic only.
OwnHits(log, rule) ==
    LET hits == Hits(log, rule.patterns)
    IN IF rule.type = "kernel_panic" THEN hits
       ELSE Picked(hits, {i \in DOMAIN hits : ~Says(hits[i], {"panic"})})

\* min(0.95, 0.5 + 0.1 * lines).
Confidence(lines) == Least(950, 500 + 100 * lines)

\* Mutant: without the limit.
RaisedFreely(confidence) == confidence + 200

\* min(0.95, confidence + 0.2), where 0.7 + 0.2 falls short of 0.9.
Raised(confidence) ==
    IF confidence = 700 THEN 899 ELSE Least(950, confidence + 200)

\* _enrich_with_hardware.
HardwareSupports(t, type) ==
    \/ type = "disk_error" /\ t.disks
    \/ type = "thermal_shutdown" /\ t.warned

Detection(type, severity, confidence, evidence) ==
    [type |-> type, severity |-> severity, confidence |-> confidence,
     evidence |-> evidence, sources |-> <<>>, alternatives |-> <<>>,
     abrupt |-> {}]

\* What a rule makes of its evidence.
Match(t, rule, hits) ==
    LET plain == Confidence(Len(hits))
    IN Detection(rule.type, rule.severity,
                 IF HardwareSupports(t, rule.type) THEN Raised(plain) ELSE plain,
                 SubSeq(hits, 1, Least(MaxEvidence, Len(hits))))

\* One match for each rule; one without evidence is none.
Matched(t) ==
    [i \in DOMAIN Rules |-> Match(t, Rules[i], OwnHits(Corpus(t), Rules[i]))]

\* The matches, the most confident first, then the most severe, then in the
\* order of the rules: list.sort is stable.
Ranked(matched) ==
    LET before(i, j) ==
            LET a == matched[i]
                b == matched[j]
            IN \/ a.confidence > b.confidence
               \/ /\ a.confidence = b.confidence
                  /\ \/ Rank[a.severity] < Rank[b.severity]
                     \/ a.severity = b.severity /\ i < j
        order == Sorted({i \in DOMAIN matched : matched[i].evidence # <<>>},
                        before)
    IN [k \in DOMAIN order |-> matched[order[k]]]

Alternative(d) ==
    [type |-> d.type, confidence |-> d.confidence,
     evidence |-> SubSeq(d.evidence, 1, Least(3, Len(d.evidence)))]

-----------------------------------------------------------------------------
(* A log that just stops (abrupt_end.py). *)

Stamped(log) == SelectSeq(log, LAMBDA e : e.at # NoStamp)

\* _starts: what was started shortly before the end.
Starts(log) ==
    LET stamped == Stamped(log)
        found == SelectSeq(stamped,
                    LAMBDA e : /\ e.at + StartWindow >= Last(stamped).at
                               /\ Says(e, {"start"})
                               /\ ~Says(e, {"routine", "refused"}))
    IN SubSeq(found, 1 + Len(found) - Least(MaxStarts, Len(found)), Len(found))

Heavy(e) == Says(e, {"gpu_load", "cpu_load"})

\* analyze_abrupt_end: one analysis, or none.  "heavy" is the last heavy job
\* among the starts, with the time from it to the end.
AbruptEnd(t) ==
    LET stamped == Stamped(t.journal)
        starts == Starts(t.journal)
        last == SelectLastInSeq(starts, Heavy)
    IN IF stamped = <<>> \/ EndedWithShutdown(t.journal) THEN {}
       ELSE {[heavy |-> IF last = 0 THEN {}
                        ELSE {[job |-> starts[last].line,
                               before |-> Last(stamped).at - starts[last].at]},
              starts |-> starts,
              checked |-> Len(t.endings),
              stops |-> Len(SelectSeq(t.endings, LAMBDA clean : ~clean)),
              down |-> t.down,
              vendor |-> t.vendor]}

\* The heavy jobs that started right before the stop.
JustStarted(a) == {h \in a.heavy : h.before <= RightBefore}

Recurring(a) == a.stops >= 2

\* confidence.
AbruptConfidence(a) ==
    Least(800, 550 + (IF JustStarted(a) # {} THEN 100 ELSE 0)
                   + (IF Recurring(a) THEN 150 ELSE 0))

\* describe: what is said of the stop.
Described(a) ==
    {"no_shutdown_sequence", "no_known_message"}
    \cup (IF JustStarted(a) # {} THEN {"heavy_job"}
          ELSE IF a.starts # <<>> THEN {"last_start"}
          ELSE {"nothing_started"})
    \cup (IF a.down = "long" THEN {"stayed_dead"}
          ELSE IF a.down = "short" THEN {"fits_a_reset"}
          ELSE {})
    \cup (IF Recurring(a) THEN {"not_the_first_time"} ELSE {})

\* _infer_power_loss_or_unknown.
NoMatch(t) ==
    IF AbruptEnd(t) # {} THEN
        LET a == CHOOSE x \in AbruptEnd(t) : TRUE
        IN [Detection("power_loss", "high", AbruptConfidence(a),
                      SetToSeq(Described(a)))
              EXCEPT !.sources = [i \in 1..Cardinality(Described(a)) |-> "journal"],
                     !.abrupt = {a}]
    ELSE IF ~t.record /\ t.boots > 1 THEN
        [Detection("power_loss", "high", 550, <<"no_shutdown_record">>)
              EXCEPT !.sources = <<"system">>]
    ELSE
        [Detection("unknown", "medium", 300, <<"no_clear_signature">>)
              EXCEPT !.sources = <<"system">>]

\* What the lines of a shutdown and the ranked matches come to.
Verdict(t, down, ranked) ==
    IF down # <<>> /\ ~HasPanic(Corpus(t)) THEN
        [Detection("clean_shutdown", "info", 850, down)
           EXCEPT !.sources = SourcesOf(t, down)]
    ELSE IF ranked # <<>> THEN
        [Head(ranked) EXCEPT
           !.sources = SourcesOf(t, Head(ranked).evidence),
           !.alternatives = [k \in 1..Len(ranked) - 1 |->
                                 Alternative(ranked[k + 1])]]
    ELSE NoMatch(t)

\* detect_crash_type.
Detect(t) == Verdict(t, ShutdownHits(t), Ranked(Matched(t)))
=============================================================================
