--------------------------- MODULE CrashAnalysis ----------------------------
(***************************************************************************)
(* What a report says of a detection (analyzers/ai_analyzer.py,            *)
(* analyzers/heuristic_advice.py, monitor.check_and_analyze).              *)
(*                                                                         *)
(* A detection is saved as a report at once.  The language model, when a   *)
(* key is configured, then answers, fails, or is given up on; without a    *)
(* key, and when it fails, the built-in advice for the detection is used.  *)
(* What either returns is laid over the saved analysis, field by field.    *)
(***************************************************************************)
EXTENDS CrashDetector

CONSTANT Null  \* a field the answer gives as null, or as no text where text is due

\* The model fails as a whole: no key accepted, too many requests, text that
\* is not an object in JSON, anything else.
Failure == {"authentication", "rate_limit", "not_json", "other"}

\* What is null is no list and no severity.
ASSUME CrashAnalysisAssumption ==
    /\ Null \notin Seq([type : CrashType, confidence : Nat, evidence : Seq(Entry)])
    /\ Null \notin DOMAIN Rank

-----------------------------------------------------------------------------
(* heuristic_advice.py. *)

\* _ADVICE: the types with an entry of their own.
Advised == CrashType \ {"unknown"}

\* advice_for.
AdviceFor(type) ==
    [cause |-> IF type \in Advised THEN {type} ELSE {"unknown"},
     steps |-> IF type = "clean_shutdown" THEN <<>>
               ELSE IF type \in Advised THEN <<type>>
               ELSE <<"unknown">>,
     factors |-> {}]

\* Mutant: every heavy job of the last minutes is held against the supply.
SuspectsAny(a) == a.heavy

\* The heavy job that is named, if any.
Suspects(a) == JustStarted(a)

\* _sudden_stop_advice.
SuddenStopAdvice(a) ==
    LET gpu == \E h \in Suspects(a) : "gpu_load" \in Matches[h.job]
        load == IF gpu THEN <<"cap_the_GPU", a.vendor>>
                ELSE IF Suspects(a) # {} THEN <<"less_load_at_once">>
                ELSE <<>>
        endings == IF Recurring(a) THEN <<"compare_the_endings">> ELSE <<>>
    IN [cause |-> {"sudden_stop"}
                    \cup (IF Suspects(a) # {} THEN {"heavy_job"} ELSE {})
                    \cup (IF Recurring(a) THEN {"not_the_first_time"} ELSE {}),
        steps |-> load \o <<"rate_the_supply", "reseat", "read_the_BMC">>
                    \o endings \o <<"test_the_memory">>,
        factors |-> (IF Suspects(a) # {} THEN {"heavy_load"} ELSE {})
                      \cup (IF Recurring(a) THEN {"same_ending"} ELSE {})]

\* advice_for_detection.
Advice(d) ==
    IF d.type = "power_loss" /\ d.abrupt # {}
    THEN SuddenStopAdvice(CHOOSE a \in d.abrupt : TRUE)
    ELSE AdviceFor(d.type)

-----------------------------------------------------------------------------
(* ai_analyzer.py. *)

\* _build_heuristic_evidence: five lines, each with its source.
EvidenceItems(d) ==
    [i \in 1..Least(5, Len(d.evidence)) |->
        [source |-> IF i <= Len(d.sources) THEN d.sources[i] ELSE "system",
         excerpt |-> d.evidence[i]]]

\* _build_heuristic_alternatives.
RunnersUp(d) ==
    IF d.confidence >= 800 THEN <<>>
    ELSE SubSeq(d.alternatives, 1, Least(3, Len(d.alternatives)))

\* _no_api_key_result and, with an error, _error_result.
HeuristicResult(d, error) ==
    [type |-> d.type, severity |-> d.severity, confidence |-> d.confidence,
     cause |-> Advice(d).cause, steps |-> Advice(d).steps,
     evidence |-> EvidenceItems(d), alternatives |-> RunnersUp(d),
     timeline |-> <<>>, ai |-> FALSE, error |-> error]

\* Mutant: a null list of alternatives is passed on.
FilledIfAbsent(answer, field, default) ==
    IF field \notin DOMAIN answer THEN default ELSE answer[field]

\* setdefault, and for the alternatives null as well.
Filled(answer, field, default) ==
    IF \/ field \notin DOMAIN answer
       \/ answer[field] = Null /\ field = "alternatives"
    THEN default
    ELSE answer[field]

\* The answer of the model with what it left out filled in.
ModelResult(d, answer) ==
    LET filled == [type |-> Filled(answer, "type", d.type),
                   severity |-> Filled(answer, "severity", d.severity),
                   confidence |-> Filled(answer, "confidence", d.confidence),
                   alternatives |-> Filled(answer, "alternatives", <<>>),
                   ai |-> TRUE]
    IN [f \in DOMAIN filled \cup DOMAIN answer |->
          IF f \in DOMAIN filled THEN filled[f] ELSE answer[f]]

\* The analysis in the report saved at once: what was detected, and a timeline
\* built from the log.
Preliminary(t, d) ==
    [heuristic |-> [type |-> d.type, severity |-> d.severity,
                    confidence |-> d.confidence, evidence |-> d.evidence],
     timeline |-> Corpus(t), ai |-> FALSE]

\* dict.update: the fields of the result are added to those of the report or
\* replace them.
Updated(report, result) ==
    [f \in DOMAIN report \cup DOMAIN result |->
        IF f \in DOMAIN result THEN result[f] ELSE report[f]]
=============================================================================
