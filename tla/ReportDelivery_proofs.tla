----------------------- MODULE ReportDelivery_proofs ------------------------
(***************************************************************************)
(* Proofs about ReportDelivery, for any number of analyses and heartbeats  *)
(* and any bounds: its type invariant, the safety invariants its runs      *)
(* check, and that every step is a step of ReportOutbox.                   *)
(***************************************************************************)
EXTENDS ReportDelivery, FiniteSetTheorems, TLAPS

\* Process states in which a process holds a copy of a report.
Holding == {"analyze", "remember", "prune", "posting", "accepted", "refused",
            "failed"}

\* Heartbeats that were just told that the cloud refuses r.
Pending(r) == {h \in Heartbeat : pc[h] = "refused" /\ job[h].id = r}

\* Rows and copies carry identifiers that were given out.
IdsIssued ==
    /\ \A r \in Report : Stored(r) => r <= issued
    /\ \A p \in Proc : pc[p] \in Holding => job[p].id \in 1..issued
    /\ \A p \in Proc : \A c \in listed[p] : c.id \in 1..issued

\* The strengthenings that make the safety invariants inductive: a
\* process about to confirm was accepted; every refusal about to be counted
\* is one the cloud gave; an analysis past its save has its boot on record.
AcceptedHasArrived ==
    \A p \in Proc : pc[p] = "accepted" => received[job[p].id] # {}

RefusalsCounted ==
    \A r \in Report :
        \/ refusals[r] = MaxPushRejections
        \/ row[r].rejections + Cardinality(Pending(r)) <= refusals[r]

SavedBeforeRemembered ==
    /\ lastAnalyzed <= boot
    /\ boot \in KnownBoots =>
          \A a \in Analyzer :
              pc[a] \in {"analyze", "remember"} => bootReport # 0

\* The report of this boot has its identifier.
BootReportIssued == bootReport <= issued

\* The inductive invariants, in the order of the sections below.  Each is
\* kept by every step that starts in TypeInv.
TypeInv == TypeOK /\ IdsIssued
ArrivalInv == PushedHasArrived /\ AcceptedHasArrived
SavedInv == SavedBeforeRemembered /\ AnalyzedMeansSaved
StepInv == TypeInv /\ BootReportIssued /\ ArrivalInv /\ RefusalsCounted

-----------------------------------------------------------------------------

USE DeliveryAssumption DEF Boot, Report

(* Types and identifiers *)

LEMMA InitType == Init => TypeInv
BY DEF Init, TypeInv, TypeOK, IdsIssued, Stored, Holding, Row, NoRow, Copy,
       NoCopy, PcState

\* A step that keeps the rows, or clears some, and moves one process on.
LEMMA GotoType ==
    ASSUME TypeInv, NEW p \in Proc, NEW s \in PcState, Goto(p, s),
           s \in Holding => job[p].id \in 1..issued,
           UNCHANGED issued,
           row' \in [Report -> Row],
           \A r \in Report : Stored(r)' => Stored(r)
    PROVE  /\ pc' \in [Proc -> PcState]
           /\ job' \in [Proc -> Copy]
           /\ listed' \in [Proc -> SUBSET Copy]
           /\ IdsIssued'
<1> USE DEF TypeInv, TypeOK, Goto, Copy, NoCopy
<1>1. /\ pc' \in [Proc -> PcState]
      /\ job' \in [Proc -> Copy]
      /\ listed' \in [Proc -> SUBSET Copy]
  OBVIOUS
<1>2. \A r \in Report : Stored(r)' => r <= issued'
  BY DEF IdsIssued
<1>3. \A q \in Proc : pc'[q] \in Holding => job'[q].id \in 1..issued'
  <2> SUFFICES ASSUME NEW q \in Proc, pc'[q] \in Holding
               PROVE  job'[q].id \in 1..issued'
    OBVIOUS
  <2>1. CASE q = p
    BY <2>1 DEF Holding
  <2>2. CASE q # p
    BY <2>2 DEF IdsIssued
  <2>3. QED
    BY <2>1, <2>2
<1>4. \A q \in Proc : \A c \in listed'[q] : c.id \in 1..issued'
  BY DEF IdsIssued
<1>5. QED
  BY <1>1, <1>2, <1>3, <1>4 DEF IdsIssued

LEMMA AnalysisType ==
    ASSUME TypeInv, NEW a \in Analyzer, AnalysisStep(a)
    PROVE  TypeInv'
<1> USE DEF TypeInv
<1>0. a \in Proc
  BY DEF Proc
<1>1. ASSUME NEW force \in BOOLEAN, StartAnalysis(a, force)
      PROVE  TypeInv'
  <2> DEFINE s == IF force THEN "forced" ELSE "detect"
  <2>1. s \in PcState /\ s \notin Holding
    BY DEF PcState, Holding
  <2>2. Goto(a, s)
    BY <1>1 DEF StartAnalysis
  <2> HIDE DEF s
  <2>3. /\ pc' \in [Proc -> PcState]
        /\ job' \in [Proc -> Copy]
        /\ listed' \in [Proc -> SUBSET Copy]
        /\ IdsIssued'
    BY <1>0, <1>1, <2>1, <2>2, GotoType
       DEF StartAnalysis, TypeOK, storeVars, Stored
  <2>4. QED
    BY <1>1, <2>3 DEF StartAnalysis, TypeOK, machineVars, storeVars, cloudVars
<1>2. CASE FindCleanShutdown(a)
  <2>1. /\ pc' \in [Proc -> PcState]
        /\ job' \in [Proc -> Copy]
        /\ listed' \in [Proc -> SUBSET Copy]
        /\ IdsIssued'
    BY <1>0, <1>2, GotoType
       DEF FindCleanShutdown, TypeOK, recordVars, Stored, PcState, Holding
  <2>2. QED
    BY <1>2, <2>1
       DEF FindCleanShutdown, MarkBootAnalyzed, TypeOK, machineVars,
           recordVars, cloudVars
<1>3. CASE SaveReport(a)
  <2> DEFINE id == IF boot \in KnownBoots /\ bootReport # 0
                     THEN bootReport ELSE issued + 1
             ver == made[id] + 1
  <2>1. /\ id \in Report
        /\ issued' = IF id > issued THEN id ELSE issued
        /\ bootReport' = IF boot \in KnownBoots THEN id ELSE 0
        /\ made' = [made EXCEPT ![id] = ver]
        /\ row' = [row EXCEPT ![id] =
                     [ver |-> ver, pushed |-> FALSE, rejections |-> 0]]
        /\ job' = [job EXCEPT ![a] = [id |-> id, ver |-> ver]]
        /\ pc' = [pc EXCEPT ![a] = "analyze"]
        /\ UNCHANGED <<machineVars, runs, lastAnalyzed, cloudVars, listed>>
    BY <1>3 DEF SaveReport
  <2>2. id \in Nat
    BY <2>1
  <2> HIDE DEF id
  <2>3. ver \in Nat /\ made' \in [Report -> Nat]
    BY <2>1 DEF TypeOK
  <2> HIDE DEF ver
  <2>4. row' \in [Report -> Row]
    BY <2>1, <2>3 DEF TypeOK, Row
  <2>5. job' \in [Proc -> Copy]
    BY <2>1, <2>2, <2>3 DEF TypeOK, Copy
  <2>6. issued' \in 0..MaxRuns /\ issued <= issued' /\ id <= issued'
    BY <2>1, <2>2 DEF TypeOK
  <2>7. \A r \in Report : Stored(r)' => r <= issued'
    BY <2>1, <2>6 DEF TypeOK, Stored, IdsIssued
  <2>8. \A q \in Proc : pc'[q] \in Holding => job'[q].id \in 1..issued'
    <3> SUFFICES ASSUME NEW q \in Proc, pc'[q] \in Holding
                 PROVE  job'[q].id \in 1..issued'
      OBVIOUS
    <3>1. CASE q = a
      BY <2>1, <2>6, <3>1 DEF TypeOK
    <3>2. CASE q # a
      BY <2>1, <2>6, <3>2 DEF TypeOK, IdsIssued
    <3>3. QED
      BY <3>1, <3>2
  <2>9. IdsIssued'
    BY <2>1, <2>6, <2>7, <2>8 DEF TypeOK, IdsIssued, Copy
  <2>10. TypeOK'
    BY <2>1, <2>3, <2>4, <2>5, <2>6
       DEF TypeOK, machineVars, cloudVars, PcState
  <2>11. QED
    BY <2>9, <2>10
<1>4. CASE FinishAnalysis(a)
  <2> DEFINE id == job[a].id
             ver == made[id] + 1
  <2>1. /\ pc[a] = "analyze"
        /\ made' = [made EXCEPT ![id] = ver]
        /\ job' = [job EXCEPT ![a].ver = ver]
        /\ row' = IF Stored(id) THEN [row EXCEPT ![id].ver = ver] ELSE row
        /\ pc' = [pc EXCEPT ![a] = "remember"]
        /\ UNCHANGED <<machineVars, bootReport, issued, runs, lastAnalyzed,
                       cloudVars, listed>>
    BY <1>4 DEF FinishAnalysis
  <2>2. id \in Report
    BY <1>0, <2>1 DEF TypeOK, IdsIssued, Holding
  <2> HIDE DEF id
  <2>3. ver \in Nat /\ made' \in [Report -> Nat]
    BY <2>1, <2>2 DEF TypeOK
  <2>4. /\ job' \in [Proc -> Copy]
        /\ \A q \in Proc : job'[q].id = job[q].id
    BY <1>0, <2>1, <2>3 DEF TypeOK, Copy
  <2> HIDE DEF ver
  <2>5. /\ row' \in [Report -> Row]
        /\ \A r \in Report : Stored(r)' => Stored(r)
    <3>1. CASE Stored(id)
      BY <2>1, <2>2, <2>3, <3>1 DEF TypeOK, Row, Stored
    <3>2. CASE ~Stored(id)
      BY <2>1, <3>2 DEF TypeOK, Stored
    <3>3. QED
      BY <3>1, <3>2
  <2>6. TypeOK'
    BY <2>1, <2>3, <2>4, <2>5 DEF TypeOK, machineVars, cloudVars, PcState
  <2>7. \A q \in Proc : pc'[q] \in Holding => pc[q] \in Holding
    BY <2>1 DEF TypeOK, Holding
  <2>8. IdsIssued'
    BY <2>1, <2>4, <2>5, <2>7 DEF IdsIssued
  <2>9. QED
    BY <2>6, <2>8
<1>5. CASE TimeOutAnalysis(a)
  <2>1. /\ pc' \in [Proc -> PcState]
        /\ job' \in [Proc -> Copy]
        /\ listed' \in [Proc -> SUBSET Copy]
        /\ IdsIssued'
    BY <1>0, <1>5, GotoType
       DEF TimeOutAnalysis, TypeOK, IdsIssued, recordVars, storeVars, Stored,
           PcState, Holding
  <2>2. QED
    BY <1>5, <2>1
       DEF TimeOutAnalysis, TypeOK, machineVars, recordVars, storeVars,
           cloudVars
<1>6. CASE RememberBoot(a)
  <2>1. /\ pc' \in [Proc -> PcState]
        /\ job' \in [Proc -> Copy]
        /\ listed' \in [Proc -> SUBSET Copy]
        /\ IdsIssued'
    BY <1>0, <1>6, GotoType
       DEF RememberBoot, TypeOK, IdsIssued, recordVars, Stored, PcState,
           Holding
  <2>2. QED
    BY <1>6, <2>1
       DEF RememberBoot, MarkBootAnalyzed, TypeOK, machineVars, recordVars,
           cloudVars
<1>7. CASE PruneOldReports(a)
  <2>1. /\ row' \in [Report -> Row]
        /\ \A r \in Report : Stored(r)' => Stored(r)
    BY <1>7 DEF PruneOldReports, TypeOK, Row, NoRow, Stored
  <2>2. /\ pc' \in [Proc -> PcState]
        /\ job' \in [Proc -> Copy]
        /\ listed' \in [Proc -> SUBSET Copy]
        /\ IdsIssued'
    BY <1>0, <1>7, <2>1, GotoType
       DEF PruneOldReports, TypeOK, IdsIssued, recordVars, PcState, Holding
  <2>3. QED
    BY <1>7, <2>1, <2>2
       DEF PruneOldReports, TypeOK, machineVars, recordVars, cloudVars
<1>8. CASE EndAnalysis(a)
  <2>1. /\ pc' \in [Proc -> PcState]
        /\ job' \in [Proc -> Copy]
        /\ listed' \in [Proc -> SUBSET Copy]
        /\ IdsIssued'
    BY <1>0, <1>8, GotoType
       DEF EndAnalysis, TypeOK, recordVars, storeVars, Stored, PcState, Holding
  <2>2. QED
    BY <1>8, <2>1
       DEF EndAnalysis, TypeOK, machineVars, recordVars, storeVars, cloudVars
<1>9. QED
  BY <1>1, <1>2, <1>3, <1>4, <1>5, <1>6, <1>7, <1>8 DEF AnalysisStep

\* A list holds copies of stored rows.
LEMMA ListType ==
    ASSUME TypeInv
    PROVE  /\ ListUnpushed \in SUBSET Copy
           /\ \A c \in ListUnpushed : c.id \in Report /\ Stored(c.id)
<1> SUFFICES ASSUME NEW c \in ListUnpushed
             PROVE  c \in Copy /\ c.id \in Report /\ Stored(c.id)
  OBVIOUS
<1>1. PICK r \in Report : Queued(r) /\ c = [id |-> r, ver |-> row[r].ver]
  BY DEF ListUnpushed
<1>2. row[r] \in Row
  BY DEF TypeInv, TypeOK
<1>3. QED
  BY <1>1, <1>2 DEF Queued, Copy, Row

LEMMA BackfillType ==
    ASSUME TypeInv, NEW h \in Heartbeat, BackfillStep(h)
    PROVE  TypeInv'
<1> USE DEF TypeInv
<1>0. h \in Proc
  BY DEF Proc
<1>1. CASE BeginCycle(h)
  <2>1. /\ listed' = [listed EXCEPT ![h] = ListUnpushed]
        /\ pc' = [pc EXCEPT ![h] = "cycle"]
        /\ UNCHANGED <<machineVars, recordVars, storeVars, cloudVars, job>>
    BY <1>1 DEF BeginCycle
  <2>2. TypeOK'
    BY <2>1, ListType
       DEF TypeOK, machineVars, recordVars, storeVars, cloudVars, PcState
  <2>3. \A q \in Proc : \A c \in listed'[q] : c.id \in 1..issued'
    BY <2>1, ListType DEF TypeOK, IdsIssued, recordVars
  <2>4. \A q \in Proc : pc'[q] \in Holding => job'[q].id \in 1..issued'
    BY <2>1 DEF TypeOK, IdsIssued, recordVars, Holding
  <2>5. QED
    BY <2>1, <2>2, <2>3, <2>4 DEF IdsIssued, storeVars, recordVars, Stored
<1>2. CASE PostNext(h)
  <2>1. PICK c \in listed[h] :
           /\ job' = [job EXCEPT ![h] = c]
           /\ listed' = [listed EXCEPT ![h] = @ \ {c}]
    BY <1>2 DEF PostNext
  <2>2. /\ pc' = [pc EXCEPT ![h] = "posting"]
        /\ UNCHANGED <<machineVars, recordVars, storeVars, cloudVars>>
    BY <1>2 DEF PostNext
  <2>3. c \in Copy /\ c.id \in 1..issued
    BY <1>0, <2>1 DEF TypeOK, IdsIssued
  <2>4. TypeOK'
    BY <2>1, <2>2, <2>3
       DEF TypeOK, machineVars, recordVars, storeVars, cloudVars, PcState
  <2>5. \A q \in Proc : pc'[q] \in Holding => job'[q].id \in 1..issued'
    BY <1>0, <2>1, <2>2, <2>3 DEF TypeOK, IdsIssued, recordVars
  <2>6. \A q \in Proc : \A d \in listed'[q] : d.id \in 1..issued'
    BY <1>0, <2>1, <2>2 DEF TypeOK, IdsIssued, recordVars
  <2>7. QED
    BY <2>2, <2>4, <2>5, <2>6 DEF IdsIssued, storeVars, recordVars, Stored
<1>3. CASE EndCycle(h)
  <2>1. /\ pc' \in [Proc -> PcState]
        /\ job' \in [Proc -> Copy]
        /\ listed' \in [Proc -> SUBSET Copy]
        /\ IdsIssued'
    BY <1>0, <1>3, GotoType
       DEF EndCycle, TypeOK, recordVars, storeVars, Stored, PcState, Holding
  <2>2. QED
    BY <1>3, <2>1
       DEF EndCycle, TypeOK, machineVars, recordVars, storeVars, cloudVars
<1>4. CASE CountRefusal(h)
  <2>1. job[h].id \in Report
    BY <1>0, <1>4 DEF CountRefusal, TypeOK, IdsIssued, Holding
  <2>2. /\ row' \in [Report -> Row]
        /\ \A r \in Report : Stored(r)' => Stored(r)
    <3> DEFINE id == job[h].id
    <3>1. row' = IF Stored(id)
                   THEN [row EXCEPT ![id].rejections = @ + 1] ELSE row
      BY <1>4 DEF CountRefusal
    <3>0. id \in Report
      BY <2>1
    <3> HIDE DEF id
    <3>2. CASE Stored(id)
      <4>1. row[id] \in Row /\ row[id].rejections + 1 \in Nat
        BY <3>0 DEF TypeOK, Row
      <4>2. row' = [row EXCEPT ![id] =
                      [row[id] EXCEPT !.rejections = row[id].rejections + 1]]
        BY <3>0, <3>1, <3>2 DEF TypeOK
      <4>3. QED
        BY <3>0, <4>1, <4>2 DEF TypeOK, Row, Stored
    <3>3. CASE ~Stored(id)
      BY <3>1, <3>3 DEF TypeOK, Stored
    <3>4. QED
      BY <3>2, <3>3
  <2>3. /\ pc' \in [Proc -> PcState]
        /\ job' \in [Proc -> Copy]
        /\ listed' \in [Proc -> SUBSET Copy]
        /\ IdsIssued'
    BY <1>0, <1>4, <2>2, GotoType
       DEF CountRefusal, recordVars, PcState, Holding
  <2>4. QED
    BY <1>4, <2>2, <2>3
       DEF CountRefusal, TypeOK, machineVars, recordVars, cloudVars
<1>5. QED
  BY <1>1, <1>2, <1>3, <1>4 DEF BackfillStep

LEMMA PushType ==
    ASSUME TypeInv, NEW p \in Proc, PushStep(p)
    PROVE  TypeInv'
<1> USE DEF TypeInv
<1>1. job[p].id \in Report /\ job[p].id \in 1..issued /\ job[p].ver \in Nat
  BY DEF PushStep, Accept, Refuse, NoAnswer, ConfirmPush, TypeOK, IdsIssued,
         Holding, Copy
<1>2. CASE Accept(p)
  <2>1. /\ pc' \in [Proc -> PcState]
        /\ job' \in [Proc -> Copy]
        /\ listed' \in [Proc -> SUBSET Copy]
        /\ IdsIssued'
    BY <1>1, <1>2, GotoType
       DEF Accept, TypeOK, recordVars, storeVars, Stored, PcState, Holding
  <2>2. received' \in [Report -> SUBSET Nat]
    BY <1>1, <1>2 DEF Accept, TypeOK
  <2>3. QED
    BY <1>2, <2>1, <2>2 DEF Accept, TypeOK, machineVars, recordVars, storeVars
<1>3. CASE Refuse(p)
  <2> DEFINE s == IF p \in Heartbeat THEN "refused" ELSE AfterFailure(p)
  <2>1. s \in PcState
    BY DEF AfterFailure, PcState
  <2>2. Goto(p, s)
    BY <1>3 DEF Refuse
  <2> HIDE DEF s
  <2>3. /\ pc' \in [Proc -> PcState]
        /\ job' \in [Proc -> Copy]
        /\ listed' \in [Proc -> SUBSET Copy]
        /\ IdsIssued'
    BY <1>1, <1>3, <2>1, <2>2, GotoType
       DEF Refuse, TypeOK, recordVars, storeVars, Stored
  <2>4. refusals' \in [Report -> 0..MaxPushRejections]
    BY <1>1, <1>3 DEF Refuse, TypeOK
  <2>5. QED
    BY <1>3, <2>3, <2>4 DEF Refuse, TypeOK, machineVars, recordVars, storeVars
<1>4. CASE NoAnswer(p)
  <2>1. AfterFailure(p) \in PcState
    BY DEF AfterFailure, PcState
  <2>2. /\ pc' \in [Proc -> PcState]
        /\ job' \in [Proc -> Copy]
        /\ listed' \in [Proc -> SUBSET Copy]
        /\ IdsIssued'
    BY <1>1, <1>4, <2>1, GotoType
       DEF NoAnswer, TypeOK, recordVars, storeVars, Stored
  <2>3. received' \in [Report -> SUBSET Nat]
    BY <1>1, <1>4 DEF NoAnswer, TypeOK
  <2>4. QED
    BY <1>4, <2>2, <2>3
       DEF NoAnswer, TypeOK, machineVars, recordVars, storeVars
<1>5. CASE ConfirmPush(p)
  <2> DEFINE s == IF p \in Analyzer THEN "idle" ELSE "cycle"
  <2>1. s \in PcState
    BY DEF PcState
  <2>2. Goto(p, s)
    BY <1>5 DEF ConfirmPush
  <2> HIDE DEF s
  <2>3. /\ row' \in [Report -> Row]
        /\ \A r \in Report : Stored(r)' => Stored(r)
    BY <1>1, <1>5 DEF ConfirmPush, TypeOK, Row, Stored
  <2>4. /\ pc' \in [Proc -> PcState]
        /\ job' \in [Proc -> Copy]
        /\ listed' \in [Proc -> SUBSET Copy]
        /\ IdsIssued'
    BY <1>1, <1>5, <2>1, <2>2, <2>3, GotoType DEF ConfirmPush, recordVars
  <2>5. QED
    BY <1>5, <2>3, <2>4
       DEF ConfirmPush, TypeOK, machineVars, recordVars, cloudVars
<1>6. QED
  BY <1>2, <1>3, <1>4, <1>5 DEF PushStep

LEMMA MachineType ==
    ASSUME TypeInv,
           \/ \E p \in Proc : Kill(p)
           \/ \E r \in Report : DeleteReport(r)
           \/ Reboot
           \/ UNCHANGED vars
    PROVE  TypeInv'
<1> USE DEF TypeInv
<1>1. ASSUME NEW p \in Proc, Kill(p)
      PROVE  TypeInv'
  <2>1. /\ pc' \in [Proc -> PcState]
        /\ job' \in [Proc -> Copy]
        /\ listed' \in [Proc -> SUBSET Copy]
        /\ IdsIssued'
    BY <1>1, GotoType
       DEF Kill, TypeOK, recordVars, storeVars, Stored, PcState, Holding
  <2>2. QED
    BY <1>1, <2>1
       DEF Kill, TypeOK, machineVars, recordVars, storeVars, cloudVars
<1>2. ASSUME NEW r \in Report, DeleteReport(r)
      PROVE  TypeInv'
  <2>1. TypeOK'
    BY <1>2 DEF DeleteReport, TypeOK, Row, NoRow, machineVars, recordVars,
                cloudVars, procVars
  <2>2. IdsIssued'
    BY <1>2 DEF DeleteReport, TypeOK, IdsIssued, Stored, NoRow, recordVars,
                procVars
  <2>3. QED
    BY <2>1, <2>2
<1>3. CASE Reboot
  <2>1. TypeOK'
    BY <1>3 DEF Reboot, TypeOK, Copy, NoCopy, PcState, storeVars, cloudVars
  <2>2. IdsIssued'
    BY <1>3 DEF Reboot, TypeOK, IdsIssued, Stored, Holding, storeVars
  <2>3. QED
    BY <2>1, <2>2
<1>4. CASE UNCHANGED vars
  BY <1>4 DEF vars, TypeOK, IdsIssued, Stored
<1>5. QED
  BY <1>1, <1>2, <1>3, <1>4

LEMMA NextType == TypeInv /\ [Next]_vars => TypeInv'
BY AnalysisType, BackfillType, PushType, MachineType DEF Next

\* The variables keep their types, and every copy and row its identifier.
THEOREM TypeCorrect == Spec => []TypeOK
<1>1. Spec => []TypeInv
  BY InitType, NextType, PTL DEF Spec
<1>2. TypeInv => TypeOK
  BY DEF TypeInv
<1>3. QED
  BY <1>1, <1>2, PTL

-----------------------------------------------------------------------------
(* Nothing is recorded as delivered that did not arrive *)

LEMMA ArrivalByCases ==
    ASSUME TypeInv, TypeInv', ArrivalInv,
           \A r \in Report : received[r] \subseteq received'[r],
           \A r \in Report : Stored(r)' /\ row'[r].pushed =>
               \/ Stored(r) /\ row[r].pushed
               \/ received'[r] # {},
           \A q \in Proc : pc'[q] = "accepted" =>
               \/ pc[q] = "accepted" /\ job'[q] = job[q]
               \/ received'[job'[q].id] # {}
    PROVE  ArrivalInv'
<1>1. PushedHasArrived'
  BY DEF ArrivalInv, PushedHasArrived, Sent
<1>2. AcceptedHasArrived'
  <2> SUFFICES ASSUME NEW q \in Proc, pc'[q] = "accepted"
               PROVE  received'[job'[q].id] # {}
    BY DEF AcceptedHasArrived
  <2>1. CASE pc[q] = "accepted" /\ job'[q] = job[q]
    <3>1. job[q].id \in Report
      BY <2>1 DEF TypeInv, TypeOK, IdsIssued, Holding
    <3>2. QED
      BY <2>1, <3>1 DEF ArrivalInv, AcceptedHasArrived
  <2>2. QED
    BY <2>1
<1>3. QED
  BY <1>1, <1>2 DEF ArrivalInv

LEMMA AnalysisArrival ==
    ASSUME TypeInv, TypeInv', ArrivalInv, NEW a \in Analyzer, AnalysisStep(a)
    PROVE  ArrivalInv'
<1>1. \A r \in Report : received[r] \subseteq received'[r]
  BY DEF AnalysisStep, StartAnalysis, FindCleanShutdown, SaveReport,
         FinishAnalysis, TimeOutAnalysis, RememberBoot, PruneOldReports,
         EndAnalysis, cloudVars
<1>2. \A q \in Proc : pc'[q] = "accepted" =>
         pc[q] = "accepted" /\ job'[q] = job[q]
  BY DEF AnalysisStep, StartAnalysis, FindCleanShutdown, SaveReport,
         FinishAnalysis, TimeOutAnalysis, RememberBoot, PruneOldReports,
         EndAnalysis, Goto, TypeInv, TypeOK
<1>3. \A r \in Report : Stored(r)' /\ row'[r].pushed =>
         Stored(r) /\ row[r].pushed
  <2>1. CASE SaveReport(a)
    BY <2>1 DEF SaveReport, TypeInv, TypeOK, Row, Stored
  <2>2. CASE FinishAnalysis(a)
    <3> DEFINE id == job[a].id
               ver == made[id] + 1
    <3>1. row' = IF Stored(id) THEN [row EXCEPT ![id].ver = ver] ELSE row
      BY <2>2 DEF FinishAnalysis
    <3> HIDE DEF id, ver
    <3>2. CASE Stored(id)
      <4>1. row \in [Report -> Row] /\ row' = [row EXCEPT ![id].ver = ver]
        BY <3>1, <3>2 DEF TypeInv, TypeOK
      <4>2. \A r \in Report : row'[r].pushed = row[r].pushed
        BY <4>1 DEF Row
      <4>3. \A r \in Report : r = id \/ row'[r] = row[r]
        BY <4>1
      <4>4. QED
        BY <3>2, <4>2, <4>3 DEF Stored
    <3>3. CASE ~Stored(id)
      BY <3>1, <3>3 DEF Stored
    <3>4. QED
      BY <3>2, <3>3
  <2>3. CASE PruneOldReports(a)
    BY <2>3 DEF PruneOldReports, Stored, NoRow
  <2>4. CASE UNCHANGED row
    BY <2>4 DEF Stored
  <2>5. QED
    BY <2>1, <2>2, <2>3, <2>4
       DEF AnalysisStep, StartAnalysis, FindCleanShutdown, TimeOutAnalysis,
           RememberBoot, EndAnalysis, storeVars
<1>4. QED
  BY <1>1, <1>2, <1>3, ArrivalByCases

LEMMA BackfillArrival ==
    ASSUME TypeInv, TypeInv', ArrivalInv, NEW h \in Heartbeat, BackfillStep(h)
    PROVE  ArrivalInv'
<1>1. \A r \in Report : received[r] \subseteq received'[r]
  BY DEF BackfillStep, BeginCycle, PostNext, EndCycle, CountRefusal, cloudVars
<1>2. \A q \in Proc : pc'[q] = "accepted" =>
         pc[q] = "accepted" /\ job'[q] = job[q]
  BY DEF BackfillStep, BeginCycle, PostNext, EndCycle, CountRefusal, Goto,
         TypeInv, TypeOK
<1>3. \A r \in Report : Stored(r)' /\ row'[r].pushed =>
         Stored(r) /\ row[r].pushed
  <2>1. CASE CountRefusal(h)
    <3> DEFINE id == job[h].id
    <3>1. row' = IF Stored(id)
                   THEN [row EXCEPT ![id].rejections = @ + 1] ELSE row
      BY <2>1 DEF CountRefusal
    <3> HIDE DEF id
    <3>2. CASE Stored(id)
      <4>1. row \in [Report -> Row] /\ row' = [row EXCEPT ![id].rejections = @ + 1]
        BY <3>1, <3>2 DEF TypeInv, TypeOK
      <4>2. \A r \in Report : row'[r].pushed = row[r].pushed
        BY <4>1 DEF Row
      <4>3. \A r \in Report : r = id \/ row'[r] = row[r]
        BY <4>1
      <4>4. QED
        BY <3>2, <4>2, <4>3 DEF Stored
    <3>3. CASE ~Stored(id)
      BY <3>1, <3>3 DEF Stored
    <3>4. QED
      BY <3>2, <3>3
  <2>2. CASE UNCHANGED row
    BY <2>2 DEF Stored
  <2>3. QED
    BY <2>1, <2>2 DEF BackfillStep, BeginCycle, PostNext, EndCycle, storeVars
<1>4. QED
  BY <1>1, <1>2, <1>3, ArrivalByCases

LEMMA PushArrival ==
    ASSUME TypeInv, TypeInv', ArrivalInv, NEW p \in Proc, PushStep(p)
    PROVE  ArrivalInv'
<1>1. job[p].id \in Report
  BY DEF PushStep, Accept, Refuse, NoAnswer, ConfirmPush, TypeInv, TypeOK,
         IdsIssued, Holding
<1>2. CASE Accept(p)
  <2>1. /\ received' = [received EXCEPT ![job[p].id] = @ \cup {job[p].ver}]
        /\ pc' = [pc EXCEPT ![p] = "accepted"]
        /\ job' = job
        /\ row' = row
    BY <1>2 DEF Accept, Goto, storeVars
  <2>2. \A q \in Proc : pc'[q] = "accepted" =>
           \/ pc[q] = "accepted" /\ job'[q] = job[q]
           \/ received'[job'[q].id] # {}
    BY <1>1, <2>1 DEF TypeInv, TypeOK
  <2>3. \A r \in Report : received[r] \subseteq received'[r]
    BY <1>1, <2>1 DEF TypeInv, TypeOK
  <2>4. QED
    BY <2>1, <2>2, <2>3, ArrivalByCases DEF Stored
<1>3. CASE Refuse(p)
  BY <1>3, ArrivalByCases
     DEF Refuse, Goto, AfterFailure, TypeInv, TypeOK, storeVars, Stored
<1>4. CASE NoAnswer(p)
  <2>1. \A r \in Report : received[r] \subseteq received'[r]
    BY <1>1, <1>4 DEF NoAnswer, TypeInv, TypeOK
  <2>2. QED
    BY <1>4, <2>1, ArrivalByCases
       DEF NoAnswer, Goto, AfterFailure, TypeInv, TypeOK, storeVars, Stored
<1>5. CASE ConfirmPush(p)
  <2> DEFINE id == job[p].id
  <2>1. /\ row' = IF Stored(id) THEN [row EXCEPT ![id].pushed = TRUE] ELSE row
        /\ received' = received
    BY <1>5 DEF ConfirmPush, cloudVars
  <2>2. received[id] # {}
    BY <1>5 DEF ConfirmPush, ArrivalInv, AcceptedHasArrived
  <2> HIDE DEF id
  <2>3. \A r \in Report : Stored(r)' /\ row'[r].pushed =>
           \/ Stored(r) /\ row[r].pushed
           \/ received'[r] # {}
    BY <2>1, <2>2 DEF TypeInv, TypeOK, Row, Stored
  <2>4. \A q \in Proc : pc'[q] = "accepted" =>
           pc[q] = "accepted" /\ job'[q] = job[q]
    BY <1>5 DEF ConfirmPush, Goto, TypeInv, TypeOK
  <2>5. QED
    BY <2>1, <2>3, <2>4, ArrivalByCases
<1>6. QED
  BY <1>2, <1>3, <1>4, <1>5 DEF PushStep

LEMMA MachineArrival ==
    ASSUME TypeInv, TypeInv', ArrivalInv,
           \/ \E p \in Proc : Kill(p)
           \/ \E r \in Report : DeleteReport(r)
           \/ Reboot
           \/ UNCHANGED vars
    PROVE  ArrivalInv'
<1>1. UNCHANGED received
  BY DEF Kill, DeleteReport, Reboot, cloudVars, vars
<1>2. \A q \in Proc : pc'[q] = "accepted" =>
         pc[q] = "accepted" /\ job'[q] = job[q]
  BY DEF Kill, DeleteReport, Reboot, Goto, procVars, vars, TypeInv, TypeOK
<1>3. \A r \in Report : Stored(r)' /\ row'[r].pushed =>
         Stored(r) /\ row[r].pushed
  <2>1. ASSUME NEW r \in Report, DeleteReport(r)
        PROVE  \A q \in Report : Stored(q)' => Stored(q) /\ row'[q] = row[q]
    BY <2>1 DEF DeleteReport, TypeInv, TypeOK, NoRow, Stored
  <2>2. CASE UNCHANGED row
    BY <2>2 DEF Stored
  <2>3. QED
    BY <2>1, <2>2 DEF Kill, Reboot, storeVars, vars
<1>4. QED
  BY <1>1, <1>2, <1>3, ArrivalByCases

LEMMA InitArrival == Init => ArrivalInv
BY DEF Init, ArrivalInv, PushedHasArrived, AcceptedHasArrived, Sent, Stored,
       NoRow

LEMMA NextArrival == TypeInv /\ ArrivalInv /\ [Next]_vars => ArrivalInv'
BY NextType, AnalysisArrival, BackfillArrival, PushArrival, MachineArrival
   DEF Next

\* A row is marked pushed only for a report the cloud has received.
THEOREM PushedArrived == Spec => []PushedHasArrived
<1>1. Spec => []ArrivalInv
  BY InitArrival, NextArrival, InitType, NextType, PTL DEF Spec
<1>2. ArrivalInv => PushedHasArrived
  BY DEF ArrivalInv
<1>3. QED
  BY <1>1, <1>2, PTL

-----------------------------------------------------------------------------
(* No crash is taken as analysed before its report is on record *)

LEMMA AnalysisSaved ==
    ASSUME TypeInv, SavedInv, NEW a \in Analyzer, AnalysisStep(a)
    PROVE  SavedInv'
<1> USE DEF TypeInv, TypeOK, SavedInv, SavedBeforeRemembered,
            AnalyzedMeansSaved
<1>0. a \in Proc /\ Analyzer \subseteq Proc
  BY DEF Proc
<1>1. boot' = boot /\ crashed' = crashed
  BY DEF AnalysisStep, StartAnalysis, FindCleanShutdown, SaveReport,
         FinishAnalysis, TimeOutAnalysis, RememberBoot, PruneOldReports,
         EndAnalysis, machineVars
<1>2. CASE SaveReport(a)
  BY <1>0, <1>1, <1>2 DEF SaveReport
<1>3. CASE FinishAnalysis(a)
  BY <1>0, <1>1, <1>3 DEF FinishAnalysis
<1>4. CASE RememberBoot(a)
  BY <1>0, <1>1, <1>4 DEF RememberBoot, MarkBootAnalyzed, Goto, recordVars
<1>5. CASE FindCleanShutdown(a)
  BY <1>0, <1>1, <1>5
     DEF FindCleanShutdown, MarkBootAnalyzed, Goto, recordVars
<1>6. CASE \/ \E force \in BOOLEAN : StartAnalysis(a, force)
           \/ TimeOutAnalysis(a)
           \/ PruneOldReports(a)
           \/ EndAnalysis(a)
  <2>1. UNCHANGED <<bootReport, lastAnalyzed>>
    BY <1>6 DEF StartAnalysis, TimeOutAnalysis, PruneOldReports, EndAnalysis,
                recordVars, storeVars
  <2>2. \A q \in Proc : pc'[q] \in {"analyze", "remember"} =>
           pc[q] \in {"analyze", "remember"}
    BY <1>0, <1>6 DEF StartAnalysis, TimeOutAnalysis, PruneOldReports,
                      EndAnalysis, Goto
  <2>3. QED
    BY <1>0, <1>1, <2>1, <2>2
<1>7. QED
  BY <1>2, <1>3, <1>4, <1>5, <1>6 DEF AnalysisStep

LEMMA OtherSaved ==
    ASSUME TypeInv, SavedInv,
           \/ \E h \in Heartbeat : BackfillStep(h)
           \/ \E p \in Proc : PushStep(p) \/ Kill(p)
           \/ \E r \in Report : DeleteReport(r)
           \/ UNCHANGED vars
    PROVE  SavedInv'
<1>1. UNCHANGED <<boot, crashed, bootReport, lastAnalyzed>>
  <2>1. ASSUME NEW h \in Heartbeat, BackfillStep(h)
        PROVE  UNCHANGED <<boot, crashed, bootReport, lastAnalyzed>>
    BY <2>1 DEF BackfillStep, BeginCycle, PostNext, EndCycle, CountRefusal,
                machineVars, recordVars, storeVars
  <2>2. ASSUME NEW p \in Proc, PushStep(p) \/ Kill(p)
        PROVE  UNCHANGED <<boot, crashed, bootReport, lastAnalyzed>>
    BY <2>2 DEF PushStep, Accept, Refuse, NoAnswer, ConfirmPush, Kill,
                machineVars, recordVars, storeVars
  <2>3. QED
    BY <2>1, <2>2 DEF DeleteReport, vars, machineVars, recordVars
<1>2. \A q \in Proc : pc'[q] \in {"analyze", "remember"} =>
         pc[q] \in {"analyze", "remember"}
  <2>1. ASSUME NEW h \in Heartbeat, BackfillStep(h), NEW q \in Proc,
               pc'[q] \in {"analyze", "remember"}
        PROVE  pc[q] \in {"analyze", "remember"}
    BY <2>1 DEF BackfillStep, BeginCycle, PostNext, EndCycle, CountRefusal,
                Goto, TypeInv, TypeOK
  <2>2. ASSUME NEW p \in Proc, PushStep(p) \/ Kill(p), NEW q \in Proc,
               pc'[q] \in {"analyze", "remember"}
        PROVE  pc[q] \in {"analyze", "remember"}
    BY <2>2 DEF PushStep, Accept, Refuse, NoAnswer, ConfirmPush, Kill,
                AfterFailure, Goto, TypeInv, TypeOK
  <2>3. QED
    BY <2>1, <2>2 DEF DeleteReport, vars, procVars
<1>3. Analyzer \subseteq Proc
  BY DEF Proc
<1>4. QED
  BY <1>1, <1>2, <1>3 DEF SavedInv, SavedBeforeRemembered, AnalyzedMeansSaved

LEMMA RebootSaved == TypeInv /\ SavedInv /\ Reboot => SavedInv'
<1> SUFFICES ASSUME TypeInv, SavedInv, Reboot
             PROVE  SavedInv'
  OBVIOUS
<1>1. lastAnalyzed' < boot'
  BY DEF Reboot, storeVars, SavedInv, SavedBeforeRemembered, TypeInv, TypeOK
<1>2. \A a \in Analyzer : pc'[a] = "idle"
  BY DEF Reboot, Proc
<1>3. boot' \in Nat /\ lastAnalyzed' \in Nat
  BY DEF Reboot, storeVars, TypeInv, TypeOK
<1>4. QED
  BY <1>1, <1>2, <1>3 DEF SavedInv, SavedBeforeRemembered, AnalyzedMeansSaved

\* A crash whose boot is recorded as analysed has a report on record.
THEOREM AnalyzedSaved == Spec => []AnalyzedMeansSaved
<1>1. Init => SavedInv
  BY DEF Init, SavedInv, SavedBeforeRemembered, AnalyzedMeansSaved, Proc
<1>2. TypeInv /\ SavedInv /\ [Next]_vars => SavedInv'
  BY AnalysisSaved, OtherSaved, RebootSaved DEF Next
<1>3. Spec => []SavedInv
  BY <1>1, <1>2, InitType, NextType, PTL DEF Spec
<1>4. SavedInv => AnalyzedMeansSaved
  BY DEF SavedInv
<1>5. QED
  BY <1>3, <1>4, PTL


-----------------------------------------------------------------------------
(* Only what the cloud refused is set aside *)

LEMMA PendingFinite ==
    ASSUME NEW r \in Report
    PROVE  IsFiniteSet(Pending(r)) /\ Cardinality(Pending(r)) \in Nat
<1>1. Pending(r) \subseteq Heartbeat
  BY DEF Pending
<1>2. QED
  BY <1>1, FS_Subset, FS_CardinalityType

\* Fewer refusals to count, and none taken back.
LEMMA RefusalsByCases ==
    ASSUME TypeInv, TypeInv', RefusalsCounted, NEW r \in Report,
           refusals'[r] >= refusals[r],
           row'[r].rejections \in {0, row[r].rejections},
           Pending(r)' \subseteq Pending(r)
    PROVE  \/ refusals'[r] = MaxPushRejections
           \/ row'[r].rejections + Cardinality(Pending(r)') <= refusals'[r]
<1>1. /\ Cardinality(Pending(r)) \in Nat
      /\ Cardinality(Pending(r)') \in Nat
      /\ Cardinality(Pending(r)') <= Cardinality(Pending(r))
  BY PendingFinite, FS_Subset, FS_CardinalityType
<1>2. /\ row[r].rejections \in Nat /\ row'[r].rejections \in Nat
      /\ refusals[r] \in 0..MaxPushRejections
      /\ refusals'[r] \in 0..MaxPushRejections
  BY DEF TypeInv, TypeOK, Row
<1>3. CASE refusals[r] = MaxPushRejections
  BY <1>2, <1>3
<1>4. CASE row[r].rejections + Cardinality(Pending(r)) <= refusals[r]
  BY <1>1, <1>2, <1>4
<1>5. QED
  BY <1>3, <1>4 DEF RefusalsCounted

\* A step after which no heartbeat is newly told of a refusal.
LEMMA RefusalsKept ==
    ASSUME TypeInv, TypeInv', RefusalsCounted,
           refusals' = refusals,
           \A r \in Report : row'[r].rejections \in {0, row[r].rejections},
           \A h \in Heartbeat : pc'[h] = "refused" =>
               pc[h] = "refused" /\ job'[h] = job[h]
    PROVE  RefusalsCounted'
<1>1. \A r \in Report : Pending(r)' \subseteq Pending(r)
  BY DEF Pending
<1>2. \A r \in Report : refusals'[r] >= refusals[r]
  BY DEF TypeInv, TypeOK
<1>3. QED
  BY <1>1, <1>2, RefusalsByCases DEF RefusalsCounted

LEMMA AnalysisRefusals ==
    ASSUME TypeInv, TypeInv', RefusalsCounted,
           NEW a \in Analyzer, AnalysisStep(a)
    PROVE  RefusalsCounted'
<1>1. refusals' = refusals
  BY DEF AnalysisStep, StartAnalysis, FindCleanShutdown, SaveReport,
         FinishAnalysis, TimeOutAnalysis, RememberBoot, PruneOldReports,
         EndAnalysis, cloudVars
<1>2. \A h \in Heartbeat : pc'[h] = "refused" =>
         pc[h] = "refused" /\ job'[h] = job[h]
  <2>1. \A h \in Heartbeat : h \in Proc /\ h # a
    BY DEF Proc
  <2>2. QED
    BY <2>1 DEF AnalysisStep, StartAnalysis, FindCleanShutdown, SaveReport,
       FinishAnalysis, TimeOutAnalysis, RememberBoot, PruneOldReports,
       EndAnalysis, Goto, TypeInv, TypeOK
<1>3. \A r \in Report : row'[r].rejections \in {0, row[r].rejections}
  <2>1. CASE SaveReport(a)
    BY <2>1 DEF SaveReport, TypeInv, TypeOK, Row
  <2>2. CASE FinishAnalysis(a)
    <3> DEFINE id == job[a].id
               ver == made[id] + 1
    <3>1. row' = IF Stored(id) THEN [row EXCEPT ![id].ver = ver] ELSE row
      BY <2>2 DEF FinishAnalysis
    <3> HIDE DEF id, ver
    <3>2. CASE Stored(id)
      BY <3>1, <3>2 DEF TypeInv, TypeOK, Row
    <3>3. CASE ~Stored(id)
      BY <3>1, <3>3
    <3>4. QED
      BY <3>2, <3>3
  <2>3. CASE PruneOldReports(a)
    BY <2>3 DEF PruneOldReports, NoRow, TypeInv, TypeOK, Row
  <2>4. CASE row' = row
    BY <2>4
  <2>5. QED
    BY <2>1, <2>2, <2>3, <2>4
       DEF AnalysisStep, StartAnalysis, FindCleanShutdown, TimeOutAnalysis,
           RememberBoot, EndAnalysis, storeVars
<1>4. QED
  BY <1>1, <1>2, <1>3, RefusalsKept

LEMMA BackfillRefusals ==
    ASSUME TypeInv, TypeInv', RefusalsCounted,
           NEW h \in Heartbeat, BackfillStep(h)
    PROVE  RefusalsCounted'
<1>0. h \in Proc
  BY DEF Proc
<1>1. refusals' = refusals
  BY DEF BackfillStep, BeginCycle, PostNext, EndCycle, CountRefusal, cloudVars
<1>2. \A g \in Heartbeat : pc'[g] = "refused" =>
         pc[g] = "refused" /\ job'[g] = job[g] /\ g # h
  BY <1>0 DEF BackfillStep, BeginCycle, PostNext, EndCycle, CountRefusal,
              Goto, TypeInv, TypeOK, Proc
<1>3. CASE CountRefusal(h)
  <2>1. PICK id \in Report :
          /\ id = job[h].id
          /\ row' = IF Stored(id)
                      THEN [row EXCEPT ![id].rejections = @ + 1] ELSE row
          /\ pc[h] = "refused"
    <3>1. job[h].id \in Report
      BY <1>0, <1>3 DEF CountRefusal, TypeInv, TypeOK, IdsIssued, Holding
    <3>2. QED
      BY <1>3, <3>1 DEF CountRefusal
  <2>2. h \in Pending(id) /\ Pending(id)' \subseteq Pending(id) \ {h}
    BY <1>2, <2>1 DEF Pending
  <2>3. \A r \in Report : Pending(r)' \subseteq Pending(r)
    BY <1>2 DEF Pending
  <2>4. ASSUME NEW r \in Report, r # id
        PROVE  \/ refusals'[r] = MaxPushRejections
               \/ row'[r].rejections + Cardinality(Pending(r)')
                      <= refusals'[r]
    <3>1. row'[r] = row[r]
      BY <2>1, <2>4 DEF TypeInv, TypeOK
    <3>2. refusals'[r] >= refusals[r]
      BY <1>1 DEF TypeInv, TypeOK
    <3>3. QED
      BY <2>3, <3>1, <3>2, RefusalsByCases
  <2>5. \/ refusals'[id] = MaxPushRejections
        \/ row'[id].rejections + Cardinality(Pending(id)') <= refusals'[id]
    <3>1. /\ Cardinality(Pending(id) \ {h}) = Cardinality(Pending(id)) - 1
          /\ IsFiniteSet(Pending(id) \ {h})
      BY <2>2, PendingFinite, FS_RemoveElement
    <3>2. /\ Cardinality(Pending(id)') <= Cardinality(Pending(id)) - 1
          /\ Cardinality(Pending(id)') \in Nat
      BY <2>2, <3>1, FS_Subset, FS_CardinalityType
    <3>3. row'[id].rejections \in
             {row[id].rejections, row[id].rejections + 1}
      <4>1. CASE Stored(id)
        BY <2>1, <4>1 DEF TypeInv, TypeOK, Row
      <4>2. CASE ~Stored(id)
        BY <2>1, <4>2
      <4>3. QED
        BY <4>1, <4>2
    <3>4. /\ row[id].rejections \in Nat /\ row'[id].rejections \in Nat
          /\ refusals[id] \in Nat /\ Cardinality(Pending(id)) \in Nat
      BY PendingFinite DEF TypeInv, TypeOK, Row
    <3>5. \/ refusals[id] = MaxPushRejections
          \/ row[id].rejections + Cardinality(Pending(id)) <= refusals[id]
      BY DEF RefusalsCounted
    <3>6. QED
      BY <1>1, <3>2, <3>3, <3>4, <3>5
  <2>6. QED
    BY <2>4, <2>5 DEF RefusalsCounted
<1>4. CASE row' = row
  BY <1>1, <1>2, <1>4, RefusalsKept
<1>5. QED
  BY <1>3, <1>4 DEF BackfillStep, BeginCycle, PostNext, EndCycle, storeVars

LEMMA PushRefusals ==
    ASSUME TypeInv, TypeInv', RefusalsCounted, NEW p \in Proc, PushStep(p)
    PROVE  RefusalsCounted'
<1>1. PICK id \in Report : id = job[p].id
  BY DEF PushStep, Accept, Refuse, NoAnswer, ConfirmPush, TypeInv, TypeOK,
         IdsIssued, Holding
<1>2. CASE Refuse(p)
  <2> DEFINE n == IF refusals[id] < MaxPushRejections
                    THEN refusals[id] + 1 ELSE refusals[id]
  <2>1. /\ refusals' = [refusals EXCEPT ![id] = n]
        /\ row' = row
        /\ job' = job
        /\ pc[p] = "posting"
        /\ pc' = [pc EXCEPT ![p] =
                     IF p \in Heartbeat THEN "refused" ELSE AfterFailure(p)]
    BY <1>1, <1>2 DEF Refuse, Goto, AfterFailure, Proc, storeVars
  <2>2. AfterFailure(p) # "refused"
    BY DEF AfterFailure
  <2> HIDE DEF n
  <2>3. ASSUME NEW r \in Report, r # id
        PROVE  \/ refusals'[r] = MaxPushRejections
               \/ row'[r].rejections + Cardinality(Pending(r)')
                      <= refusals'[r]
    <3>1. Pending(r)' \subseteq Pending(r)
      <4> SUFFICES ASSUME NEW h \in Heartbeat, pc'[h] = "refused",
                          job'[h].id = r
                   PROVE  pc[h] = "refused" /\ job[h].id = r
        BY DEF Pending
      <4>1. h \in Proc /\ h # p
        BY <1>1, <2>1, <2>3 DEF Proc
      <4>2. pc'[h] = pc[h]
        BY <2>1, <4>1 DEF TypeInv, TypeOK
      <4>3. QED
        BY <2>1, <4>2
    <3>2. refusals'[r] = refusals[r] /\ refusals[r] \in Nat
      <4>1. refusals \in [Report -> 0..MaxPushRejections]
        BY DEF TypeInv, TypeOK
      <4>2. QED
        BY <2>1, <2>3, <4>1
    <3>3. refusals'[r] >= refusals[r]
      BY <3>2
    <3>4. QED
      BY <2>1, <3>1, <3>3, RefusalsByCases
  <2>4. \/ refusals'[id] = MaxPushRejections
        \/ row'[id].rejections + Cardinality(Pending(id)') <= refusals'[id]
    <3>1. Pending(id)' \subseteq Pending(id) \cup {p}
      <4> SUFFICES ASSUME NEW h \in Heartbeat, pc'[h] = "refused", h # p,
                          job'[h].id = id
                   PROVE  pc[h] = "refused" /\ job[h].id = id
        BY DEF Pending
      <4>1. pc'[h] = pc[h]
        BY <2>1 DEF TypeInv, TypeOK, Proc
      <4>2. QED
        BY <2>1, <4>1
    <3>2. /\ IsFiniteSet(Pending(id) \cup {p})
          /\ Cardinality(Pending(id) \cup {p}) <= Cardinality(Pending(id)) + 1
          /\ Cardinality(Pending(id)) \in Nat
      <4>1. IsFiniteSet(Pending(id)) /\ Cardinality(Pending(id)) \in Nat
        BY PendingFinite
      <4>2. /\ IsFiniteSet(Pending(id) \cup {p})
            /\ Cardinality(Pending(id) \cup {p}) =
                 IF p \in Pending(id) THEN Cardinality(Pending(id))
                                      ELSE Cardinality(Pending(id)) + 1
        BY <4>1, FS_AddElement
      <4>3. QED
        BY <4>1, <4>2
    <3>3. /\ Cardinality(Pending(id)') <= Cardinality(Pending(id)) + 1
          /\ Cardinality(Pending(id)') \in Nat
      <4>1. /\ Cardinality(Pending(id)')
                   <= Cardinality(Pending(id) \cup {p})
            /\ Cardinality(Pending(id)') \in Nat
            /\ Cardinality(Pending(id) \cup {p}) \in Nat
        BY <3>1, <3>2, FS_Subset, FS_CardinalityType
      <4>2. QED
        BY <3>2, <4>1
    <3>4. /\ refusals[id] \in 0..MaxPushRejections
          /\ refusals'[id] = IF refusals[id] < MaxPushRejections
                               THEN refusals[id] + 1 ELSE refusals[id]
          /\ row[id].rejections \in Nat
      <4>1. refusals \in [Report -> 0..MaxPushRejections]
        BY DEF TypeInv, TypeOK
      <4>2. row[id].rejections \in Nat
        BY DEF TypeInv, TypeOK, Row
      <4>3. QED
        BY <2>1, <4>1, <4>2 DEF n
    <3>5. \/ refusals[id] = MaxPushRejections
          \/ row[id].rejections + Cardinality(Pending(id)) <= refusals[id]
      BY DEF RefusalsCounted
    <3>6. QED
      BY <2>1, <3>2, <3>3, <3>4, <3>5
  <2>5. QED
    BY <2>3, <2>4 DEF RefusalsCounted
<1>3. CASE Accept(p) \/ NoAnswer(p) \/ ConfirmPush(p)
  <2>1. refusals' = refusals
    BY <1>3 DEF Accept, NoAnswer, ConfirmPush, cloudVars
  <2>2. \A h \in Heartbeat : pc'[h] = "refused" =>
           pc[h] = "refused" /\ job'[h] = job[h]
    BY <1>3 DEF Accept, NoAnswer, ConfirmPush, AfterFailure, Goto, TypeInv,
                TypeOK, Proc
  <2>3. \A r \in Report : row'[r].rejections \in {0, row[r].rejections}
    <3>1. CASE ConfirmPush(p)
      <4>1. row' = IF Stored(id) THEN [row EXCEPT ![id].pushed = TRUE] ELSE row
        BY <1>1, <3>1 DEF ConfirmPush
      <4>2. CASE Stored(id)
        BY <4>1, <4>2 DEF TypeInv, TypeOK, Row
      <4>3. QED
        BY <4>1, <4>2
    <3>2. CASE row' = row
      BY <3>2
    <3>3. QED
      BY <1>3, <3>1, <3>2 DEF Accept, NoAnswer, storeVars
  <2>4. QED
    BY <2>1, <2>2, <2>3, RefusalsKept
<1>4. QED
  BY <1>2, <1>3 DEF PushStep

LEMMA MachineRefusals ==
    ASSUME TypeInv, TypeInv', RefusalsCounted,
           \/ \E p \in Proc : Kill(p)
           \/ \E r \in Report : DeleteReport(r)
           \/ Reboot
           \/ UNCHANGED vars
    PROVE  RefusalsCounted'
<1>1. refusals' = refusals
  BY DEF Kill, DeleteReport, Reboot, cloudVars, vars
<1>2. \A h \in Heartbeat : pc'[h] = "refused" =>
         pc[h] = "refused" /\ job'[h] = job[h]
  BY DEF Kill, DeleteReport, Reboot, Goto, procVars, vars, TypeInv, TypeOK,
         Proc
<1>3. \A r \in Report : row'[r].rejections \in {0, row[r].rejections}
  <2>1. ASSUME NEW r \in Report, DeleteReport(r)
        PROVE  \A q \in Report : row'[q].rejections \in {0, row[q].rejections}
    BY <2>1 DEF DeleteReport, TypeInv, TypeOK, NoRow
  <2>2. CASE row' = row
    BY <2>2
  <2>3. QED
    BY <2>1, <2>2 DEF Kill, Reboot, storeVars, vars
<1>4. QED
  BY <1>1, <1>2, <1>3, RefusalsKept

LEMMA InitRefusals == Init => RefusalsCounted
<1> SUFFICES ASSUME Init, NEW r \in Report
             PROVE  row[r].rejections + Cardinality(Pending(r)) <= refusals[r]
  BY DEF RefusalsCounted
<1>1. Pending(r) = {}
  BY DEF Init, Pending, Proc
<1>2. QED
  BY <1>1, FS_EmptySet DEF Init, NoRow

LEMMA NextRefusals ==
    TypeInv /\ RefusalsCounted /\ [Next]_vars => RefusalsCounted'
BY NextType, AnalysisRefusals, BackfillRefusals, PushRefusals,
   MachineRefusals DEF Next

\* A report is set aside only after MAX_PUSH_REJECTIONS refusals.
THEOREM SetAsideRefused == Spec => []SetAsideWasRefused
<1>1. Spec => [](TypeInv /\ RefusalsCounted)
  BY InitRefusals, NextRefusals, InitType, NextType, PTL DEF Spec
<1>2. TypeInv /\ RefusalsCounted => SetAsideWasRefused
  <2> SUFFICES ASSUME TypeInv, RefusalsCounted, NEW r \in Report, SetAside(r)
               PROVE  refusals[r] >= MaxPushRejections
    BY DEF SetAsideWasRefused
  <2>1. /\ row[r].rejections \in Nat
        /\ refusals[r] \in Nat
        /\ row[r].rejections >= MaxPushRejections
    BY DEF TypeInv, TypeOK, Row, SetAside
  <2>2. Cardinality(Pending(r)) \in Nat
    BY PendingFinite
  <2>3. QED
    BY <2>1, <2>2 DEF RefusalsCounted
<1>3. QED
  BY <1>1, <1>2, PTL


-----------------------------------------------------------------------------
(* Every step of the agent is a step of the outbox, or none *)

\* The refinement mapping, one value of it at a time.
StatusKnown ==
    /\ DOMAIN OutboxStatus = Report
    /\ OutboxStatus = [r \in Report |-> OutboxStatus[r]]
    /\ \A r \in Report :
          /\ r > issued => OutboxStatus[r] = "new"
          /\ r <= issued =>
                /\ Queued(r) => OutboxStatus[r] = "queued"
                /\ SetAside(r) => OutboxStatus[r] = "aside"
                /\ Sent(r) => OutboxStatus[r] = "delivered"
                /\ ~Stored(r) => OutboxStatus[r] = "gone"
                /\ Stored(r) => Queued(r) \/ SetAside(r) \/ Sent(r)

LEMMA StatusByCases == TypeInv => StatusKnown
<1> SUFFICES ASSUME TypeInv
             PROVE  StatusKnown
  OBVIOUS
<1>1. ASSUME NEW r \in Report
      PROVE  /\ r > issued => OutboxStatus[r] = "new"
             /\ r <= issued =>
                   /\ Queued(r) => OutboxStatus[r] = "queued"
                   /\ SetAside(r) => OutboxStatus[r] = "aside"
                   /\ Sent(r) => OutboxStatus[r] = "delivered"
                   /\ ~Stored(r) => OutboxStatus[r] = "gone"
                   /\ Stored(r) => Queued(r) \/ SetAside(r) \/ Sent(r)
  <2>1. issued \in Nat /\ row[r].rejections \in Nat
    BY DEF TypeInv, TypeOK, Row
  <2>2. CASE r > issued
    BY <2>1, <2>2 DEF OutboxStatus
  <2>3. CASE r <= issued /\ Queued(r)
    BY <2>1, <2>3 DEF OutboxStatus, Queued, SetAside, Sent
  <2>4. CASE r <= issued /\ SetAside(r)
    BY <2>1, <2>4 DEF OutboxStatus, Queued, SetAside, Sent
  <2>5. CASE r <= issued /\ Sent(r)
    BY <2>1, <2>5 DEF OutboxStatus, Queued, SetAside, Sent
  <2>6. CASE r <= issued /\ ~Stored(r)
    BY <2>1, <2>6 DEF OutboxStatus, Queued, SetAside, Sent
  <2>7. Stored(r) => Queued(r) \/ SetAside(r) \/ Sent(r)
    BY <2>1 DEF Queued, SetAside, Sent
  <2>8. QED
    BY <2>1, <2>2, <2>3, <2>4, <2>5, <2>6, <2>7
<1>2. DOMAIN OutboxStatus = Report
      /\ OutboxStatus = [r \in Report |-> OutboxStatus[r]]
  BY DEF OutboxStatus
<1>3. QED
  BY <1>1, <1>2 DEF StatusKnown

\* A report keeps its status while its row says the same of it.
LEMMA SameStatus ==
    ASSUME TypeInv, TypeInv', NEW r \in Report,
           r > issued' <=> r > issued,
           Stored(r)' <=> Stored(r),
           Queued(r)' <=> Queued(r),
           SetAside(r)' <=> SetAside(r),
           Sent(r)' <=> Sent(r)
    PROVE  OutboxStatus'[r] = OutboxStatus[r]
<1>1. StatusKnown /\ StatusKnown'
  BY StatusByCases, PTL
<1>2. r > issued \/ r <= issued
  BY DEF TypeInv, TypeOK
<1>3. r > issued' \/ r <= issued'
  BY DEF TypeInv, TypeOK
<1>4. r <= issued' <=> r <= issued
  BY DEF TypeInv, TypeOK
<1>5. CASE r > issued
  BY <1>1, <1>5 DEF StatusKnown
<1>6. CASE r <= issued
  BY <1>1, <1>4, <1>6 DEF StatusKnown
<1>7. QED
  BY <1>2, <1>5, <1>6

LEMMA SameRowSameStatus ==
    ASSUME TypeInv, TypeInv', NEW r \in Report,
           r > issued' <=> r > issued, row'[r] = row[r]
    PROVE  OutboxStatus'[r] = OutboxStatus[r]
BY SameStatus DEF Stored, Queued, SetAside, Sent

\* Nothing the outbox sees changes.
LEMMA Stutter ==
    ASSUME TypeInv, TypeInv',
           \A r \in Report : OutboxStatus'[r] = OutboxStatus[r],
           UNCHANGED <<received, refusals>>
    PROVE  UNCHANGED Outbox!outboxVars
<1>1. OutboxStatus' = OutboxStatus
  <2>1. StatusKnown /\ StatusKnown'
    BY StatusByCases, PTL
  <2>2. QED
    BY <2>1 DEF StatusKnown
<1>2. QED
  BY <1>1 DEF Outbox!outboxVars, Arrived


LEMMA NextIssued ==
    TypeInv /\ BootReportIssued /\ [Next]_vars => BootReportIssued'
<1> SUFFICES ASSUME TypeInv, BootReportIssued, [Next]_vars
             PROVE  BootReportIssued'
  OBVIOUS
<1> USE DEF BootReportIssued
<1>1. ASSUME NEW a \in Analyzer, AnalysisStep(a)
      PROVE  BootReportIssued'
  <2>1. CASE SaveReport(a)
    BY <2>1 DEF SaveReport, TypeInv, TypeOK
  <2>2. CASE UNCHANGED <<bootReport, issued>>
    BY <2>2
  <2>3. QED
    BY <1>1, <2>1, <2>2
       DEF AnalysisStep, StartAnalysis, FindCleanShutdown, FinishAnalysis,
           TimeOutAnalysis, RememberBoot, PruneOldReports, EndAnalysis,
           recordVars
<1>2. ASSUME NEW h \in Heartbeat, BackfillStep(h)
      PROVE  BootReportIssued'
  BY <1>2 DEF BackfillStep, BeginCycle, PostNext, EndCycle, CountRefusal,
              recordVars
<1>3. ASSUME NEW p \in Proc, PushStep(p) \/ Kill(p)
      PROVE  BootReportIssued'
  BY <1>3 DEF PushStep, Accept, Refuse, NoAnswer, ConfirmPush, Kill,
              recordVars
<1>4. CASE (\E r \in Report : DeleteReport(r)) \/ Reboot \/ UNCHANGED vars
  BY <1>4 DEF DeleteReport, Reboot, vars, recordVars, TypeInv, TypeOK
<1>5. QED
  BY <1>1, <1>2, <1>3, <1>4 DEF Next

LEMMA SaveSimulates ==
    ASSUME StepInv, TypeInv', NEW a \in Analyzer, SaveReport(a)
    PROVE  Outbox!Next
<1>1. PICK id \in Report :
        /\ id = IF boot \in KnownBoots /\ bootReport # 0
                  THEN bootReport ELSE issued + 1
        /\ issued' = IF id > issued THEN id ELSE issued
        /\ row' = [row EXCEPT ![id] = [ver |-> made[id] + 1,
                                      pushed |-> FALSE, rejections |-> 0]]
  BY DEF SaveReport
<1>2. issued \in Nat /\ bootReport <= issued /\ bootReport \in Nat
      /\ made[id] \in Nat
  BY DEF StepInv, BootReportIssued, TypeInv, TypeOK
<1>3. id <= issued' /\ \A r \in Report : r # id => (r > issued' <=> r > issued)
  BY <1>1, <1>2
<1>4. Queued(id)'
  <2>1. row'[id] = [ver |-> made[id] + 1, pushed |-> FALSE, rejections |-> 0]
    BY <1>1 DEF StepInv, TypeInv, TypeOK
  <2>2. QED
    BY <1>2, <2>1 DEF Queued, Stored
<1>5. StatusKnown /\ StatusKnown'
  BY StatusByCases, PTL DEF StepInv
<1>6. OutboxStatus'[id] = "queued"
  BY <1>3, <1>4, <1>5 DEF StatusKnown
<1>7. \A r \in Report : r # id => OutboxStatus'[r] = OutboxStatus[r]
  <2>1. \A r \in Report : r # id => row'[r] = row[r]
    BY <1>1 DEF StepInv, TypeInv, TypeOK
  <2>2. QED
    BY <1>3, <2>1, SameRowSameStatus DEF StepInv
<1>8. OutboxStatus' = [OutboxStatus EXCEPT ![id] = "queued"]
  BY <1>5, <1>6, <1>7 DEF StatusKnown
<1>9. UNCHANGED <<Arrived, refusals>>
  BY DEF SaveReport, cloudVars, Arrived
<1>10. QED
  BY <1>8, <1>9 DEF Outbox!Next, Outbox!Put


LEMMA AnalysisSimulates ==
    ASSUME StepInv, TypeInv', NEW a \in Analyzer, AnalysisStep(a)
    PROVE  [Outbox!Next]_(Outbox!outboxVars)
<1> USE DEF StepInv
<1>1. CASE FinishAnalysis(a)
  <2>1. PICK id \in Report :
          row' = IF Stored(id) THEN [row EXCEPT ![id].ver = made[id] + 1]
                               ELSE row
    <3>1. job[a].id \in Report
      BY <1>1 DEF FinishAnalysis, TypeInv, TypeOK, IdsIssued, Holding, Proc
    <3>2. QED
      BY <1>1, <3>1 DEF FinishAnalysis
  <2>2. UNCHANGED <<issued, received, refusals>>
    BY <1>1 DEF FinishAnalysis, cloudVars
  <2>3. \A r \in Report : OutboxStatus'[r] = OutboxStatus[r]
    <3>1. CASE ~Stored(id)
      BY <2>1, <2>2, <3>1, SameRowSameStatus
    <3>2. CASE Stored(id)
      <4>1. row'[id].ver = made[id] + 1 /\ made[id] \in Nat
        BY <2>1, <3>2 DEF TypeInv, TypeOK, Row
      <4>2. /\ row'[id].pushed = row[id].pushed
            /\ row'[id].rejections = row[id].rejections
        BY <2>1, <3>2 DEF TypeInv, TypeOK, Row
      <4>3. Stored(id)'
        BY <4>1 DEF Stored
      <4>4. OutboxStatus'[id] = OutboxStatus[id]
        <5>1. /\ Queued(id)' <=> Queued(id)
              /\ SetAside(id)' <=> SetAside(id)
              /\ Sent(id)' <=> Sent(id)
          BY <3>2, <4>2, <4>3 DEF Queued, SetAside, Sent
        <5>2. QED
          BY <2>2, <3>2, <4>3, <5>1, SameStatus
      <4>5. \A r \in Report : r # id => row'[r] = row[r]
        BY <2>1 DEF TypeInv, TypeOK
      <4>6. QED
        BY <2>2, <4>4, <4>5, SameRowSameStatus
    <3>3. QED
      BY <3>1, <3>2
  <2>4. QED
    BY <2>2, <2>3, Stutter
<1>2. CASE PruneOldReports(a)
  <2>1. PICK newestOld \in 0..issued :
          row' = [r \in Report |-> IF r <= newestOld THEN NoRow ELSE row[r]]
    BY <1>2 DEF PruneOldReports
  <2>2. UNCHANGED <<issued, received, refusals>>
    BY <1>2 DEF PruneOldReports, recordVars, cloudVars
  <2> DEFINE S == {r \in Report : r <= newestOld}
  <2>3. StatusKnown /\ StatusKnown'
    BY StatusByCases, PTL
  <2>4. \A r \in S : OutboxStatus[r] # "new" /\ OutboxStatus'[r] = "gone"
    <3> SUFFICES ASSUME NEW r \in Report, r <= newestOld
                 PROVE  OutboxStatus[r] # "new" /\ OutboxStatus'[r] = "gone"
      OBVIOUS
    <3>1. r <= issued /\ r <= issued'
      BY <2>2 DEF TypeInv, TypeOK
    <3>2. ~Stored(r)'
      BY <2>1 DEF Stored, NoRow
    <3>3. QED
      BY <2>3, <3>1, <3>2 DEF StatusKnown
  <2>5. \A r \in Report : r \notin S => OutboxStatus'[r] = OutboxStatus[r]
    BY <2>1, <2>2, SameRowSameStatus
  <2>6. OutboxStatus' =
           [r \in Report |-> IF r \in S THEN "gone" ELSE OutboxStatus[r]]
    BY <2>3, <2>4, <2>5 DEF StatusKnown
  <2>7. QED
    BY <2>2, <2>4, <2>6 DEF Outbox!Next, Outbox!Remove, Arrived
<1>3. CASE \/ \E force \in BOOLEAN : StartAnalysis(a, force)
           \/ FindCleanShutdown(a)
           \/ TimeOutAnalysis(a)
           \/ RememberBoot(a)
           \/ EndAnalysis(a)
  <2>1. UNCHANGED <<row, issued, received, refusals>>
    BY <1>3 DEF StartAnalysis, FindCleanShutdown, TimeOutAnalysis,
                RememberBoot, EndAnalysis, recordVars, storeVars, cloudVars
  <2>2. QED
    BY <2>1, SameRowSameStatus, Stutter
<1>4. QED
  BY <1>1, <1>2, <1>3, SaveSimulates DEF AnalysisStep


LEMMA BackfillSimulates ==
    ASSUME StepInv, TypeInv', RefusalsCounted',
           NEW h \in Heartbeat, BackfillStep(h)
    PROVE  [Outbox!Next]_(Outbox!outboxVars)
<1> USE DEF StepInv
<1>0. UNCHANGED <<issued, received, refusals>>
  BY DEF BackfillStep, BeginCycle, PostNext, EndCycle, CountRefusal,
         recordVars, cloudVars
<1>1. CASE CountRefusal(h)
  <2>1. PICK id \in Report :
          row' = IF Stored(id) THEN [row EXCEPT ![id].rejections = @ + 1]
                               ELSE row
    <3>1. job[h].id \in Report
      BY <1>1 DEF CountRefusal, TypeInv, TypeOK, IdsIssued, Holding, Proc
    <3>2. QED
      BY <1>1, <3>1 DEF CountRefusal
  <2>2. \A r \in Report : r # id => OutboxStatus'[r] = OutboxStatus[r]
    <3>1. \A r \in Report : r # id => row'[r] = row[r]
      BY <2>1 DEF TypeInv, TypeOK
    <3>2. QED
      BY <1>0, <3>1, SameRowSameStatus
  <2>3. CASE Queued(id) /\ SetAside(id)'
    <3>1. StatusKnown /\ StatusKnown'
      BY StatusByCases, PTL
    <3>2. id <= issued /\ id <= issued'
      BY <1>0, <2>3 DEF Queued, TypeInv, IdsIssued
    <3>3. OutboxStatus[id] = "queued" /\ OutboxStatus'[id] = "aside"
      BY <2>3, <3>1, <3>2 DEF StatusKnown
    <3>4. OutboxStatus' = [OutboxStatus EXCEPT ![id] = "aside"]
      BY <2>2, <3>1, <3>3 DEF StatusKnown
    <3>5. refusals[id] >= MaxPushRejections
      <4>1. /\ row'[id].rejections \in Nat
            /\ row'[id].rejections >= MaxPushRejections
            /\ refusals'[id] \in Nat
        BY <2>3 DEF SetAside, TypeInv, TypeOK, Row
      <4>2. Cardinality(Pending(id)') \in Nat
        <5>1. Pending(id)' \subseteq Heartbeat
          BY DEF Pending
        <5>2. QED
          BY <5>1, FS_Subset, FS_CardinalityType
      <4>3. QED
        BY <1>0, <4>1, <4>2 DEF RefusalsCounted
    <3>6. QED
      BY <1>0, <3>3, <3>4, <3>5 DEF Outbox!Next, Outbox!GiveUp, Arrived
  <2>4. CASE ~(Queued(id) /\ SetAside(id)')
    <3>1. OutboxStatus'[id] = OutboxStatus[id]
      <4>1. CASE Stored(id)
        <5>1. /\ row'[id].rejections = row[id].rejections + 1
              /\ row'[id].ver = row[id].ver
              /\ row'[id].pushed = row[id].pushed
              /\ row[id].rejections \in Nat
          BY <2>1, <4>1 DEF TypeInv, TypeOK, Row
        <5>2. /\ Stored(id)' <=> Stored(id)
              /\ Sent(id)' <=> Sent(id)
          BY <5>1 DEF Stored, Sent
        <5>3. /\ Queued(id)' <=> Queued(id)
              /\ SetAside(id)' <=> SetAside(id)
          BY <2>4, <5>1, <5>2 DEF Queued, SetAside
        <5>4. QED
          BY <1>0, <5>2, <5>3, SameStatus
      <4>2. CASE ~Stored(id)
        BY <1>0, <2>1, <4>2, SameRowSameStatus
      <4>3. QED
        BY <4>1, <4>2
    <3>2. QED
      BY <1>0, <2>2, <3>1, Stutter
  <2>5. QED
    BY <2>3, <2>4
<1>2. CASE row' = row
  BY <1>0, <1>2, SameRowSameStatus, Stutter
<1>3. QED
  BY <1>1, <1>2 DEF BackfillStep, BeginCycle, PostNext, EndCycle, storeVars

LEMMA PushSimulates ==
    ASSUME StepInv, TypeInv', NEW p \in Proc, PushStep(p)
    PROVE  [Outbox!Next]_(Outbox!outboxVars)
<1> USE DEF StepInv
<1>1. PICK id \in Report : id = job[p].id /\ id <= issued
  BY DEF PushStep, Accept, Refuse, NoAnswer, ConfirmPush, TypeInv, TypeOK,
         IdsIssued, Holding
<1>2. StatusKnown /\ StatusKnown'
  BY StatusByCases, PTL
<1>3. OutboxStatus[id] # "new"
  BY <1>1, <1>2 DEF StatusKnown
<1>4. ASSUME NEW v \in SUBSET Nat,
             received' = [received EXCEPT ![id] = @ \cup v],
             UNCHANGED <<row, issued, refusals>>
      PROVE  [Outbox!Next]_(Outbox!outboxVars)
  <2>1. OutboxStatus' = OutboxStatus
    <3>1. \A r \in Report : OutboxStatus'[r] = OutboxStatus[r]
      BY <1>4, SameRowSameStatus
    <3>2. QED
      BY <1>2, <3>1 DEF StatusKnown
  <2>2. Arrived' = Arrived \/ Arrived' = Arrived \cup {id}
    <3>1. /\ received'[id] = received[id] \cup v
          /\ \A r \in Report : r # id => received'[r] = received[r]
      BY <1>4 DEF TypeInv, TypeOK
    <3>2. CASE received'[id] = {}
      BY <3>1, <3>2 DEF Arrived
    <3>3. CASE received'[id] # {}
      BY <3>1, <3>3 DEF Arrived
    <3>4. QED
      BY <3>2, <3>3
  <2>3. QED
    BY <1>3, <1>4, <2>1, <2>2
       DEF Outbox!Next, Outbox!Arrive, Outbox!outboxVars
<1>5. CASE Accept(p)
  <2>1. {job[p].ver} \in SUBSET Nat
    BY DEF TypeInv, TypeOK, Copy
  <2>2. /\ received' = [received EXCEPT ![id] = @ \cup {job[p].ver}]
        /\ UNCHANGED <<row, issued, refusals>>
    BY <1>1, <1>5 DEF Accept, recordVars, storeVars
  <2>3. QED
    BY <1>4, <2>1, <2>2
<1>6. CASE NoAnswer(p)
  <2>1. PICK v \in {{}, {job[p].ver}} :
          received' = [received EXCEPT ![job[p].id] = @ \cup v]
    BY <1>6 DEF NoAnswer
  <2>2. v \in SUBSET Nat
    BY <2>1 DEF TypeInv, TypeOK, Copy
  <2>3. UNCHANGED <<row, issued, refusals>>
    BY <1>6 DEF NoAnswer, recordVars, storeVars
  <2>4. QED
    BY <1>1, <1>4, <2>1, <2>2, <2>3
<1>7. CASE Refuse(p)
  <2>1. OutboxStatus' = OutboxStatus /\ Arrived' = Arrived
    <3>1. \A r \in Report : OutboxStatus'[r] = OutboxStatus[r]
      BY <1>7, SameRowSameStatus DEF Refuse, recordVars, storeVars
    <3>2. QED
      BY <1>2, <1>7, <3>1 DEF StatusKnown, Refuse, Arrived
  <2>2. \/ refusals' = [refusals EXCEPT ![id] = @ + 1]
        \/ refusals' = refusals
    BY <1>1, <1>7 DEF Refuse, TypeInv, TypeOK
  <2>3. QED
    BY <1>3, <2>1, <2>2 DEF Outbox!Next, Outbox!Refuse, Outbox!outboxVars
<1>8. CASE ConfirmPush(p)
  <2>1. /\ row' = IF Stored(id) THEN [row EXCEPT ![id].pushed = TRUE] ELSE row
        /\ UNCHANGED <<issued, received, refusals>>
    BY <1>1, <1>8 DEF ConfirmPush, recordVars, cloudVars
  <2>2. \A r \in Report : r # id => OutboxStatus'[r] = OutboxStatus[r]
    <3>1. \A r \in Report : r # id => row'[r] = row[r]
      BY <2>1 DEF TypeInv, TypeOK
    <3>2. QED
      BY <2>1, <3>1, SameRowSameStatus
  <2>3. CASE Stored(id)
    <3>1. Sent(id)'
      BY <2>1, <2>3 DEF Sent, Stored, TypeInv, TypeOK, Row
    <3>2. OutboxStatus'[id] = "delivered"
      BY <1>1, <1>2, <2>1, <3>1 DEF StatusKnown
    <3>3. OutboxStatus[id] \in {"queued", "aside", "delivered"}
      BY <1>1, <1>2, <2>3 DEF StatusKnown
    <3>4. id \in Arrived
      BY <1>1, <1>8 DEF ConfirmPush, ArrivalInv, AcceptedHasArrived, Arrived
    <3>5. OutboxStatus' = [OutboxStatus EXCEPT ![id] = "delivered"]
      BY <1>2, <2>2, <3>2 DEF StatusKnown
    <3>6. CASE OutboxStatus[id] = "delivered"
      BY <2>1, <2>2, <3>2, <3>6, Stutter
    <3>7. CASE OutboxStatus[id] # "delivered"
      BY <2>1, <3>3, <3>4, <3>5, <3>7
         DEF Outbox!Next, Outbox!Confirm, Arrived
    <3>8. QED
      BY <3>6, <3>7
  <2>4. CASE ~Stored(id)
    <3>1. \A r \in Report : OutboxStatus'[r] = OutboxStatus[r]
      BY <2>1, <2>4, SameRowSameStatus
    <3>2. QED
      BY <2>1, <3>1, Stutter
  <2>5. QED
    BY <2>3, <2>4
<1>9. QED
  BY <1>5, <1>6, <1>7, <1>8 DEF PushStep


LEMMA MachineSimulates ==
    ASSUME StepInv, TypeInv',
           \/ \E p \in Proc : Kill(p)
           \/ \E r \in Report : DeleteReport(r)
           \/ Reboot
           \/ UNCHANGED vars
    PROVE  [Outbox!Next]_(Outbox!outboxVars)
<1> USE DEF StepInv
<1>1. ASSUME NEW r \in Report, DeleteReport(r)
      PROVE  [Outbox!Next]_(Outbox!outboxVars)
  <2>1. /\ row' = [row EXCEPT ![r] = NoRow]
        /\ UNCHANGED <<issued, received, refusals>>
    BY <1>1 DEF DeleteReport, recordVars, cloudVars
  <2>2. r <= issued
    BY <1>1 DEF DeleteReport, TypeInv, IdsIssued
  <2>3. StatusKnown /\ StatusKnown'
    BY StatusByCases, PTL
  <2>4. ~Stored(r)'
    BY <2>1 DEF Stored, NoRow, TypeInv, TypeOK
  <2>5. OutboxStatus[r] # "new" /\ OutboxStatus'[r] = "gone"
    BY <1>1, <2>1, <2>2, <2>3, <2>4 DEF StatusKnown, DeleteReport
  <2>6. \A q \in Report : q # r => OutboxStatus'[q] = OutboxStatus[q]
    <3>1. \A q \in Report : q # r => row'[q] = row[q]
      BY <2>1 DEF TypeInv, TypeOK
    <3>2. QED
      BY <2>1, <3>1, SameRowSameStatus
  <2>7. OutboxStatus' =
           [q \in Report |-> IF q \in {r} THEN "gone" ELSE OutboxStatus[q]]
    BY <2>3, <2>5, <2>6 DEF StatusKnown
  <2>8. {r} \in SUBSET Report /\ \A q \in {r} : OutboxStatus[q] # "new"
    BY <2>5
  <2>9. QED
    BY <2>1, <2>7, <2>8 DEF Outbox!Next, Outbox!Remove, Arrived
<1>2. CASE UNCHANGED <<row, issued, received, refusals>>
  BY <1>2, SameRowSameStatus, Stutter
<1>3. QED
  BY <1>1, <1>2 DEF Kill, Reboot, storeVars, recordVars, cloudVars, vars

\* The store of the agent implements the abstract outbox.
THEOREM RefinesOutbox == Spec => ImplementsOutbox
<1>1. Init => StepInv /\ Outbox!Init
  <2> SUFFICES ASSUME Init
               PROVE  StepInv /\ Outbox!Init
    OBVIOUS
  <2>1. TypeInv
    BY InitType
  <2>2. BootReportIssued /\ ArrivalInv /\ RefusalsCounted
    BY InitArrival, InitRefusals DEF Init, BootReportIssued
  <2>3. Outbox!Init
    <3>1. OutboxStatus = [r \in Report |-> "new"]
      BY <2>1, StatusByCases DEF Init, StatusKnown
    <3>2. Arrived = {}
      BY DEF Init, Arrived
    <3>3. QED
      BY <3>1, <3>2 DEF Init, Outbox!Init
  <2>4. QED
    BY <2>1, <2>2, <2>3 DEF StepInv
<1>2. StepInv /\ [Next]_vars => StepInv'
  BY NextType, NextIssued, NextArrival, NextRefusals DEF StepInv
<1>3. StepInv /\ StepInv' /\ [Next]_vars => [Outbox!Next]_(Outbox!outboxVars)
  BY AnalysisSimulates, BackfillSimulates, PushSimulates, MachineSimulates
     DEF StepInv, Next
<1>4. QED
  BY <1>1, <1>2, <1>3, PTL DEF Spec, ImplementsOutbox, Outbox!Spec

=============================================================================
