-------------------------- MODULE Enrollment_proofs --------------------------
(***************************************************************************)
(* Proofs about Enrollment, for any machines and units: the types of its   *)
(* variables, and that a machine whose identity source answers never acts  *)
(* as another one.                                                         *)
(***************************************************************************)
EXTENDS Enrollment, TLAPS

USE EnrollmentAssumption

LEMMA HostIsMachine == \A p \in Proc : Host(p) \in Machine
BY DEF Proc, Host

LEMMA AnswersType == \A m \in Machine : Answers(m) \subseteq Machine \cup {Nobody}
BY DEF Answers

LEMMA OutdatedSettings ==
    ASSUME NEW c \in Settings, NEW i PROVE Outdated(c, i) \in Settings
BY DEF Outdated, Settings, TokenState

LEMMA OutdatedMemory ==
    ASSUME NEW c \in Memory, NEW i
    PROVE  /\ Outdated(c, i) \in Memory
           /\ Outdated(c, i).id = c.id
           /\ Outdated(c, i).target = c.target
BY DEF Outdated, Memory, TokenState

\* A process enrolls as some machine; on a machine whose source answers it
\* enrolls as that one, and sends with its identity.
Aims(p) ==
    /\ pc[p] \in {"enrolling", "storing", "retired"} =>
          mem[p].target \in Machine
    /\ Host(p) \in Answering =>
          /\ pc[p] \in {"auto", "attempt"} =>
                mem[p].target \in {Nobody, Host(p)}
          /\ pc[p] \in {"enrolling", "storing", "retired"} =>
                mem[p].target = Host(p)
          /\ pc[p] \in {"storing", "send", "sent"} => mem[p].id = Host(p)

AimsRight == \A p \in Proc : Aims(p)

\* What such a machine has found out about the pinned identity is true.
ChecksRight ==
    \A m \in Answering :
        /\ check[m].result # "unanswered"
        /\ check[m].result = "same" => check[m].id = m

IInv == TypeOK /\ AimsRight /\ ChecksRight

LEMMA IdentitiesType ==
    ASSUME TypeOK, NEW p \in Proc
    PROVE  Identities(p) \subseteq Machine
<1>1. Host(p) \in Machine /\ mem[p] \in Memory
  BY HostIsMachine DEF TypeOK
<1>2. QED
  BY <1>1, AnswersType DEF Identities, Memory

LEMMA InitIInv == Init => IInv
<1> SUFFICES ASSUME Init PROVE IInv
  OBVIOUS
<1>1. PICK m \in Machine, i \in Machine :
          /\ on = {m}
          /\ env = [n \in Machine |->
                      IF n = m /\ i # m THEN [id |-> i, tok |-> "valid"]
                                       ELSE Blank]
          /\ systems = {i} \ {m}
  BY DEF Init
<1>2. env \in [Machine -> Settings]
  BY <1>1 DEF Settings, Blank, TokenState
<1>3. check \in [Machine -> Check]
  BY DEF Init, Check, NoCheck
<1>4. mem \in [Proc -> Memory]
  BY DEF Init, Memory, NoMemory, TokenState
<1>5. pc \in [Proc -> PcState]
  BY DEF Init, PcState
<1>6. AimsRight /\ ChecksRight
  BY DEF Init, AimsRight, Aims, ChecksRight, NoCheck
<1>7. byHand \in 0..MaxByHand
  BY DEF Init
<1>8. TypeOK
  BY <1>1, <1>2, <1>3, <1>4, <1>5, <1>7 DEF Init, TypeOK
<1>9. QED
  BY <1>6, <1>8 DEF IInv

\* A process that goes on or exits.
LEMMA MoveType ==
    ASSUME TypeOK, NEW p \in Proc
    PROVE  /\ \A s \in PcState : Become(p, s) => pc' \in [Proc -> PcState]
           /\ Exit(p) => /\ pc' \in [Proc -> PcState]
                         /\ mem' \in [Proc -> Memory]
<1>1. pc \in [Proc -> PcState] /\ mem \in [Proc -> Memory]
  BY DEF TypeOK
<1>2. \A s \in PcState : Become(p, s) => pc' \in [Proc -> PcState]
  BY <1>1 DEF Become
<1>3. NoMemory \in Memory
  BY DEF NoMemory, Memory, TokenState
<1>4. Exit(p) => pc' \in [Proc -> PcState]
  BY <1>2 DEF Exit, PcState
<1>5. Exit(p) => mem' \in [Proc -> Memory]
  BY <1>1, <1>3 DEF Exit
<1>6. QED
  BY <1>2, <1>4, <1>5

LEMMA HeartbeatType ==
    ASSUME TypeOK, NEW p \in Proc, HeartbeatStep(p)
    PROVE  TypeOK'
<1> USE DEF TypeOK
<1>0. Host(p) \in Machine
  BY HostIsMachine
<1>1. CASE StartHeartbeat(p)
  <2>1. mem' \in [Proc -> Memory]
    BY <1>0, <1>1 DEF StartHeartbeat, ReadSettings, Settings, Memory
  <2>2. pc' \in [Proc -> PcState]
    BY <1>1, MoveType DEF StartHeartbeat, PcState
  <2>3. QED
    BY <1>1, <2>1, <2>2 DEF StartHeartbeat, fileVars, cloudVars
<1>2. CASE UseCheck(p)
  <2>1. mem' \in [Proc -> Memory]
    BY <1>0, <1>2 DEF UseCheck, Memory
  <2>2. pc' \in [Proc -> PcState]
    BY <1>2, MoveType DEF UseCheck, PcState
  <2>3. QED
    BY <1>2, <2>1, <2>2 DEF UseCheck, fileVars, cloudVars
<1>3. CASE AskSource(p)
  <2>1. PICK result \in {"unanswered", "same", "moved"} :
          /\ check' = [check EXCEPT ![Host(p)] = [id |-> mem[p].id,
                                                  result |-> result]]
          /\ IF result = "moved"
               THEN /\ cooling' = [cooling EXCEPT ![Host(p)] = FALSE]
                    /\ mem' = [mem EXCEPT ![p].target = Host(p)]
                    /\ Become(p, "auto")
               ELSE /\ UNCHANGED <<cooling, mem>>
                    /\ Become(p, "send")
    <3>1. PICK a \in Answers(Host(p)) :
            LET result == IF a = Nobody THEN "unanswered"
                          ELSE IF a = mem[p].id THEN "same" ELSE "moved"
            IN  /\ check' = [check EXCEPT ![Host(p)] = [id |-> mem[p].id,
                                                        result |-> result]]
                /\ IF result = "moved"
                     THEN /\ cooling' = [cooling EXCEPT ![Host(p)] = FALSE]
                          /\ mem' = [mem EXCEPT ![p].target = Host(p)]
                          /\ Become(p, "auto")
                     ELSE /\ UNCHANGED <<cooling, mem>>
                          /\ Become(p, "send")
      BY <1>3 DEF AskSource
    <3>2. CASE a = Nobody
      BY <3>1, <3>2
    <3>3. CASE a # Nobody /\ a = mem[p].id
      BY <3>1, <3>3
    <3>4. CASE a # Nobody /\ a # mem[p].id
      BY <3>1, <3>4
    <3>5. QED
      BY <3>2, <3>3, <3>4
  <2>2. check' \in [Machine -> Check]
    BY <1>0, <2>1 DEF Check, Memory
  <2>3. mem' \in [Proc -> Memory] /\ cooling' \in [Machine -> BOOLEAN]
    <3>1. [mem[p] EXCEPT !.target = Host(p)] \in Memory
      BY <1>0 DEF Memory
    <3>2. CASE result = "moved"
      BY <1>0, <2>1, <3>1, <3>2
    <3>3. CASE result # "moved"
      BY <2>1, <3>3
    <3>4. QED
      BY <3>2, <3>3
  <2>4. pc' \in [Proc -> PcState]
    BY <2>1, MoveType DEF PcState
  <2>5. QED
    BY <1>3, <2>2, <2>3, <2>4 DEF AskSource, cloudVars
<1>4. CASE NotAllowed(p) \/ Unreached(p)
  BY <1>4, MoveType DEF NotAllowed, Unreached, fileVars, cloudVars
<1>5. CASE Allowed(p)
  BY <1>5, MoveType DEF Allowed, PcState, fileVars, cloudVars
<1>6. CASE NoteAttempt(p)
  <2>1. mem' \in [Proc -> Memory]
    BY <1>6, IdentitiesType DEF NoteAttempt, Memory
  <2>2. QED
    BY <1>0, <1>6, <2>1, MoveType DEF NoteAttempt, PcState, cloudVars
<1>7. CASE Accepted(p)
  BY <1>7, MoveType DEF Accepted, PcState, fileVars, cloudVars
<1>8. CASE ClearMarker(p)
  BY <1>0, <1>8, MoveType DEF ClearMarker, cloudVars
<1>9. CASE Rejected(p)
  <2>1. mem' \in [Proc -> Memory] /\ pc' \in [Proc -> PcState]
    <3>1. CASE Exit(p)
      BY <3>1, MoveType
    <3>2. CASE /\ Become(p, "auto")
               /\ mem' = [mem EXCEPT ![p].target = Nobody, ![p].again = TRUE]
      <4>1. mem' \in [Proc -> Memory]
        BY <3>2 DEF Memory
      <4>2. QED
        BY <3>2, <4>1, MoveType DEF PcState
    <3>3. QED
      BY <1>9, <3>1, <3>2 DEF Rejected
  <2>2. QED
    BY <1>9, <2>1 DEF Rejected, fileVars, cloudVars
<1>10. QED
  BY <1>1, <1>2, <1>3, <1>4, <1>5, <1>6, <1>7, <1>8, <1>9 DEF HeartbeatStep

LEMMA EnrollType ==
    ASSUME TypeOK, AimsRight, NEW p \in Proc, EnrollStep(p)
    PROVE  TypeOK'
<1> USE DEF TypeOK
<1>0. Host(p) \in Machine
  BY HostIsMachine
<1>1. ASSUME Issue(p)
      PROVE  /\ systems' \subseteq Machine /\ retired' \subseteq systems'
             /\ env' \in [Machine -> Settings]
             /\ UNCHANGED <<on, cooling, marker, check, byHand>>
  <2>1. mem[p].target \in Machine
    BY <1>1 DEF Issue, AimsRight, Aims
  <2>2. systems' \subseteq Machine /\ retired' \subseteq systems'
    BY <1>1, <2>1 DEF Issue
  <2>3. env' \in [Machine -> Settings]
    BY <1>1, OutdatedSettings DEF Issue
  <2>4. QED
    BY <1>1, <2>2, <2>3 DEF Issue
<1>2. CASE Enrolled(p)
  <2>1. mem' \in [Proc -> Memory]
    <3>1. mem[p].target \in Machine
      BY <1>2 DEF Enrolled, Issue, AimsRight, Aims
    <3>2. [mem[p] EXCEPT !.id = mem[p].target, !.tok = "valid"] \in Memory
      BY <3>1 DEF Memory, TokenState
    <3>3. \A q \in Proc : Outdated(mem[q], mem[p].target) \in Memory
      BY OutdatedMemory
    <3>4. QED
      BY <1>2, <3>2, <3>3 DEF Enrolled
  <2>2. pc' \in [Proc -> PcState]
    BY <1>2, MoveType DEF Enrolled, PcState
  <2>3. QED
    BY <1>1, <1>2, <2>1, <2>2 DEF Enrolled, Issue
<1>3. CASE EnrolledUnheard(p)
  <2>1. \A q \in Proc : Outdated(mem[q], mem[p].target) \in Memory
    BY OutdatedMemory
  <2>2. mem' \in [Proc -> Memory]
    BY <1>3, <2>1 DEF EnrolledUnheard
  <2>3. QED
    BY <1>1, <1>3, <2>2 DEF EnrolledUnheard, Issue
<1>4. CASE EnrollFailed(p)
  BY <1>4, MoveType DEF EnrollFailed, fileVars, cloudVars
<1>5. CASE ToldRetired(p)
  BY <1>5, MoveType DEF ToldRetired, PcState, fileVars, cloudVars
<1>6. CASE MarkRetired(p)
  BY <1>0, <1>6, MoveType DEF MarkRetired, cloudVars
<1>7. CASE Store(p)
  <2>1. [id |-> mem[p].id, tok |-> mem[p].tok] \in Settings
    BY DEF Memory, Settings
  <2>2. env' \in [Machine -> Settings]
    BY <1>0, <1>7, <2>1 DEF Store
  <2>3. pc' \in [Proc -> PcState]
    BY <1>7, MoveType DEF Store, PcState
  <2>4. QED
    BY <1>0, <1>7, <2>2, <2>3 DEF Store, cloudVars
<1>8. QED
  BY <1>2, <1>3, <1>4, <1>5, <1>6, <1>7 DEF EnrollStep

\* Kill, EnrollByHand, the machines and the cloud.
LEMMA WorldType ==
    ASSUME TypeOK,
           \/ Disturbance
           \/ \E m \in Machine : CoolDown(m) \/ ForgetCheck(m)
    PROVE  TypeOK'
<1> USE DEF TypeOK
<1>1. CASE \E p \in Proc : Kill(p)
  BY <1>1, MoveType DEF Kill, fileVars, cloudVars
<1>2. CASE \E p \in Proc : EnrollByHand(p)
  <2>1. PICK p \in Proc : EnrollByHand(p)
    BY <1>2
  <2>2. [id |-> env[Host(p)].id, tok |-> env[Host(p)].tok,
         target |-> Nobody, again |-> FALSE] \in Memory
    BY HostIsMachine DEF Settings, Memory
  <2>3. mem' \in [Proc -> Memory]
    BY <2>1, <2>2 DEF EnrollByHand, ReadSettings
  <2>4. pc' \in [Proc -> PcState]
    BY <2>1, MoveType DEF EnrollByHand, PcState
  <2>5. byHand' \in 0..MaxByHand
    BY <2>1 DEF EnrollByHand
  <2>6. QED
    BY <2>1, <2>3, <2>4, <2>5 DEF EnrollByHand, fileVars, cloudVars
<1>3. CASE \E m \in Machine : Reboot(m)
  <2>1. PICK m \in Machine : Reboot(m)
    BY <1>3
  <2>2. NoCheck \in Check /\ NoMemory \in Memory
    BY DEF NoCheck, Check, NoMemory, Memory, TokenState
  <2>3. check' \in [Machine -> Check] /\ mem' \in [Proc -> Memory]
    BY <2>1, <2>2 DEF Reboot
  <2>4. pc' \in [Proc -> PcState]
    BY <2>1 DEF Reboot, PcState
  <2>5. QED
    BY <2>1, <2>3, <2>4 DEF Reboot, cloudVars
<1>4. CASE \E m, n \in Machine : StartCopy(m, n)
  BY <1>4 DEF StartCopy, cloudVars, procVars
<1>5. CASE \E m \in Machine : RetireByHand(m)
  BY <1>5 DEF RetireByHand, fileVars, procVars
<1>6. CASE \E m \in Machine : Restore(m)
  <2>1. PICK i \in Machine : Restore(i)
    BY <1>6
  <2>2. env' \in [Machine -> Settings]
    BY <2>1, OutdatedSettings DEF Restore
  <2>3. mem' \in [Proc -> Memory]
    BY <2>1, OutdatedMemory DEF Restore
  <2>4. QED
    BY <2>1, <2>2, <2>3 DEF Restore
<1>7. CASE \E m \in Machine : CoolDown(m)
  BY <1>7 DEF CoolDown, cloudVars, procVars
<1>8. CASE \E m \in Machine : ForgetCheck(m)
  <2>1. NoCheck \in Check
    BY DEF NoCheck, Check
  <2>2. QED
    BY <1>8, <2>1 DEF ForgetCheck, cloudVars, procVars
<1>9. QED
  BY <1>1, <1>2, <1>3, <1>4, <1>5, <1>6, <1>7, <1>8 DEF Disturbance

\* A step of p leaves what the others aim at.
LEMMA OthersAim ==
    ASSUME AimsRight, NEW p \in Proc, Aims(p)',
           \A q \in Proc : q # p => /\ pc'[q] = pc[q]
                                    /\ mem'[q].id = mem[q].id
                                    /\ mem'[q].target = mem[q].target
    PROVE  AimsRight'
<1>1. ASSUME NEW q \in Proc, q # p PROVE Aims(q)'
  BY <1>1 DEF AimsRight, Aims
<1>2. QED
  BY <1>1 DEF AimsRight

LEMMA HeartbeatAims ==
    ASSUME IInv, NEW p \in Proc, HeartbeatStep(p)
    PROVE  AimsRight' /\ ChecksRight'
<1> USE DEF IInv
<1>0. /\ Host(p) \in Machine /\ Aims(p)
      /\ pc \in [Proc -> PcState] /\ mem \in [Proc -> Memory]
      /\ check \in [Machine -> Check]
  BY HostIsMachine DEF AimsRight, TypeOK
<1>1. \A q \in Proc : q # p => pc'[q] = pc[q] /\ mem'[q] = mem[q]
  <2>1. CASE \/ StartHeartbeat(p) \/ NotAllowed(p) \/ Unreached(p)
             \/ NoteAttempt(p) \/ Allowed(p) \/ ClearMarker(p)
    BY <1>0, <2>1 DEF StartHeartbeat, NotAllowed, Unreached, NoteAttempt,
         Allowed, ClearMarker, ReadSettings, Become, Exit
  <2>2. CASE UseCheck(p) \/ Accepted(p) \/ Rejected(p)
    BY <1>0, <2>2 DEF UseCheck, Accepted, Rejected, Become, Exit
  <2>3. CASE AskSource(p)
    BY <1>0, <2>3 DEF AskSource, Become
  <2>4. QED
    BY <2>1, <2>2, <2>3 DEF HeartbeatStep
<1>2. Aims(p)'
  <2>1. CASE StartHeartbeat(p)
    BY <1>0, <2>1 DEF StartHeartbeat, ReadSettings, Become, Aims
  <2>2. CASE UseCheck(p)
    <3>1. CASE check[Host(p)].result = "moved"
      BY <1>0, <2>2, <3>1 DEF UseCheck, Become, Aims, Memory
    <3>2. CASE check[Host(p)].result # "moved"
      <4>1. Host(p) \in Answering => mem[p].id = Host(p)
        BY <1>0, <2>2, <3>2 DEF UseCheck, ChecksRight, Check
      <4>2. QED
        BY <1>0, <2>2, <3>2, <4>1 DEF UseCheck, Become, Aims
    <3>3. QED
      BY <3>1, <3>2
  <2>3. CASE AskSource(p)
    <3>1. CASE /\ mem' = [mem EXCEPT ![p].target = Host(p)]
               /\ Become(p, "auto")
      BY <1>0, <3>1 DEF Become, Aims, Memory
    <3>2. CASE /\ mem' = mem /\ Become(p, "send")
               /\ Host(p) \in Answering => mem[p].id = Host(p)
      BY <1>0, <3>2 DEF Become, Aims
    <3>3. QED
      BY <2>3, <3>1, <3>2 DEF AskSource, Answers
  <2>4. CASE NotAllowed(p) \/ Unreached(p) \/ ClearMarker(p)
    BY <1>0, <2>4 DEF NotAllowed, Unreached, ClearMarker, Become, Exit, Aims
  <2>5. CASE Allowed(p)
    BY <1>0, <2>5 DEF Allowed, Become, Aims
  <2>6. CASE NoteAttempt(p)
    <3>1. PICK i \in Identities(p) : mem' = [mem EXCEPT ![p].target = i]
      BY <2>6 DEF NoteAttempt
    <3>2. i \in Machine /\ (Host(p) \in Answering => i = Host(p))
      BY <1>0, <2>6, IdentitiesType
      DEF NoteAttempt, Aims, Identities, Answers
    <3>3. QED
      BY <1>0, <2>6, <3>1, <3>2 DEF NoteAttempt, Become, Aims, Memory
  <2>7. CASE Accepted(p)
    BY <1>0, <2>7 DEF Accepted, Become, Exit, Aims
  <2>8. CASE Rejected(p)
    BY <1>0, <2>8 DEF Rejected, Become, Exit, Aims, Memory
  <2>9. QED
    BY <2>1, <2>2, <2>3, <2>4, <2>5, <2>6, <2>7, <2>8 DEF HeartbeatStep
<1>3. AimsRight'
  BY <1>1, <1>2, OthersAim
<1>4. ChecksRight'
  <2>1. CASE AskSource(p)
    BY <1>0, <2>1 DEF AskSource, ChecksRight, Answers
  <2>2. CASE ~AskSource(p)
    <3>1. check' = check
      BY <2>2 DEF HeartbeatStep, StartHeartbeat, UseCheck, NotAllowed, Allowed,
           NoteAttempt, Accepted, ClearMarker, Rejected, Unreached, fileVars
    <3>2. QED
      BY <3>1 DEF ChecksRight
  <2>3. QED
    BY <2>1, <2>2
<1>5. QED
  BY <1>3, <1>4


LEMMA EnrollAims ==
    ASSUME IInv, NEW p \in Proc, EnrollStep(p)
    PROVE  AimsRight' /\ ChecksRight'
<1> USE DEF IInv
<1>0. /\ Aims(p)
      /\ pc \in [Proc -> PcState] /\ mem \in [Proc -> Memory]
  BY DEF AimsRight, TypeOK
<1>1. \A q \in Proc : \A i :
         /\ Outdated(mem[q], i).id = mem[q].id
         /\ Outdated(mem[q], i).target = mem[q].target
  BY <1>0, OutdatedMemory
<1>2. CASE Enrolled(p)
  <2>1. /\ mem'[p].id = mem[p].target /\ mem'[p].target = mem[p].target
        /\ pc[p] = "enrolling" /\ pc'[p] = "storing"
    BY <1>0, <1>2 DEF Enrolled, Issue, Become, Memory
  <2>2. \A q \in Proc : q # p =>
           pc'[q] = pc[q] /\ mem'[q] = Outdated(mem[q], mem[p].target)
    BY <1>0, <1>2 DEF Enrolled, Become
  <2>3. Aims(p)'
    BY <1>0, <2>1 DEF Aims
  <2>4. AimsRight'
    BY <1>1, <2>2, <2>3, OthersAim
  <2>5. QED
    BY <1>2, <2>4 DEF Enrolled, Issue, ChecksRight
<1>3. CASE EnrolledUnheard(p)
  <2>1. \A q \in Proc :
           pc'[q] = pc[q] /\ mem'[q] = Outdated(mem[q], mem[p].target)
    BY <1>3 DEF EnrolledUnheard
  <2>2. Aims(p)'
    BY <1>0, <1>1, <2>1 DEF Aims
  <2>3. AimsRight'
    BY <1>1, <2>1, <2>2, OthersAim
  <2>4. QED
    BY <1>3, <2>3 DEF EnrolledUnheard, Issue, ChecksRight
<1>4. CASE EnrollFailed(p) \/ ToldRetired(p) \/ MarkRetired(p) \/ Store(p)
  <2>1. \A q \in Proc : q # p => pc'[q] = pc[q] /\ mem'[q] = mem[q]
    BY <1>0, <1>4 DEF EnrollFailed, ToldRetired, MarkRetired, Store, Become,
         Exit
  <2>2. Aims(p)'
    BY <1>0, <1>4 DEF EnrollFailed, ToldRetired, MarkRetired, Store, Become,
         Exit, Aims
  <2>3. AimsRight'
    BY <2>1, <2>2, OthersAim
  <2>4. check' = check
    BY <1>4 DEF EnrollFailed, ToldRetired, MarkRetired, Store, fileVars
  <2>5. QED
    BY <2>3, <2>4 DEF ChecksRight
<1>5. QED
  BY <1>2, <1>3, <1>4 DEF EnrollStep

LEMMA WorldAims ==
    ASSUME IInv,
           \/ Disturbance
           \/ \E m \in Machine : CoolDown(m) \/ ForgetCheck(m)
    PROVE  AimsRight' /\ ChecksRight'
<1> USE DEF IInv
<1>0. /\ pc \in [Proc -> PcState] /\ mem \in [Proc -> Memory]
      /\ check \in [Machine -> Check] /\ Answering \subseteq Machine
  BY DEF TypeOK
<1>1. CASE \E p \in Proc : Kill(p) \/ EnrollByHand(p)
  <2>1. PICK p \in Proc : Kill(p) \/ EnrollByHand(p)
    BY <1>1
  <2>2. \A q \in Proc : q # p => pc'[q] = pc[q] /\ mem'[q] = mem[q]
    BY <1>0, <2>1 DEF Kill, EnrollByHand, ReadSettings, Become, Exit
  <2>3. Aims(p)'
    <3>1. CASE Kill(p)
      BY <1>0, <3>1 DEF Kill, Become, Exit, Aims
    <3>2. CASE EnrollByHand(p)
      BY <1>0, <3>2 DEF EnrollByHand, ReadSettings, Become, Aims
    <3>3. QED
      BY <2>1, <3>1, <3>2
  <2>4. AimsRight'
    BY <2>2, <2>3, OthersAim
  <2>5. QED
    BY <2>1, <2>4 DEF Kill, EnrollByHand, fileVars, ChecksRight
<1>2. CASE \E m \in Machine : Reboot(m)
  <2>1. PICK m \in Machine : Reboot(m)
    BY <1>2
  <2>2. \A q \in Proc : \/ pc'[q] = "idle"
                        \/ pc'[q] = pc[q] /\ mem'[q] = mem[q]
    BY <2>1 DEF Reboot
  <2>3. ASSUME NEW q \in Proc PROVE Aims(q)'
    BY <2>2 DEF AimsRight, Aims
  <2>4. \A n \in Machine : check'[n] = IF n = m THEN NoCheck ELSE check[n]
    BY <1>0, <2>1 DEF Reboot
  <2>5. ChecksRight'
    BY <1>0, <2>4 DEF ChecksRight, NoCheck
  <2>6. QED
    BY <2>3, <2>5 DEF AimsRight
<1>3. CASE \E m \in Machine : Restore(m)
  <2>1. PICK i \in Machine : Restore(i)
    BY <1>3
  <2>2. \A q \in Proc : /\ pc'[q] = pc[q] /\ mem'[q].id = mem[q].id
                        /\ mem'[q].target = mem[q].target
    BY <1>0, <2>1, OutdatedMemory DEF Restore
  <2>3. ASSUME NEW q \in Proc PROVE Aims(q)'
    BY <2>2 DEF AimsRight, Aims
  <2>4. QED
    BY <2>1, <2>3 DEF AimsRight, Restore, ChecksRight
<1>4. CASE \/ \E m \in Machine : RetireByHand(m) \/ CoolDown(m)
           \/ \E m, n \in Machine : StartCopy(m, n)
  <2>1. pc' = pc /\ mem' = mem /\ check' = check
    BY <1>4 DEF RetireByHand, CoolDown, StartCopy, procVars, fileVars
  <2>2. QED
    BY <2>1 DEF AimsRight, Aims, ChecksRight
<1>5. CASE \E m \in Machine : ForgetCheck(m)
  <2>1. PICK m \in Machine : ForgetCheck(m)
    BY <1>5
  <2>2. pc' = pc /\ mem' = mem
    BY <2>1 DEF ForgetCheck, procVars
  <2>3. \A n \in Machine : check'[n] = IF n = m THEN NoCheck ELSE check[n]
    BY <1>0, <2>1 DEF ForgetCheck
  <2>4. AimsRight'
    BY <2>2 DEF AimsRight, Aims
  <2>5. ChecksRight'
    BY <1>0, <2>3 DEF ChecksRight, NoCheck
  <2>6. QED
    BY <2>4, <2>5
<1>6. QED
  BY <1>1, <1>2, <1>3, <1>4, <1>5 DEF Disturbance

LEMMA NextIInv == IInv /\ [Next]_vars => IInv'
<1> SUFFICES ASSUME IInv, [Next]_vars PROVE IInv'
  OBVIOUS
<1>1. CASE \E p \in Proc : HeartbeatStep(p)
  BY <1>1, HeartbeatType, HeartbeatAims DEF IInv
<1>2. CASE \E p \in Proc : EnrollStep(p)
  BY <1>2, EnrollType, EnrollAims DEF IInv
<1>3. CASE \/ Disturbance
           \/ \E m \in Machine : CoolDown(m) \/ ForgetCheck(m)
  BY <1>3, WorldType, WorldAims DEF IInv
<1>4. CASE UNCHANGED vars
  BY <1>4 DEF vars, IInv, TypeOK, AimsRight, Aims, ChecksRight
<1>5. QED
  BY <1>1, <1>2, <1>3, <1>4 DEF Next

THEOREM InductiveInvariant == Spec => []IInv
BY InitIInv, NextIInv, PTL DEF Spec

\* The types hold for any machines, units and bounds.
THEOREM TypeCorrect == Spec => []TypeOK
<1>1. IInv => TypeOK
  BY DEF IInv
<1>2. QED
  BY <1>1, InductiveInvariant, PTL

\* However many machines start from one disk image, and whatever is killed,
\* lost or done by hand meanwhile: a machine whose identity source answers
\* neither enrolls as another one nor uses its credentials.
THEOREM NeverTakesOver == Spec => []NoTakeover
<1>1. IInv => NoTakeover
  BY DEF IInv, AimsRight, Aims, NoTakeover
<1>2. QED
  BY <1>1, InductiveInvariant, PTL

=============================================================================
