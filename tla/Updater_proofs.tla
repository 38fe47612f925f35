--------------------------- MODULE Updater_proofs ---------------------------
(***************************************************************************)
(* Proofs about the updater: for any number of versions, lists of units,   *)
(* requests and kills.                                                     *)
(***************************************************************************)
EXTENDS Updater, TLAPS

RunOK == [code : 0..MaxVersion, force : BOOLEAN, expected : 0..MaxVersion,
          current : BOOLEAN, copied : SUBSET Unit, added : SUBSET Unit]

\* The units a run has copied are there until it ends, and from the bundle
\* on it knows the version it fetches.
Copied ==
    /\ run.added \subseteq run.copied
    /\ run.copied \subseteq units
    /\ pc \notin {"idle", "checksum"} =>
          run.code \in Version /\ run.expected \in Version
    /\ pc = "checksum" => run.code \in Version

Typed == TypeOK /\ run \in RunOK /\ Copied

LEMMA VersionType == 0 \notin Version /\ Version \subseteq 0..MaxVersion
                     /\ 1 \in Version /\ MaxVersion \in Nat
BY UpdaterAssumption DEF Version

LEMMA NoRunType == NoRun \in RunOK /\ NoRun.copied = {} /\ NoRun.added = {}
BY VersionType DEF NoRun, RunOK, Version

LEMMA UnitType == \A v, w \in Version : UnitsOf[v] \cap UnitsOf[w] \subseteq Unit
BY DEF Unit

LEMMA InitTyped == Init => Typed
<1> SUFFICES ASSUME Init PROVE Typed
  OBVIOUS
<1>1. run \in RunOK /\ Copied
  BY NoRunType DEF Init, Copied
<1>2. units \subseteq Unit /\ enabled \subseteq units
  BY VersionType DEF Init, Unit
<1>3. bundle \in Version /\ checksum \in Version /\ installed \in Version
      /\ recorded \in 0..MaxVersion /\ api \in 0..MaxVersion
  BY VersionType DEF Init
<1>4. {writable, optedOut, upset, cut} \subseteq BOOLEAN
      /\ pc \in Step /\ package \in Package
  BY DEF Init, Step, Package
<1>5. request \in 0..MaxRequests /\ asked \in 0..MaxRequests
      /\ seen \in 0..MaxRequests /\ kills \in 0..MaxKills
  BY UpdaterAssumption DEF Init
<1>6. QED
  BY <1>1, <1>2, <1>3, <1>4, <1>5 DEF Typed, TypeOK, RunOK

LEMMA RunTyped == ASSUME Typed, RunStep PROVE Typed'
<1> USE DEF Typed, published, machine, software, requests
<1>0. run \in RunOK /\ Copied /\ TypeOK
  OBVIOUS
<1>e. ASSUME End PROVE pc' = "idle" /\ run' \in RunOK
                       /\ run'.added = {} /\ run'.copied = {}
  BY <1>e, NoRunType DEF End
<1>r. ASSUME AfterRefresh, pc \notin {"idle", "checksum"}
      PROVE  \/ pc' = "record" /\ run' = run
             \/ /\ pc' = "idle" /\ run' \in RunOK
                /\ run'.added = {} /\ run'.copied = {}
  BY <1>0, <1>r, <1>e DEF AfterRefresh
<1>1. CASE FetchChecksum
  <2>1. CASE End
    BY <1>0, <1>1, <1>e, <2>1 DEF FetchChecksum, TypeOK, Copied, RunOK, Step
  <2>2. CASE /\ pc' = "bundle"
             /\ run' = [run EXCEPT !.expected = checksum,
                          !.current = UpToDate]
    <3>1. run' \in RunOK /\ run'.copied = run.copied /\ run'.added = run.added
          /\ run'.code = run.code /\ run'.expected = checksum
      BY <1>0, <2>2, VersionType DEF RunOK, TypeOK, UpToDate
    <3>2. QED
      BY <1>0, <1>1, <2>2, <3>1 DEF FetchChecksum, TypeOK, Copied, RunOK, Step
  <2>3. QED
    BY <1>1, <2>1, <2>2 DEF FetchChecksum
<1>2. CASE FetchBundle
  BY <1>0, <1>2 DEF FetchBundle, TypeOK, Copied, RunOK, Step
<1>p. ASSUME PipInstalls, pc \notin {"idle", "checksum"}
      PROVE  installed' \in Version /\ package' \in Package /\ cut' \in BOOLEAN
  BY <1>0, <1>p DEF PipInstalls, Package, Copied
<1>3. CASE Install
  BY <1>0, <1>3, <1>p DEF Install, TypeOK, Copied, RunOK, Step
<1>4. CASE CopyUnits
  <2>1. CASE ~writable
    <3>1. AfterRefresh /\ UNCHANGED <<units, upset>> /\ pc = "copy"
      BY <1>4, <2>1 DEF CopyUnits
    <3>2. QED
      BY <1>0, <1>4, <1>r, <3>1
         DEF CopyUnits, TypeOK, Copied, RunOK, Step
  <2>2. CASE writable
    <3>1. Shipped \subseteq Unit /\ pc = "copy"
      BY <1>0, <1>4, UnitType DEF CopyUnits, Copied, Shipped
    <3>2. PICK copied \in SUBSET Shipped :
            /\ units' = units \cup copied
            /\ IF copied = Shipped
                 THEN /\ pc' = "enable"
                      /\ run' = [run EXCEPT !.copied = copied,
                                            !.added = copied \ units]
                      /\ UNCHANGED upset
                 ELSE AfterRefresh /\ upset' = TRUE
      BY <1>4, <2>2 DEF CopyUnits
    <3>3. units' \subseteq Unit /\ enabled \subseteq units'
          /\ units \subseteq units'
      BY <1>0, <3>1, <3>2 DEF TypeOK
    <3>4. CASE copied = Shipped
      <4> DEFINE added == copied \ units
      <4>a. copied \in SUBSET Unit /\ added \in SUBSET Unit
        BY <3>1, <3>2
      <4>b. run' = [run EXCEPT !.copied = copied, !.added = added]
        BY <3>2, <3>4
      <4>1. run' \in RunOK /\ run'.copied = copied
            /\ run'.added = added
            /\ run'.code = run.code /\ run'.expected = run.expected
        <5> HIDE DEF added
        <5>1. QED
          BY <1>0, <4>a, <4>b DEF RunOK
      <4>2. QED
        BY <1>0, <1>4, <3>1, <3>2, <3>3, <3>4, <4>1
           DEF CopyUnits, TypeOK, Copied, RunOK, Step
    <3>5. CASE copied # Shipped
      <4>1. AfterRefresh /\ upset' = TRUE
        BY <3>2, <3>5
      <4>2. pc' \in Step /\ upset' \in BOOLEAN
        BY <1>r, <3>1, <4>1 DEF Step
      <4>3. Copied' /\ run' \in RunOK
        BY <1>0, <1>r, <3>1, <3>2, <3>3, <4>1 DEF Copied
      <4>4. QED
        BY <1>0, <1>4, <3>3, <4>2, <4>3
           DEF CopyUnits, TypeOK, RunOK
    <3>6. QED
      BY <3>4, <3>5
  <2>3. QED
    BY <2>1, <2>2
<1>5. CASE EnableUnits
  <2>1. /\ pc' = "restart" /\ upset' \in BOOLEAN
        /\ enabled' \subseteq enabled \cup run.copied
    BY <1>0, <1>5 DEF EnableUnits, Copied, TypeOK
  <2>2. enabled' \subseteq units
    BY <1>0, <2>1 DEF TypeOK, Copied
  <2>3. QED
    BY <1>0, <1>5, <2>1, <2>2 DEF EnableUnits, TypeOK, Copied, RunOK, Step
<1>6. CASE RestartApi
  <2>1. AfterRefresh /\ pc = "restart"
    BY <1>6 DEF RestartApi
  <2>2. api' \in 0..MaxVersion
    <3>1. Code \in 0..MaxVersion /\ 0 \in 0..MaxVersion
      <4>1. installed \in 0..MaxVersion /\ 0 \in 0..MaxVersion
        <5>1. installed \in Version
          BY <1>0 DEF TypeOK
        <5>2. QED
          BY <5>1, VersionType
      <4>2. Code = installed \/ Code = 0
        BY DEF Code
      <4>3. QED
        BY <4>1, <4>2
    <3>2. api' \in {0, Code, api}
      BY <1>6 DEF RestartApi
    <3>3. api \in 0..MaxVersion
      BY <1>0 DEF TypeOK
    <3>4. QED
      BY <3>1, <3>2, <3>3
  <2>3. upset' \in BOOLEAN
    BY <1>0, <1>6 DEF RestartApi, TypeOK
  <2>4. QED
    BY <1>0, <1>6, <1>r, <2>1, <2>2, <2>3
       DEF RestartApi, TypeOK, Copied, RunOK, Step
<1>7. CASE Record
  <2>1. recorded' \in 0..MaxVersion
    BY <1>0, <1>7 DEF Record, RunOK
  <2>2. QED
    BY <1>0, <1>7, <1>e, <2>1 DEF Record, TypeOK, Copied, RunOK, Step
<1>8. QED
  BY <1>1, <1>2, <1>3, <1>4, <1>5, <1>6, <1>7 DEF RunStep

LEMMA NextTyped == ASSUME Typed, [Next]_vars PROVE Typed'
<1> USE DEF Typed, published, machine, software, requests
<1>0. run \in RunOK /\ Copied /\ TypeOK
  OBVIOUS
<1>e. ASSUME End PROVE pc' = "idle" /\ run' \in RunOK
                       /\ run'.added = {} /\ run'.copied = {}
  BY <1>e, NoRunType DEF End
<1>b. ASSUME NEW force \in BOOLEAN, Begin(force)
      PROVE  pc' = "checksum" /\ run' \in RunOK /\ run'.code \in Version
             /\ run'.added = {} /\ run'.copied = {}
  <2>1. PICK code \in installed..checksum :
           run' = [NoRun EXCEPT !.code = code, !.force = force]
    BY <1>b DEF Begin
  <2>2. code \in Version
    BY <1>0, UpdaterAssumption DEF TypeOK, Version
  <2>3. QED
    BY <1>b, <2>1, <2>2, NoRunType, VersionType DEF Begin, NoRun, RunOK
<1>1. ASSUME NEW force \in BOOLEAN, Start(force) PROVE Typed'
  BY <1>0, <1>1, <1>b DEF Start, TypeOK, Copied, RunOK, Step
<1>2. CASE Fail
  BY <1>0, <1>2, <1>e DEF Fail, TypeOK, Copied, RunOK, Step
<1>3. CASE Kill
  <2>1. recorded' \in 0..MaxVersion /\ kills' \in 0..MaxKills
    BY <1>0, <1>3, UpdaterAssumption, VersionType DEF Kill, TypeOK
  <2>2. upset' \in BOOLEAN
    BY <1>0, <1>3 DEF Kill, TypeOK
  <2>3. installed' \in Version /\ package' \in Package /\ cut' \in BOOLEAN
    BY <1>0, <1>3 DEF Kill, PipCutShort, PipInstalls, TypeOK, Package, Copied
  <2>4. QED
    BY <1>0, <1>3, <1>e, <2>1, <2>2, <2>3
       DEF Kill, TypeOK, Copied, RunOK, Step
<1>4. CASE StartRequested
  <2>1. (pc' = "checksum" /\ run' \in RunOK /\ run'.code \in Version
           /\ run'.added = {} /\ run'.copied = {})
        \/ UNCHANGED <<pc, run>>
    BY <1>4, <1>b DEF StartRequested
  <2>2. QED
    BY <1>0, <1>4, <2>1 DEF StartRequested, TypeOK, Copied, RunOK, Step
<1>5. CASE NoteRequest \/ ForgetRequest \/ MakeRequest
  BY <1>0, <1>5, UpdaterAssumption
     DEF NoteRequest, ForgetRequest, MakeRequest, TypeOK, Copied, RunOK
<1>6. CASE PublishBundle \/ PublishChecksum
  BY <1>0, <1>6, UpdaterAssumption
     DEF PublishBundle, PublishChecksum, TypeOK, Copied, RunOK, Version
<1>7. CASE OptOut
  BY <1>0, <1>7 DEF OptOut, TypeOK, Copied, RunOK
<1>8. CASE SwitchApi
  <2>1. api' \in 0..MaxVersion
    <3>1. 0 \in 0..MaxVersion /\ Code \in 0..MaxVersion
      <4>1. installed \in Version
        BY <1>0 DEF TypeOK
      <4>2. QED
        BY <4>1, VersionType DEF Code
    <3>2. api' = Code \/ api' = 0
      BY <1>8 DEF SwitchApi
    <3>3. QED
      BY <3>1, <3>2
  <2>2. QED
    BY <1>0, <1>8, <2>1 DEF SwitchApi, TypeOK, Copied, RunOK
<1>9. CASE UNCHANGED vars
  BY <1>0, <1>9 DEF vars, TypeOK, Copied, RunOK
<1>10. QED
  BY <1>1, <1>2, <1>3, <1>4, <1>5, <1>6, <1>7, <1>8, <1>9, RunTyped DEF Next

\* Types are kept, for any versions and lists of units.
THEOREM TypeCorrect == Spec => []TypeOK
<1>1. Typed => TypeOK
  BY DEF Typed
<1>2. QED
  BY <1>1, InitTyped, NextTyped, PTL DEF Spec

-----------------------------------------------------------------------------
(* Skipped updates. *)

\* Versions are recorded only after they were published and installed, a run
\* on its way there works on none older than the recorded one, and unless it
\* was forced on a newer one, which its record lacks.
Made ==
    /\ recorded <= installed /\ recorded <= checksum /\ checksum <= bundle
    /\ pc \notin {"idle", "checksum"} =>
          recorded <= run.expected /\ run.expected <= checksum
    /\ pc \in {"bundle", "install"} /\ ~run.current /\ ~run.force =>
          recorded < run.expected
    /\ pc = "install" => ~run.current
    /\ pc \in {"copy", "enable", "restart", "record"} /\ ~run.current =>
          installed = run.expected /\ package = "whole"
    /\ pc = "record" => ~run.current
    /\ SkippedMeansInstalled

LEMMA InitMade == Init => Made
BY DEF Init, Made, SkippedMeansInstalled

LEMMA NextMade == ASSUME Typed, Made, [Next]_vars PROVE Made'
<1> USE DEF Made, SkippedMeansInstalled, published, machine, software, requests
<1>0. /\ run \in RunOK /\ MaxVersion \in Nat
      /\ bundle \in Nat /\ checksum \in Nat /\ installed \in Nat
      /\ recorded \in Nat /\ bundle > 0 /\ checksum > 0
      /\ run.expected \in Nat
  BY UpdaterAssumption DEF Typed, TypeOK, RunOK, Version
<1>e. ASSUME End PROVE pc' = "idle"
  BY <1>e DEF End
<1>r. ASSUME AfterRefresh
      PROVE  pc' = "idle" \/ (pc' = "record" /\ run' = run /\ ~run.current)
  BY <1>r DEF AfterRefresh, End
<1>1. CASE FetchChecksum
  <2>1. CASE End
    BY <1>0, <1>1, <1>e, <2>1 DEF FetchChecksum
  <2>2. CASE /\ pc' = "bundle"
             /\ run' = [run EXCEPT !.expected = checksum,
                          !.current = UpToDate]
    <3>1. run'.expected = checksum /\ run'.current = UpToDate
          /\ run'.force = run.force
      BY <1>0, <2>2 DEF RunOK
    <3>2. ~UpToDate /\ ~run.force => recorded < checksum
      BY <1>0 DEF UpToDate
    <3>3. QED
      BY <1>0, <1>1, <2>2, <3>1, <3>2 DEF FetchChecksum
  <2>3. QED
    BY <1>1, <2>1, <2>2 DEF FetchChecksum
<1>2. CASE FetchBundle
  <2>1. pc' = "copy" => run.current
    BY <1>2 DEF FetchBundle
  <2>2. QED
    BY <1>0, <1>2, <2>1 DEF FetchBundle
<1>3. CASE Install
  BY <1>0, <1>3 DEF Install, PipInstalls
<1>4. CASE CopyUnits
  <2>1. \/ AfterRefresh
        \/ /\ pc' = "enable"
           /\ \E c, a : run' = [run EXCEPT !.copied = c, !.added = a]
    BY <1>4 DEF CopyUnits
  <2>2. pc = "copy" /\ UNCHANGED <<bundle, checksum, recorded, installed, package, cut>>
    BY <1>4 DEF CopyUnits
  <2>3. CASE AfterRefresh
    BY <1>0, <1>r, <2>2, <2>3
  <2>4. CASE /\ pc' = "enable"
             /\ \E c, a : run' = [run EXCEPT !.copied = c, !.added = a]
    <3>1. run'.expected = run.expected /\ run'.current = run.current
          /\ run'.force = run.force
      BY <1>0, <2>4 DEF RunOK
    <3>2. QED
      BY <1>0, <2>2, <2>4, <3>1
  <2>5. QED
    BY <2>1, <2>3, <2>4
<1>5. CASE EnableUnits
  BY <1>0, <1>5 DEF EnableUnits
<1>6. CASE RestartApi
  <2>1. pc = "restart" /\ UNCHANGED <<bundle, checksum, recorded, installed, package, cut>>
    BY <1>6 DEF RestartApi
  <2>2. QED
    BY <1>0, <1>6, <1>r, <2>1 DEF RestartApi
<1>7. CASE Record
  <2>1. recorded' = run.expected /\ pc = "record" /\ pc' = "idle"
        /\ UNCHANGED <<bundle, checksum, installed, package, cut>>
    BY <1>7, <1>e DEF Record
  <2>2. QED
    BY <1>0, <2>1
<1>8. ASSUME NEW force \in BOOLEAN, Begin(force) PROVE pc' = "checksum"
  BY <1>8 DEF Begin
<1>9. ASSUME NEW force \in BOOLEAN, Start(force) PROVE Made'
  BY <1>0, <1>8, <1>9 DEF Start
<1>10. CASE StartRequested
  <2>1. pc' = "checksum" \/ UNCHANGED <<pc, run>>
    BY <1>8, <1>10 DEF StartRequested
  <2>2. QED
    BY <1>0, <1>10, <2>1 DEF StartRequested
<1>11. CASE Fail
  BY <1>0, <1>e, <1>11 DEF Fail
<1>12. CASE Kill
  <2>1. recorded' = recorded \/ (recorded' = 0 /\ pc = "record")
    BY <1>12 DEF Kill
  <2>2. pc' = "idle" /\ UNCHANGED <<bundle, checksum>>
    BY <1>12, <1>e DEF Kill
  <2>3. CASE UNCHANGED software
    BY <1>0, <2>1, <2>2, <2>3
  <2>4. CASE pc = "install" /\ PipInstalls
    BY <1>0, <2>1, <2>2, <2>4 DEF PipInstalls
  <2>5. CASE /\ pc = "install" /\ installed' = installed
             /\ cut' = (cut \/ run.force)
    <3>1. CASE run.force
      BY <1>0, <2>1, <2>2, <2>5, <3>1
    <3>2. CASE ~run.force
      <4>1. recorded' < checksum
        BY <1>0, <2>1, <2>5, <3>2
      <4>2. QED
        BY <1>0, <2>1, <2>2, <2>5, <4>1
    <3>3. QED
      BY <3>1, <3>2
  <2>6. QED
    BY <1>12, <2>3, <2>4, <2>5 DEF Kill, PipCutShort
<1>13. CASE NoteRequest \/ ForgetRequest \/ MakeRequest \/ OptOut \/ SwitchApi
            \/ UNCHANGED vars
  BY <1>0, <1>13
     DEF NoteRequest, ForgetRequest, MakeRequest, OptOut, SwitchApi, vars
<1>14. CASE PublishBundle \/ PublishChecksum
  BY <1>0, <1>14 DEF PublishBundle, PublishChecksum
<1>15. QED
  BY <1>1, <1>2, <1>3, <1>4, <1>5, <1>6, <1>7, <1>9, <1>10, <1>11, <1>12,
     <1>13, <1>14 DEF Next, RunStep

\* An update is never skipped as already made while another version is
\* installed, or this one in part, wherever runs fail or are killed, unless a
\* forced run was cut short in pip.
THEOREM SkippedInstalled == Spec => []SkippedMeansInstalled
<1>1. Made => SkippedMeansInstalled
  BY DEF Made
<1>2. Spec => [](Typed /\ Made)
  BY InitTyped, NextTyped, InitMade, NextMade, PTL DEF Spec
<1>3. QED
  BY <1>1, <1>2, PTL

-----------------------------------------------------------------------------
(* The abstract specification. *)

\* A run on its way to an installation leads forward.
Forward ==
    /\ installed <= checksum
    /\ pc \notin {"idle", "checksum"} => installed <= run.expected

LEMMA NextForward ==
    ASSUME Typed, Made, Forward, [Next]_vars
    PROVE  Forward'
<1> USE DEF Forward, published, machine, software, requests
<1>0. /\ run \in RunOK /\ run.expected \in Nat
      /\ bundle \in Nat /\ checksum \in Nat /\ installed \in Nat
      /\ checksum <= bundle
      /\ pc \notin {"idle", "checksum"} => run.expected <= checksum
  BY UpdaterAssumption DEF Typed, TypeOK, RunOK, Version, Made
<1>e. ASSUME End PROVE pc' = "idle"
  BY <1>e DEF End
<1>r. ASSUME AfterRefresh PROVE pc' = "idle" \/ (pc' = "record" /\ run' = run)
  BY <1>r DEF AfterRefresh, End
<1>1. CASE FetchChecksum
  <2>1. CASE End
    BY <1>0, <1>1, <1>e, <2>1 DEF FetchChecksum
  <2>2. CASE /\ pc' = "bundle"
             /\ run' = [run EXCEPT !.expected = checksum,
                          !.current = UpToDate]
    <3>1. run'.expected = checksum
      BY <1>0, <2>2 DEF RunOK
    <3>2. QED
      BY <1>0, <1>1, <2>2, <3>1 DEF FetchChecksum
  <2>3. QED
    BY <1>1, <2>1, <2>2 DEF FetchChecksum
<1>2. CASE FetchBundle \/ EnableUnits
  BY <1>0, <1>2 DEF FetchBundle, EnableUnits
<1>3. CASE Install
  BY <1>0, <1>3 DEF Install, PipInstalls
<1>4. CASE CopyUnits
  <2>1. \/ AfterRefresh
        \/ \E c, a : run' = [run EXCEPT !.copied = c, !.added = a]
    BY <1>4 DEF CopyUnits
  <2>2. pc = "copy" /\ UNCHANGED <<checksum, installed>>
    BY <1>4 DEF CopyUnits
  <2>3. CASE AfterRefresh
    BY <1>0, <1>r, <2>2, <2>3
  <2>4. CASE \E c, a : run' = [run EXCEPT !.copied = c, !.added = a]
    <3>1. run'.expected = run.expected
      BY <1>0, <2>4 DEF RunOK
    <3>2. QED
      BY <2>2, <3>1
  <2>5. QED
    BY <2>1, <2>3, <2>4
<1>5. CASE RestartApi
  BY <1>0, <1>r, <1>5 DEF RestartApi
<1>6. CASE Record \/ Fail \/ Kill
  BY <1>0, <1>e, <1>6 DEF Record, Fail, Kill, PipCutShort, PipInstalls
<1>7. ASSUME NEW force \in BOOLEAN, Begin(force) PROVE pc' = "checksum"
  BY <1>7 DEF Begin
<1>8. ASSUME NEW force \in BOOLEAN, Start(force) PROVE Forward'
  BY <1>7, <1>8 DEF Start
<1>9. CASE StartRequested
  <2>1. pc' = "checksum" \/ UNCHANGED <<pc, run>>
    BY <1>7, <1>9 DEF StartRequested
  <2>2. QED
    BY <1>9, <2>1 DEF StartRequested
<1>10. CASE NoteRequest \/ ForgetRequest \/ MakeRequest \/ OptOut \/ SwitchApi
            \/ UNCHANGED vars
  BY <1>10 DEF NoteRequest, ForgetRequest, MakeRequest, OptOut, SwitchApi, vars
<1>11. CASE PublishBundle \/ PublishChecksum
  BY <1>0, <1>11 DEF PublishBundle, PublishChecksum
<1>12. QED
  BY <1>1, <1>2, <1>3, <1>4, <1>5, <1>6, <1>8, <1>9, <1>10, <1>11
     DEF Next, RunStep

\* Each step is one of the abstract specification, or leaves its variables.
LEMMA StepSimulates ==
    ASSUME Typed, Made, Forward, [Next]_vars
    PROVE  [Versions!Next]_(Versions!versionVars)
<1> USE DEF published, machine, software, Versions!Next, Versions!versionVars
<1>0. /\ run.expected \in Nat /\ bundle \in Nat /\ checksum \in Nat
      /\ installed \in Nat /\ recorded \in Nat
  BY UpdaterAssumption DEF Typed, TypeOK, RunOK, Version
<1>1. CASE Install
  <2>1. pc = "install" /\ installed' = run.expected
        /\ package' = "whole" /\ cut' = FALSE
        /\ UNCHANGED <<checksum, recorded>>
    BY <1>1 DEF Install, PipInstalls
  <2>2. installed <= run.expected /\ run.expected <= checksum
    BY <1>0, <2>1 DEF Forward, Made
  <2>3. QED
    BY <1>0, <2>1, <2>2 DEF Versions!Install
<1>2. CASE Record
  <2>1. installed = run.expected /\ package = "whole"
    BY <1>2 DEF Made, Record
  <2>2. QED
    BY <1>2, <2>1 DEF Record, Versions!Record
<1>3. CASE Kill
  <2>1. UNCHANGED checksum
    BY <1>3 DEF Kill
  <2>2. CASE pc # "install"
    BY <1>3, <2>1, <2>2 DEF Kill, Versions!Forget
  <2>3. CASE pc = "install"
    <3>1. UNCHANGED recorded /\ PipCutShort
      BY <1>3, <2>3 DEF Kill
    <3>2. CASE UNCHANGED software
      BY <2>1, <3>1, <3>2
    <3>3. CASE PipInstalls
      <4>1. installed <= run.expected /\ run.expected <= checksum
        BY <2>3 DEF Forward, Made
      <4>2. installed' \in installed..checksum /\ package' = "whole"
            /\ cut' = FALSE
        BY <1>0, <3>3, <4>1 DEF PipInstalls
      <4>3. QED
        BY <2>1, <3>1, <4>2 DEF Versions!Install
    <3>4. CASE /\ package' \in {"mixed", "dead"}
               /\ cut' = (cut \/ run.force)
               /\ UNCHANGED installed
      <4>1. CASE run.force
        BY <2>1, <3>1, <3>4, <4>1 DEF Versions!BreakForced
      <4>2. CASE ~run.force
        <5>1. recorded < run.expected /\ run.expected <= checksum
          BY <2>3, <4>2 DEF Made
        <5>2. recorded < checksum
          BY <1>0, <5>1
        <5>3. cut' = cut
          BY <3>4, <4>2 DEF Typed, TypeOK
        <5>4. QED
          BY <2>1, <3>1, <3>4, <5>2, <5>3 DEF Versions!BreakOff
      <4>3. QED
        BY <4>1, <4>2
    <3>5. QED
      BY <3>1, <3>2, <3>3, <3>4 DEF PipCutShort
  <2>4. QED
    BY <2>2, <2>3
<1>4. CASE PublishChecksum
  <2>1. checksum <= bundle
    BY DEF Made
  <2>2. QED
    BY <1>0, <1>4, <2>1 DEF PublishChecksum, Versions!Publish
<1>5. CASE FetchChecksum \/ FetchBundle \/ CopyUnits \/ EnableUnits \/ RestartApi
  BY <1>5 DEF FetchChecksum, FetchBundle, CopyUnits, EnableUnits, RestartApi
<1>6. CASE (\E force \in BOOLEAN : Start(force)) \/ Fail \/ StartRequested
  BY <1>6 DEF Start, Fail, StartRequested
<1>7. CASE NoteRequest \/ ForgetRequest \/ MakeRequest \/ PublishBundle
           \/ OptOut \/ SwitchApi \/ UNCHANGED vars
  BY <1>7 DEF NoteRequest, ForgetRequest, MakeRequest, PublishBundle, OptOut,
              SwitchApi, vars
<1>8. QED
  BY <1>1, <1>2, <1>3, <1>4, <1>5, <1>6, <1>7 DEF Next, RunStep

\* The updater implements AgentVersion: whatever fails, is killed or is published
\* meanwhile, the installed version never goes back, only a version installed as a
\* whole is recorded, and only a forced run can break one that is recorded.
THEOREM RefinesVersions == Spec => ImplementsVersions
<1>1. Init => Typed /\ Made /\ Forward /\ Versions!Init
  <2>1. Init => Forward /\ Versions!Init
    BY DEF Init, Forward, Versions!Init
  <2>2. QED
    BY <2>1, InitTyped, InitMade
<1>2. Typed /\ Made /\ Forward /\ [Next]_vars => (Typed /\ Made /\ Forward)'
  BY NextTyped, NextMade, NextForward
<1>3. Typed /\ Made /\ Forward /\ [Next]_vars
         => [Versions!Next]_(Versions!versionVars)
  BY StepSimulates
<1>4. QED
  BY <1>1, <1>2, <1>3, PTL DEF Spec, ImplementsVersions, Versions!Spec

\* What is recorded was installed, and what is installed was published; what is
\* not whole will be installed again, or was forced.
Ordered ==
    /\ {recorded, installed, checksum} \subseteq Nat
    /\ recorded <= installed /\ installed <= checksum
    /\ package # "whole" /\ ~cut => recorded < checksum

\* What AgentVersion promises is enough for an update to be skipped only when
\* the published version is the one installed, as a whole or broken by force.
THEOREM VersionsSkip == ImplementsVersions => []SkippedMeansInstalled
<1>1. Versions!Init => Ordered
  BY DEF Versions!Init, Ordered
<1>2. Ordered /\ [Versions!Next]_(Versions!versionVars) => Ordered'
  BY DEF Ordered, Versions!Next, Versions!Publish, Versions!Install,
         Versions!BreakOff, Versions!BreakForced, Versions!Record,
         Versions!Forget, Versions!versionVars
<1>3. Ordered => SkippedMeansInstalled
  BY DEF Ordered, SkippedMeansInstalled
<1>4. QED
  BY <1>1, <1>2, <1>3, PTL DEF ImplementsVersions, Versions!Spec

-----------------------------------------------------------------------------
(* The sign-off and the other units. *)

\* The sign-off that a run is about to enable was never enabled before.
Opted ==
    /\ optedOut => Signoff \in units /\ Signoff \notin enabled
    /\ pc = "enable" /\ Signoff \in run.added =>
          ~optedOut /\ Signoff \notin enabled

LEMMA InitOpted == Init => Opted
BY DEF Init, Opted

LEMMA NextOpted == ASSUME Typed, Opted, [Next]_vars PROVE Opted'
<1> USE DEF Opted, published, machine, software, requests
<1>0. run \in RunOK /\ enabled \subseteq units /\ optedOut \in BOOLEAN
  BY DEF Typed, TypeOK
<1>1. CASE FetchChecksum \/ FetchBundle \/ Install
  BY <1>1 DEF FetchChecksum, FetchBundle, Install, End
<1>2. CASE CopyUnits
  <2>1. UNCHANGED <<enabled, optedOut>> /\ units \subseteq units'
    BY <1>2 DEF CopyUnits
  <2>2. pc' = "enable" =>
           \E c, a : /\ run' = [run EXCEPT !.copied = c, !.added = a]
                     /\ a = c \ units
    BY <1>2 DEF CopyUnits, AfterRefresh, End
  <2>3. pc' = "enable" /\ Signoff \in run'.added => Signoff \notin units
    BY <1>0, <2>2 DEF RunOK
  <2>4. QED
    BY <1>0, <2>1, <2>3
<1>3. CASE EnableUnits
  <2>1. pc = "enable" /\ pc' = "restart" /\ UNCHANGED <<units, optedOut>>
    BY <1>3 DEF EnableUnits
  <2>2. Signoff \in enabled' => Signoff \in enabled \/ Signoff \in run.added
    BY <1>3, UpdaterAssumption DEF EnableUnits
  <2>3. QED
    BY <2>1, <2>2
<1>4. CASE RestartApi \/ Record
  BY <1>4 DEF RestartApi, Record, AfterRefresh, End
<1>5. ASSUME NEW force \in BOOLEAN, Start(force) PROVE Opted'
  BY <1>5 DEF Start, Begin
<1>6. CASE StartRequested
  BY <1>6 DEF StartRequested, Begin
<1>7. CASE Fail \/ Kill
  BY <1>7 DEF Fail, Kill, End
<1>8. CASE OptOut
  BY <1>0, <1>8 DEF OptOut
<1>9. CASE NoteRequest \/ ForgetRequest \/ MakeRequest \/ SwitchApi
           \/ PublishBundle \/ PublishChecksum \/ UNCHANGED vars
  BY <1>9 DEF NoteRequest, ForgetRequest, MakeRequest, SwitchApi,
              PublishBundle, PublishChecksum, vars
<1>10. QED
  BY <1>1, <1>2, <1>3, <1>4, <1>5, <1>6, <1>7, <1>8, <1>9 DEF Next, RunStep

\* An update never enables a sign-off that an operator disabled.
THEOREM OptOutKept == Spec => []OptOutIsKept
<1>1. Opted => OptOutIsKept
  BY DEF Opted, OptOutIsKept
<1>2. Spec => [](Typed /\ Opted)
  BY InitTyped, NextTyped, InitOpted, NextOpted, PTL DEF Spec
<1>3. QED
  BY <1>1, <1>2, PTL

\* What a run is about to enable.
Wanted == (Timers \cap run.copied) \cup ({Signoff} \cap run.added)
Off == {u \in {Signoff} : optedOut}

\* Unless a refresh was cut short or refused, only the run under way knows of
\* units still to be enabled and of an API server still to be restarted, and a
\* server that runs older code was left by a run killed in pip, which the next
\* one repeats.
InForce ==
    ~upset =>
        /\ pc # "enable" => units \cap Started \subseteq enabled \cup Off
        /\ pc = "enable" =>
              units \cap Started \subseteq enabled \cup Off \cup Wanted
        /\ writable /\ pc \notin {"copy", "enable", "restart"} =>
              \/ api \in {0, installed}
              \/ pc # "record" /\ recorded < installed

LEMMA InitInForce == Init => InForce
BY DEF Init, InForce, Off

LEMMA NextInForce ==
    ASSUME Typed, Made, Forward, InForce, [Next]_vars PROVE InForce'
<1> USE DEF InForce, Off, published, machine, software, requests
<1>0. run \in RunOK /\ enabled \subseteq units
  BY DEF Typed, TypeOK
<1>1. CASE FetchChecksum \/ FetchBundle \/ Install
  BY <1>1 DEF FetchChecksum, FetchBundle, Install, End
<1>2. CASE CopyUnits
  <2>1. /\ pc = "copy" /\ pc' \in {"enable", "idle", "record"}
        /\ UNCHANGED <<enabled, optedOut, writable, api, installed, recorded>>
    BY <1>2 DEF CopyUnits, AfterRefresh, End
  <2>2. CASE ~writable
    BY <1>2, <2>1, <2>2 DEF CopyUnits, AfterRefresh, End
  <2>3. CASE writable /\ ~upset'
    <3>1. PICK c : /\ units' = units \cup c
                   /\ pc' = "enable"
                   /\ run' = [run EXCEPT !.copied = c, !.added = c \ units]
                   /\ UNCHANGED upset
      BY <1>2, <2>3 DEF CopyUnits
    <3>2. run'.copied = c /\ run'.added = c \ units
      BY <1>0, <3>1 DEF RunOK
    <3>3. units' \cap Started \subseteq enabled' \cup Off' \cup Wanted'
      BY <2>1, <2>3, <3>1, <3>2 DEF Wanted, Started
    <3>4. QED
      BY <3>1, <3>3
  <2>4. QED
    BY <2>2, <2>3
<1>3. CASE EnableUnits
  <2>1. /\ pc = "enable" /\ pc' = "restart"
        /\ UNCHANGED <<units, optedOut, writable, api, installed, recorded>>
    BY <1>3 DEF EnableUnits
  <2>2. PICK accepted \in SUBSET Wanted :
           /\ enabled' = enabled \cup accepted
           /\ upset' = (upset \/ accepted # Wanted)
    BY <1>3 DEF EnableUnits, Wanted
  <2>3. ~upset' => enabled' = enabled \cup Wanted /\ ~upset
    BY <2>2
  <2>4. QED
    BY <2>1, <2>3
<1>4. CASE RestartApi
  <2>1. /\ pc = "restart" /\ pc' \in {"idle", "record"}
        /\ UNCHANGED <<units, optedOut, writable, enabled, installed, recorded>>
    BY <1>4 DEF RestartApi, AfterRefresh, End
  <2>2. ~upset' => api' \in {0, installed} /\ ~upset
    BY <1>4 DEF RestartApi, Code
  <2>3. QED
    BY <2>1, <2>2
<1>5. CASE Record
  BY <1>5 DEF Record, End
<1>6. ASSUME NEW force \in BOOLEAN, Start(force) PROVE InForce'
  BY <1>6 DEF Start, Begin
<1>7. CASE StartRequested
  <2>1. (pc = "idle" /\ pc' = "checksum") \/ UNCHANGED <<pc, run>>
    BY <1>7 DEF StartRequested, Begin
  <2>2. QED
    BY <1>7, <2>1 DEF StartRequested, Wanted
<1>8. CASE Fail
  BY <1>8 DEF Fail, End
<1>9. CASE Kill
  <2>1. pc' = "idle"
        /\ UNCHANGED <<units, optedOut, writable, api, enabled>>
        /\ (~upset' => ~upset /\ pc \notin {"copy", "enable", "restart"})
    BY <1>9 DEF Kill, End
  <2>2. {recorded, installed, run.expected} \subseteq Nat
    BY <1>0, UpdaterAssumption DEF Typed, TypeOK, RunOK, Version
  <2>3. CASE UNCHANGED <<installed, recorded>>
    BY <2>1, <2>3
  <2>4. CASE pc = "record"
    BY <1>9, <2>1, <2>4 DEF Kill
  <2>5. CASE pc = "install" /\ PipInstalls /\ UNCHANGED recorded
    <3>1. /\ recorded <= installed /\ recorded <= run.expected
          /\ installed <= run.expected /\ installed' = run.expected
      BY <2>5 DEF Made, Forward, PipInstalls
    <3>2. recorded < installed' \/ installed' = installed
      BY <2>2, <3>1
    <3>3. recorded < installed => recorded < installed'
      BY <2>2, <3>1
    <3>4. QED
      BY <2>1, <2>5, <3>2, <3>3
  <2>6. QED
    BY <1>9, <2>3, <2>4, <2>5 DEF Kill, PipCutShort
<1>10. CASE OptOut
  <2>1. Signoff \in enabled /\ enabled' = enabled \ {Signoff} /\ optedOut'
        /\ UNCHANGED <<units, writable, api, installed, recorded, pc, run, upset>>
    BY <1>10 DEF OptOut
  <2>2. QED
    BY <2>1 DEF Wanted
<1>11. CASE SwitchApi
  <2>1. api' \in {0, installed}
    BY <1>11 DEF SwitchApi, Code
  <2>2. QED
    BY <1>11, <2>1 DEF SwitchApi, Wanted
<1>12. CASE NoteRequest \/ ForgetRequest \/ MakeRequest
            \/ PublishBundle \/ PublishChecksum \/ UNCHANGED vars
  BY <1>12 DEF NoteRequest, ForgetRequest, MakeRequest,
               PublishBundle, PublishChecksum, vars, Wanted
<1>13. QED
  BY <1>1, <1>2, <1>3, <1>4, <1>5, <1>6, <1>7, <1>8, <1>9, <1>10, <1>11,
     <1>12 DEF Next, RunStep

\* When no run is under way and none was cut short, every unit of a timer or
\* the sign-off is enabled and the API server runs the installed code.
THEOREM RecordedInForce == Spec => []RecordedIsInForce
<1>1. Typed /\ InForce => RecordedIsInForce
  <2> SUFFICES ASSUME Typed, InForce, pc = "idle", recorded = installed, ~upset
               PROVE  /\ units \cap Started \subseteq enabled \cup Off
                      /\ writable => api \in {0, installed}
    BY DEF RecordedIsInForce, Off
  <2>1. ~(recorded < installed)
    BY UpdaterAssumption DEF Typed, TypeOK, Version
  <2>2. QED
    BY <2>1 DEF InForce, Off
<1>2. Spec => [](Typed /\ Made /\ Forward /\ InForce)
  <2>1. Init => Forward
    BY DEF Init, Forward
  <2>2. QED
    BY <2>1, InitTyped, NextTyped, InitMade, NextMade, NextForward,
       InitInForce, NextInForce, PTL DEF Spec
<1>3. QED
  BY <1>1, <1>2, PTL

=============================================================================
