------------------------- MODULE Entrypoint_proofs -------------------------
(***************************************************************************)
(* Proofs about the container's entrypoint: for either kind of namespace   *)
(* and any number of signals.                                              *)
(***************************************************************************)
EXTENDS Entrypoint, TLAPS

\* Before the shell has started the loop there is none, and the sign-off
\* runs only once the loop has ended, which it does for good.
LoopFirst ==
    /\ sh \in {"analyzing", "starting"} => loop = "none"
    /\ signer # "none" => loop = "ended"
    /\ node = "quiet" => signer # "none"

\* How far the handler has got, which runs once.
SignedOff ==
    /\ sh = "signOff" => signer # "none"
    /\ sh = "tellMain" => signer = "ended"
    /\ mainTold => /\ signer = "ended"
                   /\ stopping
                   /\ sh \notin {"tellLoop", "waitLoop", "signOff"}

\* Where the shell holds the main process's status: from the wait that
\* reaped it on, also while the handler runs in between.
HasStatus ==
    /\ sh = "deciding" /\ ~stopping => status = "main's"
    /\ sh \in {"endLoop", "exiting"} => status = "main's"
    /\ sh \in Handling \cup {"reaping"} => stopping
    /\ sh \in Handling /\ back # "deciding" => status = "main's"
    /\ fate # "alive" => sh = "over"
    /\ fate = "exited" => status = "main's"

IInv == TypeOK /\ LoopFirst /\ SignedOff /\ HasStatus

LEMMA InitIInv == Init => IInv
<1> SUFFICES ASSUME Init PROVE IInv
  OBVIOUS
<1>1. namespace \in {"own", "host"} /\ asked \in 0..MaxAsked
  BY EntrypointAssumption DEF Init
<1>2. TypeOK
  BY <1>1 DEF Init, TypeOK, Preparing, Handling, Waiting
<1>3. LoopFirst /\ SignedOff
  BY DEF Init, LoopFirst, SignedOff
<1>4. HasStatus
  BY DEF Init, HasStatus, Handling
<1>5. QED
  BY <1>2, <1>3, <1>4 DEF IInv

\* The shell's steps before and after its handler.
LEMMA MainLine ==
    ASSUME IInv,
           EndAnalysis \/ StartLoop \/ StartMain \/ SetTrap \/ ReapMain
             \/ Decide \/ ReapAgain \/ EndLoop \/ Exit
    PROVE  IInv'
<1> USE DEF IInv, TypeOK, LoopFirst, SignedOff, HasStatus, Preparing,
            Handling, Waiting, Go, shellVars, loopVars, mainVars, worldVars
<1>1. CASE EndAnalysis
  BY <1>1 DEF EndAnalysis
<1>2. CASE StartLoop
  BY <1>2 DEF StartLoop
<1>3. CASE StartMain
  BY <1>3 DEF StartMain
<1>4. CASE SetTrap
  BY <1>4 DEF SetTrap
<1>5. CASE ReapMain
  BY <1>5 DEF ReapMain
<1>6. CASE Decide
  BY <1>6 DEF Decide
<1>7. CASE ReapAgain
  BY <1>7 DEF ReapAgain
<1>8. CASE EndLoop
  BY <1>8 DEF EndLoop, TellLoop
<1>9. CASE Exit
  BY <1>9 DEF Exit, Over
<1>10. QED
  BY <1>1, <1>2, <1>3, <1>4, <1>5, <1>6, <1>7, <1>8, <1>9

\* Its handler.
LEMMA Handler ==
    ASSUME IInv, Stop \/ StopLoop \/ SignOff \/ EndSignOff \/ StopMain
    PROVE  IInv'
<1> USE DEF IInv, TypeOK, LoopFirst, SignedOff, HasStatus, Preparing,
            Handling, Waiting, Go, shellVars, loopVars, mainVars, worldVars
<1>1. CASE Stop
  <2>1. TypeOK'
    BY <1>1 DEF Stop, Armed
  <2>2. LoopFirst' /\ SignedOff'
    BY <1>1 DEF Stop, Armed
  <2>3. HasStatus'
    BY <1>1 DEF Stop, Armed
  <2>4. QED
    BY <2>1, <2>2, <2>3
<1>2. CASE StopLoop
  BY <1>2 DEF StopLoop, TellLoop
<1>3. CASE SignOff
  <2>1. TypeOK'
    BY <1>3 DEF SignOff
  <2>2. LoopFirst' /\ SignedOff'
    BY <1>3 DEF SignOff
  <2>3. HasStatus'
    BY <1>3 DEF SignOff
  <2>4. QED
    BY <2>1, <2>2, <2>3
<1>4. CASE EndSignOff
  BY <1>4 DEF EndSignOff
<1>5. CASE StopMain
  BY <1>5 DEF StopMain
<1>6. QED
  BY <1>1, <1>2, <1>3, <1>4, <1>5

LEMMA Commands == ASSUME IInv, CommandStep PROVE IInv'
<1> USE DEF IInv, TypeOK, LoopFirst, SignedOff, HasStatus, Preparing,
            Handling, Waiting, shellVars, loopVars, mainVars, worldVars
<1>1. CASE BeginLoop \/ EndSnapshot \/ EndHeartbeat \/ CutNap \/ EndNap
  BY <1>1 DEF BeginLoop, EndSnapshot, EndHeartbeat, CutNap, EndNap, LoopTo
<1>2. CASE Beat
  BY <1>2 DEF Beat
<1>3. CASE SignOffArrives \/ SignOffReturns
  BY <1>3 DEF SignOffArrives, SignOffReturns
<1>4. CASE MainEnds
  BY <1>4 DEF MainEnds
<1>5. QED
  BY <1>1, <1>2, <1>3, <1>4 DEF CommandStep

LEMMA Runtime == ASSUME IInv, AskToStop \/ KillAll PROVE IInv'
<1> USE DEF IInv, TypeOK, LoopFirst, SignedOff, HasStatus, Preparing,
            Handling, Waiting, shellVars, loopVars, mainVars, worldVars
<1>1. CASE AskToStop
  <2>1. asked' \in 0..MaxAsked
    BY <1>1, EntrypointAssumption DEF AskToStop
  <2>2. CASE /\ pending' = TRUE
             /\ UNCHANGED <<sh, back, stopping, status, fate, loopVars,
                            mainVars, signer>>
    BY <1>1, <2>1, <2>2 DEF AskToStop
  <2>3. CASE ~Armed
    BY <1>1, <2>1, <2>3 DEF AskToStop, Armed, Over
  <2>4. QED
    BY <1>1, <2>2, <2>3 DEF AskToStop, Armed
<1>2. CASE KillAll
  BY <1>2 DEF KillAll
<1>3. QED
  BY <1>1, <1>2

LEMMA NextIInv == IInv /\ [Next]_vars => IInv'
<1> SUFFICES ASSUME IInv, [Next]_vars PROVE IInv'
  OBVIOUS
<1>1. CASE Next
  BY <1>1, MainLine, Handler, Commands, Runtime DEF Next, ShellStep
<1>2. CASE UNCHANGED vars
  BY <1>2 DEF vars, IInv, TypeOK, LoopFirst, SignedOff, HasStatus, shellVars,
       loopVars, mainVars, worldVars
<1>3. QED
  BY <1>1, <1>2

\* IInv holds of the entrypoint in either namespace.
THEOREM InductiveInvariant == Spec => []IInv
BY InitIInv, NextIInv, PTL DEF Spec

\* The variables keep their types.
THEOREM TypeCorrect == Spec => []TypeOK
<1>1. IInv => TypeOK
  BY DEF IInv
<1>2. QED
  BY <1>1, InductiveInvariant, PTL

\* The main process is stopped after the loop and the sign-off.
THEOREM MainLast == Spec => []MainStopsLast
<1>1. IInv => MainStopsLast
  BY DEF IInv, SignedOff, LoopFirst, MainStopsLast
<1>2. QED
  BY <1>1, InductiveInvariant, PTL

\* A shell that is not killed exits with the main process's status.
THEOREM ExitStatus == Spec => []ExitsAsMain
<1>1. IInv => ExitsAsMain
  BY DEF IInv, HasStatus, ExitsAsMain
<1>2. QED
  BY <1>1, InductiveInvariant, PTL

\* Only a heartbeat marks the node online, and after the sign-off there is no
\* loop to send one.
LEMMA QuietStep == IInv /\ [Next]_vars => [node = "quiet" => node' = "quiet"]_vars
<1> SUFFICES ASSUME IInv, Next, node = "quiet" PROVE node' = "quiet"
  BY DEF vars
<1>1. loop = "ended"
  BY DEF IInv, LoopFirst
<1>2. CASE ShellStep
  BY <1>2 DEF ShellStep, EndAnalysis, StartLoop, StartMain, SetTrap, Stop,
       StopLoop, SignOff, EndSignOff, StopMain, ReapMain, Decide, ReapAgain,
       EndLoop, Exit
<1>3. CASE CommandStep
  BY <1>1, <1>3 DEF CommandStep, BeginLoop, EndSnapshot, Beat, EndHeartbeat,
       CutNap, EndNap, LoopTo, SignOffArrives, SignOffReturns, MainEnds
<1>4. CASE AskToStop \/ KillAll
  BY <1>4 DEF AskToStop, KillAll
<1>5. QED
  BY <1>2, <1>3, <1>4 DEF Next

\* No heartbeat lands after the sign-off.
THEOREM QuietStays == Spec => StaysQuiet
<1>1. Spec => []IInv
  BY InductiveInvariant
<1>2. QED
  BY <1>1, QuietStep, PTL DEF Spec, StaysQuiet

=============================================================================
