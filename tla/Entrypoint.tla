----------------------------- MODULE Entrypoint -----------------------------
(***************************************************************************)
(* The container's entrypoint (docker/entrypoint.sh).                      *)
(*                                                                         *)
(* A shell starts a loop of heartbeats and the main process, and waits     *)
(* for the latter.  A signal to stop may arrive at any moment: its handler *)
(* ends the loop, signs the node off and only then stops the main process. *)
(* The shell is process 1 of its container, or, where the host's process   *)
(* namespace is shared (docker/compose.yaml, k8s/daemonset.yaml), one like *)
(* any other: the kernel drops a signal that process 1 has no handler for, *)
(* and kills another process.                                              *)
(*                                                                         *)
(* TERM stands for INT too, which has the same handler.                    *)
(***************************************************************************)
EXTENDS Naturals

CONSTANTS
    Namespace,  \* which of "own" and "host" the containers are run with
    MaxAsked    \* bound: signals to stop that the container gets

ASSUME EntrypointAssumption ==
    /\ Namespace \subseteq {"own", "host"}
    /\ MaxAsked \in Nat

VARIABLES
    namespace,  \* of the container's processes
    sh,         \* where the shell is
    back,       \* where it was when the handler began
    pending,    \* a signal has arrived that the shell has yet to handle
    stopping,   \* the shell's variables stopping and status
    status,
    fate,       \* how the shell ended
    loop,       \* where the heartbeat loop is
    loopTold,   \* it has been sent a TERM
    signer,     \* the sign-off command
    main,       \* the main process
    mainTold,   \* it has been sent a TERM
    node,       \* what the dashboard has last heard from this node
    asked       \* signals the container has been sent

shellVars == <<sh, back, pending, stopping, status, fate>>
loopVars == <<loop, loopTold>>
mainVars == <<main, mainTold>>
worldVars == <<namespace, asked>>
vars == <<shellVars, loopVars, mainVars, worldVars, signer, node>>

Preparing == {"analyzing", "starting", "launching", "arming"}
Handling == {"tellLoop", "waitLoop", "signOff", "tellMain"}
Waiting == {"waiting", "deciding", "reaping", "endLoop", "exiting"}

\* The trap is set once, and reset when it runs.
Armed == sh \in Waiting /\ ~stopping

Init ==
    /\ namespace \in Namespace
    /\ sh \in {"analyzing", "starting"}
    /\ back = "deciding"
    /\ pending = FALSE
    /\ stopping = FALSE
    /\ status = "zero"
    /\ fate = "alive"
    /\ loop = "none"
    /\ loopTold = FALSE
    /\ signer = "none"
    /\ main = "none"
    /\ mainTold = FALSE
    /\ node = "unknown"
    /\ asked = 0

-----------------------------------------------------------------------------
(* The shell *)

Go(s) ==
    /\ sh' = s
    /\ UNCHANGED <<back, pending, stopping, status, fate>>

\* The first process of a namespace takes all the others with it.
Over(how) ==
    /\ sh' = "over"
    /\ fate' = how
    /\ loop' = IF namespace = "own" THEN "ended" ELSE loop
    /\ main' = IF namespace = "own" THEN "ended" ELSE main
    /\ signer' = IF namespace = "own" /\ signer = "running"
                   THEN "ended" ELSE signer
    /\ UNCHANGED <<back, pending, stopping, status, loopTold, mainTold>>

\* CRASHPILOT_ANALYZE_ON_START
EndAnalysis ==
    /\ sh = "analyzing"
    /\ Go("starting")
    /\ UNCHANGED <<loopVars, mainVars, worldVars, signer, node>>

StartLoop ==
    /\ sh = "starting"
    /\ loop' = "new"
    /\ Go("launching")
    /\ UNCHANGED <<loopTold, mainVars, worldVars, signer, node>>

StartMain ==
    /\ sh = "launching"
    /\ main' = "running"
    /\ Go("arming")
    /\ UNCHANGED <<loopVars, mainTold, worldVars, signer, node>>

SetTrap ==
    /\ sh = "arming"
    /\ Go("waiting")
    /\ UNCHANGED <<loopVars, mainVars, worldVars, signer, node>>

\* The first wait returns because the main process is gone.
ReapMain ==
    /\ sh = "waiting"
    /\ main = "ended"
    /\ status' = "main's"
    /\ sh' = "deciding"
    /\ UNCHANGED <<back, pending, stopping, fate, loopVars, mainVars,
                   worldVars, signer, node>>

\* Mutant: the handler goes back into the wait it has interrupted.
StopInWait ==
    /\ Armed /\ pending
    /\ pending' = FALSE /\ stopping' = TRUE /\ sh' = "tellLoop"
    /\ back' = sh
    /\ UNCHANGED <<status, fate, loopVars, mainVars, worldVars, signer, node>>

\* stop() runs between two commands; a wait returns early for it.
Stop ==
    /\ Armed
    /\ pending
    /\ pending' = FALSE
    /\ stopping' = TRUE
    /\ back' = IF sh = "waiting" THEN "deciding" ELSE sh
    /\ status' = IF sh = "waiting" THEN "signal" ELSE status
    /\ sh' = "tellLoop"
    /\ UNCHANGED <<fate, loopVars, mainVars, worldVars, signer, node>>

\* A TERM to the loop: one that has not set its trap yet dies of it.
TellLoop ==
    /\ loop' = IF loop = "new" THEN "ended" ELSE loop
    /\ loopTold' = TRUE

\* Mutant: the loop is told to stop but not waited for.
StopLoopOnly ==
    /\ sh = "tellLoop"
    /\ TellLoop
    /\ signer' = "running"
    /\ Go("signOff")
    /\ UNCHANGED <<mainVars, worldVars, node>>

StopLoop ==
    /\ sh = "tellLoop"
    /\ TellLoop
    /\ Go("waitLoop")
    /\ UNCHANGED <<mainVars, worldVars, signer, node>>

SignOff ==
    /\ sh = "waitLoop"
    /\ loop = "ended"
    /\ signer' = "running"
    /\ Go("signOff")
    /\ UNCHANGED <<loopVars, mainVars, worldVars, node>>

\* Mutant: the main process is stopped without waiting for the sign-off.
EndSignOffEarly ==
    /\ sh = "signOff"
    /\ Go("tellMain")
    /\ UNCHANGED <<loopVars, mainVars, worldVars, signer, node>>

EndSignOff ==
    /\ sh = "signOff"
    /\ signer = "ended"
    /\ Go("tellMain")
    /\ UNCHANGED <<loopVars, mainVars, worldVars, signer, node>>

StopMain ==
    /\ sh = "tellMain"
    /\ mainTold' = TRUE
    /\ Go(back)
    /\ UNCHANGED <<loopVars, main, worldVars, signer, node>>

\* Mutant: the status of the interrupted wait is the one to exit with.
DecideOnce ==
    /\ sh = "deciding"
    /\ Go(IF stopping THEN "exiting" ELSE "endLoop")
    /\ UNCHANGED <<loopVars, mainVars, worldVars, signer, node>>

Decide ==
    /\ sh = "deciding"
    /\ sh' = IF stopping THEN "reaping" ELSE "endLoop"
    /\ status' = IF stopping THEN "zero" ELSE status
    /\ UNCHANGED <<back, pending, stopping, fate, loopVars, mainVars,
                   worldVars, signer, node>>

\* The second wait, also for a process the first one has reaped.
ReapAgain ==
    /\ sh = "reaping"
    /\ main = "ended"
    /\ status' = "main's"
    /\ sh' = "exiting"
    /\ UNCHANGED <<back, pending, stopping, fate, loopVars, mainVars,
                   worldVars, signer, node>>

\* The main process ended by itself.
EndLoop ==
    /\ sh = "endLoop"
    /\ TellLoop
    /\ Go("exiting")
    /\ UNCHANGED <<mainVars, worldVars, signer, node>>

Exit ==
    /\ sh = "exiting"
    /\ Over("exited")
    /\ UNCHANGED <<worldVars, node>>

ShellStep ==
    \/ EndAnalysis \/ StartLoop \/ StartMain \/ SetTrap
    \/ Stop \/ StopLoop \/ SignOff \/ EndSignOff \/ StopMain
    \/ ReapMain \/ Decide \/ ReapAgain \/ EndLoop \/ Exit

-----------------------------------------------------------------------------
(* background_agent_loop and the commands *)

\* The loop's trap runs between its commands, or ends its nap.
LoopTo(s) ==
    /\ loop' = IF loopTold THEN "ended" ELSE s
    /\ UNCHANGED <<shellVars, loopTold, mainVars, worldVars, signer, node>>

BeginLoop == loop = "new" /\ LoopTo("snapshot")

EndSnapshot == loop = "snapshot" /\ LoopTo("heartbeat")

\* A heartbeat reaches the dashboard; it may be sent again after enrolling.
Beat ==
    /\ loop = "heartbeat"
    /\ node' = "online"
    /\ UNCHANGED <<shellVars, loopVars, mainVars, worldVars, signer>>

EndHeartbeat == loop = "heartbeat" /\ LoopTo("napping")

\* Mutant: a nap in the foreground holds off the stop.
CutNapLate == FALSE

CutNap == loop = "napping" /\ loopTold /\ LoopTo("ended")

EndNap == loop = "napping" /\ LoopTo("snapshot")

SignOffArrives ==
    /\ signer = "running"
    /\ node' = "quiet"
    /\ UNCHANGED <<shellVars, loopVars, mainVars, worldVars, signer>>

\* Answered, or failed after its timeout: the command exits 0 either way.
SignOffReturns ==
    /\ signer = "running"
    /\ signer' = "ended"
    /\ UNCHANGED <<shellVars, loopVars, mainVars, worldVars, node>>

MainEnds ==
    /\ main = "running"
    /\ main' = "ended"
    /\ UNCHANGED <<shellVars, loopVars, mainTold, worldVars, signer, node>>

CommandStep ==
    \/ BeginLoop \/ EndSnapshot \/ Beat \/ EndHeartbeat \/ CutNap \/ EndNap
    \/ SignOffArrives \/ SignOffReturns \/ MainEnds

-----------------------------------------------------------------------------
(* The container runtime *)

\* docker stop, the kubelet, or Ctrl-C.
AskToStop ==
    /\ asked < MaxAsked
    /\ sh # "over"
    /\ asked' = asked + 1
    /\ \/ /\ Armed
          /\ pending' = TRUE
          /\ UNCHANGED <<sh, back, stopping, status, fate, loopVars, mainVars,
                         signer>>
       \/ /\ ~Armed
          /\ namespace = "own"
          /\ UNCHANGED <<shellVars, loopVars, mainVars, signer>>
       \/ /\ ~Armed
          /\ namespace = "host"
          /\ Over("terminated")
    /\ UNCHANGED <<namespace, node>>

\* The grace period is over, or the shell: whatever is left is killed.
KillAll ==
    /\ asked > 0 \/ sh = "over"
    /\ sh' = "over"
    /\ fate' = IF sh = "over" THEN fate ELSE "killed"
    /\ loop' = "ended"
    /\ main' = "ended"
    /\ signer' = IF signer = "running" THEN "ended" ELSE signer
    /\ UNCHANGED <<back, pending, stopping, status, loopTold, mainTold,
                   worldVars, node>>

Next == ShellStep \/ CommandStep \/ AskToStop \/ KillAll

Spec == Init /\ [][Next]_vars

\* Every command has its timeouts, and a main process told to stop does so.
\* Nothing is assumed of the nap, which may be long, nor of the runtime.
FairSpec ==
    /\ Spec
    /\ WF_vars(ShellStep)
    /\ WF_vars(BeginLoop \/ EndSnapshot)
    /\ WF_vars(EndHeartbeat)
    /\ WF_vars(CutNap)
    /\ WF_vars(SignOffReturns)
    /\ WF_vars(mainTold /\ MainEnds)

-----------------------------------------------------------------------------
(* Properties *)

\* Types of the variables; the handler never goes back to a wait it has cut
\* short.
TypeOK ==
    /\ namespace \in {"own", "host"}
    /\ sh \in Preparing \cup Handling \cup Waiting \cup {"over"}
    /\ back \in {"deciding", "endLoop", "exiting"}
    /\ pending \in BOOLEAN
    /\ stopping \in BOOLEAN
    /\ status \in {"zero", "signal", "main's"}
    /\ fate \in {"alive", "exited", "terminated", "killed"}
    /\ loop \in {"none", "new", "snapshot", "heartbeat", "napping", "ended"}
    /\ loopTold \in BOOLEAN
    /\ signer \in {"none", "running", "ended"}
    /\ main \in {"none", "running", "ended"}
    /\ mainTold \in BOOLEAN
    /\ node \in {"unknown", "online", "quiet"}
    /\ asked \in 0..MaxAsked

\* No heartbeat lands after the sign-off and marks the node online again,
\* wherever in its loop the stop found it and whatever else ends the shell.
StaysQuiet == [][node = "quiet" => node' = "quiet"]_vars

\* "heartbeat loop stopped, then sign-off, then the main process": the main
\* process is told to stop only when the sign-off has been tried.
MainStopsLast == mainTold => loop = "ended" /\ signer = "ended"

\* A shell that gets to exit does so with the main process's own status,
\* also when the stop races with the end of that process.
ExitsAsMain == fate = "exited" => status = "main's"

\* A stop that reaches the handler ends the container, however long the nap.
StopEnds == stopping ~> sh = "over"

=============================================================================
