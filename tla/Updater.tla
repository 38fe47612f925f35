------------------------------ MODULE Updater -------------------------------
(***************************************************************************)
(* Updates of the agent (updater.install_latest).                          *)
(*                                                                         *)
(* An hourly timer, a request from the dashboard or an operator starts a   *)
(* run.  It fetches the checksum of the published bundle, returns if that  *)
(* is the one recorded and no unit is missing, fetches and verifies the    *)
(* bundle, installs the package, copies the systemd units, enables them,   *)
(* restarts the local API server, and records the checksum.  A run may     *)
(* fail or be killed at every step, pip in the middle of its work, and it  *)
(* works throughout with the list of units of the code it was started      *)
(* from, not of the one it installs.                                       *)
(*                                                                         *)
(* A bundle and its checksum are two files, published one after the other; *)
(* both are numbered by version here.  Version 0 is none.                  *)
(***************************************************************************)
EXTENDS Naturals

CONSTANTS
    MaxVersion,  \* bound: versions published
    UnitsOf,     \* REFRESHED_UNITS of each version
    Service,     \* crashpilot-heartbeat.service, the first of each list
    Hourly,      \* crashpilot-update.timer, with its service
    Signoff,     \* _SIGNOFF_UNIT
    Timers,      \* _TIMERS
    MaxRequests, \* bound: update requests made in the dashboard
    MaxKills     \* bound: runs killed, or pip's time exceeded

Version == 1..MaxVersion
Unit == UNION {UnitsOf[v] : v \in Version}

\* The units that are enabled.  The others are started by their timers.
Started == Timers \cup {Signoff}

ASSUME UpdaterAssumption ==
    /\ MaxVersion \in Nat \ {0}
    /\ MaxRequests \in Nat
    /\ MaxKills \in Nat
    /\ \A v \in Version : /\ UnitsOf[v] \subseteq UnitsOf[MaxVersion]
                           /\ Service \in UnitsOf[v]
    /\ Signoff \notin Timers /\ Hourly \in Timers

VARIABLES
    bundle,    \* the version of the published bundle
    checksum,  \* the version of the published checksum
    installed, \* the version last installed to the end
    package,   \* what became of it since: still "whole", "mixed" with parts of
               \* another version, or "dead", without what it needs to start
    recorded,  \* the version in agent-bundle.sha256
    writable,  \* whether the directory of units exists and is writable
    units,     \* the unit files installed
    enabled,   \* those enabled
    optedOut,  \* whether an operator disabled the sign-off
    api,       \* the version the API server runs, 0 if it is stopped
    pc,        \* what the run does next
    run,       \* what it knows
    request,   \* the latest request made in the dashboard
    asked,     \* the request for which a heartbeat started the service, or 0
    seen,      \* agent_update_requested_at in the store
    kills,     \* runs killed so far
    \* What really happened, kept to state the properties.
    upset,     \* whether a refresh of the units was cut short or refused
    cut        \* whether a forced run broke the package and none mended it

published == <<bundle, checksum>>
software == <<installed, package, cut>>
machine == <<software, recorded, writable, units, enabled, optedOut, api>>
requests == <<request, asked, seen>>
vars == <<published, machine, pc, run, requests, kills, upset>>

Package == {"whole", "mixed", "dead"}
Step == {"idle", "checksum", "bundle", "install", "copy", "enable",
         "restart", "record"}
NoRun == [code |-> 0, force |-> FALSE, expected |-> 0, current |-> FALSE,
          copied |-> {}, added |-> {}]

\* A machine set up by install.sh, with or without units.
Init ==
    /\ bundle = 1 /\ checksum = 1
    /\ installed = 1 /\ package = "whole" /\ cut = FALSE
    /\ recorded \in {0, 1}
    /\ writable \in BOOLEAN
    /\ units \in {{}, UnitsOf[1]}
    /\ enabled = units \cap Started
    /\ optedOut = FALSE
    /\ api = 1
    /\ pc = "idle" /\ run = NoRun
    /\ request = 0 /\ asked = 0 /\ seen = 0
    /\ kills = 0 /\ upset = FALSE

-----------------------------------------------------------------------------
(* A run. *)

\* A mixed package may run the updater of either version.
Begin(force) ==
    /\ pc = "idle" /\ package # "dead"
    /\ pc' = "checksum"
    /\ \E code \in installed..checksum :
          /\ package = "whole" => code = installed
          /\ run' = [NoRun EXCEPT !.code = code, !.force = force]

\* The timer's or an operator's.
Start(force) ==
    /\ Begin(force)
    /\ UNCHANGED <<published, machine, requests, kills, upset>>

\* An exception, or there is nothing more to do.
End == pc' = "idle" /\ run' = NoRun

\* A download, the verification or pip fails.  A pip that fails by itself puts
\* back what it took away.
Fail ==
    /\ pc \in {"checksum", "bundle", "install"}
    /\ End
    /\ UNCHANGED <<published, machine, requests, kills, upset>>

\* Mutant: only a host that has no unit at all lacks one.
NoUnits == writable /\ units = {}

UnitsMissing ==
    writable /\ Service \in units /\ ~(UnitsOf[run.code] \subseteq units)

\* The run finds the published version recorded.
UpToDate == ~run.force /\ recorded = checksum

FetchChecksum ==
    /\ pc = "checksum"
    /\ IF UpToDate /\ ~UnitsMissing
         THEN End
         ELSE /\ pc' = "bundle"
              /\ run' = [run EXCEPT !.expected = checksum,
                                    !.current = UpToDate]
    /\ UNCHANGED <<published, machine, requests, kills, upset>>

FetchBundle ==
    /\ pc = "bundle"
    /\ bundle = run.expected
    /\ pc' = IF run.current THEN "copy" ELSE "install"
    /\ UNCHANGED <<published, machine, run, requests, kills, upset>>

\* pip has done its work.
PipInstalls == installed' = run.expected /\ package' = "whole" /\ cut' = FALSE

\* Mutant: the exit status of pip is not looked at.
InstallUnchecked ==
    /\ pc = "install"
    /\ PipInstalls \/ UNCHANGED software
    /\ pc' = "copy"
    /\ UNCHANGED <<published, recorded, writable, units, enabled, optedOut, api,
                   run, requests, kills, upset>>

Install ==
    /\ pc = "install"
    /\ PipInstalls
    /\ pc' = "copy"
    /\ UNCHANGED <<published, recorded, writable, units, enabled, optedOut, api,
                   run, requests, kills, upset>>

AfterRefresh == IF run.current THEN End ELSE pc' = "record" /\ UNCHANGED run

\* The units of the running code's list that the bundle holds.
Shipped == UnitsOf[run.code] \cap UnitsOf[run.expected]

\* _refresh_systemd_units, first part: also on a host without any unit, if it
\* may write there.  Each file is renamed into place, the service first.  An
\* exception ends the refresh but not the run.
CopyUnits ==
    /\ pc = "copy"
    /\ IF ~writable
         THEN AfterRefresh /\ UNCHANGED <<units, upset>>
         ELSE \E copied \in SUBSET Shipped :
                /\ Service \in copied \/ copied = {}
                /\ units' = units \cup copied
                /\ IF copied = Shipped
                     THEN /\ pc' = "enable"
                          /\ run' = [run EXCEPT !.copied = copied,
                                                !.added = copied \ units]
                          /\ UNCHANGED upset
                     ELSE AfterRefresh /\ upset' = TRUE
    /\ UNCHANGED <<published, software, recorded, writable, enabled, optedOut,
                   api, requests, kills>>

\* Mutant: the sign-off is enabled as often as it is copied.
EnableCopied ==
    LET wanted == (Timers \cap run.copied) \cup ({Signoff} \cap run.copied)
    IN /\ pc = "enable"
       /\ pc' = "restart"
       /\ \E accepted \in SUBSET wanted :
             /\ enabled' = enabled \cup accepted
             /\ upset' = (upset \/ accepted # wanted)
       /\ UNCHANGED <<published, software, recorded, writable, units, optedOut,
                      api, run, requests, kills>>

\* Mutant: all timers are enabled, copied or not.
EnableAllTimers ==
    /\ pc = "enable"
    /\ pc' = "restart"
    /\ enabled' = enabled \cup Timers
    /\ UNCHANGED <<published, software, recorded, writable, units, optedOut,
                   api, run, requests, kills, upset>>

\* Second part.  What systemctl refuses is reported, and not tried again.
EnableUnits ==
    LET wanted == (Timers \cap run.copied) \cup ({Signoff} \cap run.added)
    IN /\ pc = "enable"
       /\ pc' = "restart"
       /\ \E accepted \in SUBSET wanted :
             /\ enabled' = enabled \cup accepted
             /\ upset' = (upset \/ accepted # wanted)
       /\ UNCHANGED <<published, software, recorded, writable, units, optedOut,
                      api, run, requests, kills>>

\* What a server that starts now runs: no version if the package is not whole.
Code == IF package = "whole" THEN installed ELSE 0

\* Mutant: the server is not restarted.
RestartNone ==
    /\ pc = "restart"
    /\ AfterRefresh
    /\ UNCHANGED <<published, software, recorded, writable, units, enabled,
                   optedOut, api, requests, kills, upset>>

\* Last part.  A server that is stopped stays so.
RestartApi ==
    /\ pc = "restart"
    /\ AfterRefresh
    /\ \/ api' = (IF api = 0 THEN 0 ELSE Code) /\ UNCHANGED upset
       \/ UNCHANGED api /\ upset' = TRUE
    /\ UNCHANGED <<published, software, recorded, writable, units, enabled,
                   optedOut, requests, kills>>

\* The day's egress count is cleared as well, see Heartbeat.
Record ==
    /\ pc = "record"
    /\ recorded' = run.expected
    /\ End
    /\ UNCHANGED <<published, software, writable, units, enabled, optedOut,
                   api, requests, kills, upset>>

\* pip is cut short: it has not begun, or is done, or has taken away the old
\* version without having put the new one in its place.
PipCutShort ==
    \/ UNCHANGED software
    \/ PipInstalls
    \/ /\ package' \in {"mixed", "dead"}
       /\ cut' = (cut \/ run.force)
       /\ UNCHANGED installed

\* A run is killed, or pip is because it takes too long.  The checksum is not
\* renamed into place: a run killed while it writes it leaves an empty file.
Kill ==
    /\ pc # "idle" /\ kills < MaxKills
    /\ End
    /\ kills' = kills + 1
    /\ IF pc = "install" THEN PipCutShort ELSE UNCHANGED software
    /\ recorded' \in {recorded} \cup {v \in {0} : pc = "record"}
    /\ upset' = (upset \/ pc \in {"copy", "enable", "restart"})
    /\ UNCHANGED <<published, writable, units, enabled, optedOut, api, requests>>

-----------------------------------------------------------------------------
(* Requests of the dashboard, in a heartbeat's status poll. *)

\* systemctl start --no-block: a service that is running is not started again,
\* and one that does not exist is refused.
StartRequested ==
    /\ request # 0 /\ request # seen /\ asked = 0
    /\ Hourly \in units /\ package # "dead"
    /\ asked' = request
    /\ Begin(FALSE) \/ (pc # "idle" /\ UNCHANGED <<pc, run>>)
    /\ UNCHANGED <<published, machine, request, seen, kills, upset>>

NoteRequest ==
    /\ asked # 0
    /\ seen' = asked
    /\ asked' = 0
    /\ UNCHANGED <<published, machine, pc, run, request, kills, upset>>

\* The heartbeat is killed in between, or the store cannot be written.
ForgetRequest ==
    /\ asked # 0
    /\ asked' = 0
    /\ UNCHANGED <<published, machine, pc, run, request, seen, kills, upset>>

MakeRequest ==
    /\ request < MaxRequests
    /\ request' = request + 1
    /\ UNCHANGED <<published, machine, pc, run, asked, seen, kills, upset>>

-----------------------------------------------------------------------------
(* What else happens to the machine and to the server. *)

PublishBundle ==
    /\ bundle < MaxVersion
    /\ bundle' = bundle + 1
    /\ UNCHANGED <<checksum, machine, pc, run, requests, kills, upset>>

PublishChecksum ==
    /\ checksum # bundle
    /\ checksum' = bundle
    /\ UNCHANGED <<bundle, machine, pc, run, requests, kills, upset>>

OptOut ==
    /\ Signoff \in enabled
    /\ enabled' = enabled \ {Signoff}
    /\ optedOut' = TRUE
    /\ UNCHANGED <<published, software, recorded, writable, units, api, pc, run,
                   requests, kills, upset>>

SwitchApi ==
    /\ api' = IF api = 0 THEN Code ELSE 0
    /\ UNCHANGED <<published, software, recorded, writable, units, enabled,
                   optedOut, pc, run, requests, kills, upset>>

RunStep ==
    \/ FetchChecksum
    \/ FetchBundle
    \/ Install
    \/ CopyUnits
    \/ EnableUnits
    \/ RestartApi
    \/ Record

Next ==
    \/ RunStep
    \/ \E force \in BOOLEAN : Start(force)
    \/ Fail
    \/ Kill
    \/ StartRequested \/ NoteRequest \/ ForgetRequest \/ MakeRequest
    \/ PublishBundle \/ PublishChecksum
    \/ OptOut \/ SwitchApi

Spec == Init /\ [][Next]_vars

CopyAllUnits == CopyUnits /\ Shipped \subseteq units'

\* The timer, where it is enabled, starts runs for ever, every run ends (each
\* command it waits for has a timeout), the publication of a bundle is
\* completed, and what is tried again and again succeeds at last.
FairSpec ==
    /\ Spec
    /\ WF_vars(PublishChecksum)
    /\ SF_vars(Hourly \in enabled /\ Start(FALSE))
    /\ WF_vars(RunStep \/ Fail)
    /\ SF_vars(FetchChecksum) /\ SF_vars(FetchBundle) /\ SF_vars(Install)
    /\ SF_vars(CopyAllUnits)

-----------------------------------------------------------------------------
(* Properties. *)

TypeOK ==
    /\ {bundle, checksum, installed} \subseteq Version
    /\ {recorded, api} \subseteq 0..MaxVersion
    /\ package \in Package
    /\ {writable, optedOut, upset, cut} \subseteq BOOLEAN
    /\ enabled \subseteq units /\ units \subseteq Unit
    /\ pc \in Step
    /\ run \in [code : 0..MaxVersion, force : BOOLEAN,
                expected : 0..MaxVersion, current : BOOLEAN,
                copied : SUBSET Unit, added : SUBSET Unit]
    /\ request \in 0..MaxRequests /\ {asked, seen} \subseteq 0..MaxRequests
    /\ kills \in 0..MaxKills

\* A recorded update, which later runs skip, is the one installed, and as a
\* whole unless a forced run was cut short in it, wherever else runs fail or are
\* killed.  No run checks it: it is a theorem, and follows from
\* ImplementsVersions.
SkippedMeansInstalled ==
    recorded = checksum =>
        installed = checksum /\ (package = "whole" \/ cut)

\* A sign-off that an operator disabled is never enabled by an update, even
\* one that refreshes its unit.
OptOutIsKept == optedOut => Signoff \notin enabled

\* Once a version is recorded, its units are enabled and the API server runs
\* its code, unless a refresh was cut short or refused.
RecordedIsInForce ==
    (pc = "idle" /\ recorded = installed /\ ~upset) =>
        /\ units \cap Started \subseteq
              enabled \cup {u \in {Signoff} : optedOut}
        /\ writable => api \in {0, installed}

Versions == INSTANCE AgentVersion WITH newest <- checksum,
                                       whole <- (package = "whole")

\* Whatever fails, is killed or is published meanwhile, the installed version
\* never goes back, only a version that is installed as a whole is recorded,
\* and only a forced run can break one that is recorded: every step of an
\* update is a step of AgentVersion or leaves it alone.
ImplementsVersions == Versions!Spec

\* No run will mend the package: none starts, or none finds anything to do.
Broken ==
    package = "dead" \/ (package = "mixed" /\ recorded = checksum)

\* Where the timer is enabled and the package was not broken for good, the
\* newest version is installed in the end, with all of its units, although the
\* run that installs it does not know of the new ones.
NewestArrives ==
    []<>(Hourly \in enabled /\ ~Broken) =>
        <>[](/\ recorded = checksum /\ installed = checksum
             /\ bundle = checksum /\ package = "whole"
             /\ writable => UnitsOf[checksum] \subseteq units)

=============================================================================
