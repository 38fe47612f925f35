----------------------------- MODULE Enrollment -----------------------------
(***************************************************************************)
(* How a machine with a join token gets, keeps and replaces its            *)
(* credentials (main.heartbeat, main.enroll, enrollment.py), also when it  *)
(* was made from the disk image of another enrolled machine.               *)
(*                                                                         *)
(* Several processes of a machine run at once: the heartbeats of the timer *)
(* and of the update unit, and enroll by hand.  They share the .env file   *)
(* (pinned identity and token) and three state files.  The cloud keeps one *)
(* system per identity and one valid token per system: enrolling replaces  *)
(* it.  A machine's own identity is the machine; the join token is valid.  *)
(*                                                                         *)
(* Of a token only matters what the cloud says of it: the last one issued  *)
(* for a system is "valid", and makes every earlier one "stale" wherever   *)
(* it is held.                                                             *)
(***************************************************************************)
EXTENDS Naturals, FiniteSets

CONSTANTS
    Machine,    \* machines, and the identities they detect
    Answering,  \* machines whose identity source never fails to answer
    Imaged,     \* machines that may start from an image of another's disk
    Paired,     \* machines whose update unit's heartbeat is followed too
    Manned,     \* machines on which someone runs enroll by hand
    Nobody,     \* no identity
    MaxOn,      \* bound: machines that run
    MaxByHand   \* bound: runs of enroll by hand

ASSUME EnrollmentAssumption ==
    /\ Answering \subseteq Machine
    /\ Imaged \subseteq Machine
    /\ Paired \subseteq Machine
    /\ Manned \subseteq Machine
    /\ Nobody \notin Machine
    /\ MaxOn \in Nat
    /\ MaxByHand \in Nat

Proc == (Machine \X {"timer"}) \cup (Paired \X {"update"})
            \cup (Manned \X {"operator"})
Host(p) == p[1]
ByHand(p) == p[2] = "operator"

VARIABLES
    on,         \* machines that run
    env,        \* .env: pinned identity (source "detected") and token
    cooling,    \* reenroll-attempt: does the enrollment cooldown run?
    marker,     \* retired: does the file exist?
    check,      \* identity-check of this boot
    systems,    \* systems the cloud knows
    retired,    \* those retired by hand in the dashboard
    byHand,     \* runs of enroll by hand so far
    calm,       \* were processes and machines disturbed for the last time?
    pc,         \* where each process is
    mem         \* the settings it read, and what it is enrolling as

fileVars == <<env, cooling, marker, check>>
cloudVars == <<systems, retired>>
procVars == <<pc, mem>>
vars == <<on, env, cooling, marker, check, systems, retired, byHand, calm,
          pc, mem>>

TokenState == {"none", "valid", "stale"}
Settings == [id : Machine \cup {Nobody}, tok : TokenState]
Blank == [id |-> Nobody, tok |-> "none"]
Memory == [id : Machine \cup {Nobody}, tok : TokenState,
           target : Machine \cup {Nobody}, again : BOOLEAN]
NoMemory == [id |-> Nobody, tok |-> "none", target |-> Nobody, again |-> FALSE]
Check == [id : Machine \cup {Nobody},
          result : {"none", "unanswered", "same", "moved"}]
NoCheck == [id |-> Nobody, result |-> "none"]
PcState == {"idle", "check", "auto", "attempt", "enrolling", "retired",
            "storing", "send", "sent"}

\* agent_heartbeat and agent_system_status accept these credentials.
Valid(c) == c.tok = "valid" /\ c.id \notin retired

\* The same settings once system i has a newer token.
Outdated(c, i) == IF c.id = i THEN [c EXCEPT !.tok = "stale"] ELSE c

\* What m's identity source may say: itself, or nothing (Nobody).
Answers(m) == IF m \in Answering THEN {m} ELSE {m, Nobody}

\* Mutant: the pinned identity is used without asking its source.
IdentitiesPinned(p) ==
    IF mem[p].target # Nobody THEN {mem[p].target}
    ELSE IF mem[p].id = Nobody THEN {Host(p)} ELSE {mem[p].id}

\* The identity _enroll_and_store picks: the one just detected, else the
\* pinned one unless its source names this machine now, else its own.
Identities(p) ==
    LET m == Host(p)
    IN  IF mem[p].target # Nobody THEN {mem[p].target}
        ELSE IF mem[p].id = Nobody THEN {m}
        ELSE {IF a = Nobody THEN mem[p].id ELSE a : a \in Answers(m)}

Become(p, s) == pc' = [pc EXCEPT ![p] = s]

Exit(p) ==
    /\ Become(p, "idle")
    /\ mem' = [mem EXCEPT ![p] = NoMemory]

\* get_settings
ReadSettings(p) ==
    LET e == env[Host(p)]
    IN  mem' = [mem EXCEPT ![p] = [id |-> e.id, tok |-> e.tok,
                                  target |-> Nobody, again |-> FALSE]]

\* One machine runs at first: a new one, or one whose disk is an image of a
\* machine that enrolled.
Init ==
    /\ \E m, i \in Machine :
          /\ i # m => m \in Imaged
          /\ on = {m}
          /\ env = [n \in Machine |->
                      IF n = m /\ i # m THEN [id |-> i, tok |-> "valid"]
                                       ELSE Blank]
          /\ systems = {i} \ {m}
    /\ cooling \in [Machine -> BOOLEAN]
    /\ \A m \in Machine : cooling[m] => env[m].id # Nobody
    /\ marker = [m \in Machine |-> FALSE]
    /\ check = [m \in Machine |-> NoCheck]
    /\ retired = {}
    /\ byHand = 0
    /\ calm = FALSE
    /\ pc = [p \in Proc |-> "idle"]
    /\ mem = [p \in Proc |-> NoMemory]

-----------------------------------------------------------------------------
(* The heartbeat, up to its first request *)

\* A machine without credentials enrolls first.
StartHeartbeat(p) ==
    LET m == Host(p)
    IN  /\ pc[p] = "idle" /\ ~ByHand(p) /\ m \in on
        /\ calm => \A q \in Proc : Host(q) = m => pc[q] = "idle"
        /\ ReadSettings(p)
        /\ Become(p, IF env[m].tok = "none" THEN "auto" ELSE "check")
        /\ UNCHANGED <<on, fileVars, cloudVars, byHand, calm>>

\* copied_identity: an answer of this boot about this identity is reused.
UseCheck(p) ==
    LET c == check[Host(p)]
    IN  /\ pc[p] = "check"
        /\ c.id = mem[p].id /\ c.result # "none"
        /\ IF c.result = "moved"
             THEN /\ Become(p, "auto")
                  /\ mem' = [mem EXCEPT ![p].target = Host(p)]
             ELSE /\ Become(p, "send")
                  /\ UNCHANGED mem
        /\ UNCHANGED <<on, fileVars, cloudVars, byHand, calm>>

\* Otherwise the source is asked and its answer kept.  A machine that turns
\* out to be a copy drops the cooldown it was copied with.
AskSource(p) ==
    LET m == Host(p)
    IN  /\ pc[p] = "check"
        /\ check[m].id # mem[p].id \/ check[m].result = "none"
        /\ \E a \in Answers(m) :
              LET result == IF a = Nobody THEN "unanswered"
                            ELSE IF a = mem[p].id THEN "same" ELSE "moved"
              IN  /\ check' = [check EXCEPT ![m] = [id |-> mem[p].id,
                                                    result |-> result]]
                  /\ IF result = "moved"
                       THEN /\ cooling' = [cooling EXCEPT ![m] = FALSE]
                            /\ mem' = [mem EXCEPT ![p].target = m]
                            /\ Become(p, "auto")
                       ELSE /\ UNCHANGED <<cooling, mem>>
                            /\ Become(p, "send")
        /\ UNCHANGED <<on, env, marker, cloudVars, byHand, calm>>

-----------------------------------------------------------------------------
(* _auto_enroll *)

\* Retired on purpose, or cooling down: exit 1 and send nothing.
NotAllowed(p) ==
    /\ pc[p] = "auto"
    /\ marker[Host(p)] \/ cooling[Host(p)]
    /\ Exit(p)
    /\ UNCHANGED <<on, fileVars, cloudVars, byHand, calm>>

\* reenroll_allowed reads the file ...
Allowed(p) ==
    /\ pc[p] = "auto"
    /\ ~marker[Host(p)] /\ ~cooling[Host(p)]
    /\ Become(p, "attempt")
    /\ UNCHANGED <<on, fileVars, cloudVars, byHand, calm, mem>>

\* ... and note_enroll_attempt writes it.
NoteAttempt(p) ==
    /\ pc[p] = "attempt"
    /\ cooling' = [cooling EXCEPT ![Host(p)] = TRUE]
    /\ \E i \in Identities(p) : mem' = [mem EXCEPT ![p].target = i]
    /\ Become(p, "enrolling")
    /\ UNCHANGED <<on, env, marker, check, cloudVars, byHand, calm>>

\* enroll by hand (with --force, or because the credentials do not work) is
\* not held back, but starts the cooldown like the others.
EnrollByHand(p) ==
    /\ pc[p] = "idle" /\ ByHand(p) /\ Host(p) \in on
    /\ byHand < MaxByHand
    /\ byHand' = byHand + 1
    /\ ReadSettings(p)
    /\ Become(p, "attempt")
    /\ UNCHANGED <<on, fileVars, cloudVars, calm>>

-----------------------------------------------------------------------------
(* enroll and _enroll_and_store *)

\* agent_enroll: a new token, which replaces the system's last one ...
Issue(p) ==
    LET i == mem[p].target
    IN  /\ pc[p] = "enrolling" /\ i \notin retired
        /\ systems' = systems \cup {i}
        /\ env' = [m \in Machine |-> Outdated(env[m], i)]
        /\ UNCHANGED <<on, cooling, marker, check, retired, byHand, calm>>

Enrolled(p) ==
    LET i == mem[p].target
    IN  /\ Issue(p)
        /\ mem' = [q \in Proc |->
                      IF q = p THEN [mem[p] EXCEPT !.id = i, !.tok = "valid"]
                      ELSE Outdated(mem[q], i)]
        /\ Become(p, "storing")

\* ... or the answer is lost, and enroll tries again.
EnrolledUnheard(p) ==
    /\ Issue(p)
    /\ mem' = [q \in Proc |-> Outdated(mem[q], mem[p].target)]
    /\ UNCHANGED pc

\* Refused for another reason, or out of time.
EnrollFailed(p) ==
    /\ pc[p] = "enrolling"
    /\ Exit(p)
    /\ UNCHANGED <<on, fileVars, cloudVars, byHand, calm>>

\* agent_enroll's HINT is retired_manually.
ToldRetired(p) ==
    /\ pc[p] = "enrolling" /\ mem[p].target \in retired
    /\ Become(p, "retired")
    /\ UNCHANGED <<on, fileVars, cloudVars, byHand, calm, mem>>

MarkRetired(p) ==
    /\ pc[p] = "retired"
    /\ marker' = [marker EXCEPT ![Host(p)] = TRUE]
    /\ Exit(p)
    /\ UNCHANGED <<on, env, cooling, check, cloudVars, byHand, calm>>

\* Mutant: all the process remembers is written.
StoreAll(p) ==
    LET m == Host(p)
    IN  /\ pc[p] = "storing"
        /\ env' = [env EXCEPT ![m] = mem[p]]
        /\ marker' = [marker EXCEPT ![m] = FALSE]
        /\ Become(p, "send")
        /\ UNCHANGED <<on, cooling, check, cloudVars, byHand, calm, mem>>

\* write_env_values, and the retired file goes.
Store(p) ==
    LET m == Host(p)
    IN  /\ pc[p] = "storing"
        /\ env' = [env EXCEPT ![m] = [id |-> mem[p].id, tok |-> mem[p].tok]]
        /\ marker' = [marker EXCEPT ![m] = FALSE]
        /\ Become(p, "send")
        /\ UNCHANGED <<on, cooling, check, cloudVars, byHand, calm, mem>>

-----------------------------------------------------------------------------
(* The heartbeat's request *)

Accepted(p) ==
    /\ pc[p] = "send" /\ Valid(mem[p])
    /\ IF ByHand(p) THEN Exit(p) ELSE Become(p, "sent") /\ UNCHANGED mem
    /\ UNCHANGED <<on, fileVars, cloudVars, byHand, calm>>

\* Credentials that work mean the node is not retired.
ClearMarker(p) ==
    /\ pc[p] = "sent"
    /\ marker' = [marker EXCEPT ![Host(p)] = FALSE]
    /\ Exit(p)
    /\ UNCHANGED <<on, env, cooling, check, cloudVars, byHand, calm>>

\* Mutant: rejected credentials end the heartbeat.
RejectedExit(p) ==
    /\ pc[p] = "send" /\ ~Valid(mem[p])
    /\ Exit(p)
    /\ UNCHANGED <<on, fileVars, cloudVars, byHand, calm>>

\* CredentialsRejected: the heartbeat enrolls again, once.
Rejected(p) ==
    /\ pc[p] = "send" /\ ~Valid(mem[p])
    /\ IF ByHand(p) \/ mem[p].again
         THEN Exit(p)
         ELSE /\ Become(p, "auto")
              /\ mem' = [mem EXCEPT ![p].target = Nobody, ![p].again = TRUE]
    /\ UNCHANGED <<on, fileVars, cloudVars, byHand, calm>>

Unreached(p) ==
    /\ pc[p] = "send"
    /\ Exit(p)
    /\ UNCHANGED <<on, fileVars, cloudVars, byHand, calm>>

-----------------------------------------------------------------------------
(* The rest of the world *)

\* The cooldown (600 s) outlasts any enrollment (300 s).
CoolDown(m) ==
    /\ cooling[m]
    /\ \A p \in Proc : Host(p) = m => pc[p] \notin {"enrolling", "storing"}
    /\ cooling' = [cooling EXCEPT ![m] = FALSE]
    /\ UNCHANGED <<on, env, marker, check, cloudVars, byHand, calm, procVars>>

\* A source that did not answer is asked again after the same time.
ForgetCheck(m) ==
    /\ check[m].result = "unanswered"
    /\ check' = [check EXCEPT ![m] = NoCheck]
    /\ UNCHANGED <<on, env, cooling, marker, cloudVars, byHand, calm,
                   procVars>>

Kill(p) ==
    /\ pc[p] # "idle"
    /\ Exit(p)
    /\ UNCHANGED <<on, fileVars, cloudVars, byHand, calm>>

\* A new boot ID: the identity has not been checked in this boot.
Reboot(m) ==
    /\ m \in on
    /\ check' = [check EXCEPT ![m] = NoCheck]
    /\ pc' = [p \in Proc |-> IF Host(p) = m THEN "idle" ELSE pc[p]]
    /\ mem' = [p \in Proc |-> IF Host(p) = m THEN NoMemory ELSE mem[p]]
    /\ UNCHANGED <<on, env, cooling, marker, cloudVars, byHand, calm>>

\* n starts from an image of m's disk.
StartCopy(m, n) ==
    /\ m \in on /\ n \in Imaged \ on
    /\ Cardinality(on) < MaxOn
    /\ on' = on \cup {n}
    /\ env' = [env EXCEPT ![n] = env[m]]
    /\ cooling' = [cooling EXCEPT ![n] = cooling[m]]
    /\ marker' = [marker EXCEPT ![n] = marker[m]]
    /\ UNCHANGED <<check, cloudVars, byHand, calm, procVars>>

RetireByHand(i) ==
    /\ i \in systems \ retired
    /\ retired' = retired \cup {i}
    /\ UNCHANGED <<on, fileVars, systems, byHand, calm, procVars>>

\* Restoring replaces the credentials.
Restore(i) ==
    /\ i \in retired
    /\ retired' = retired \ {i}
    /\ env' = [m \in Machine |-> Outdated(env[m], i)]
    /\ mem' = [p \in Proc |-> Outdated(mem[p], i)]
    /\ UNCHANGED <<on, cooling, marker, check, systems, byHand, calm, pc>>

HeartbeatStep(p) ==
    \/ StartHeartbeat(p) \/ UseCheck(p) \/ AskSource(p)
    \/ NotAllowed(p) \/ Allowed(p) \/ NoteAttempt(p)
    \/ Accepted(p) \/ ClearMarker(p) \/ Rejected(p) \/ Unreached(p)

EnrollStep(p) ==
    \/ Enrolled(p) \/ EnrolledUnheard(p) \/ EnrollFailed(p)
    \/ ToldRetired(p) \/ MarkRetired(p) \/ Store(p)

\* What nothing in the agent brings about ...
Disturbance ==
    /\ ~calm
    /\ \/ \E p \in Proc : Kill(p) \/ EnrollByHand(p)
       \/ \E m \in Machine : Reboot(m) \/ RetireByHand(m) \/ Restore(m)
       \/ \E m, n \in Machine : StartCopy(m, n)

\* ... has happened for the last time, and so has a heartbeat of the update
\* unit (hourly) next to one of the timer.
CalmDown ==
    /\ ~calm
    /\ calm' = TRUE
    /\ UNCHANGED <<on, fileVars, cloudVars, byHand, procVars>>

Next ==
    \/ \E p \in Proc : HeartbeatStep(p) \/ EnrollStep(p)
    \/ \E m \in Machine : CoolDown(m) \/ ForgetCheck(m)
    \/ Disturbance

Spec == Init /\ [][Next]_vars

\* The timer starts a heartbeat every minute and each of its steps ends; the
\* cloud and the identity source do not fail to answer for ever.
HeartbeatFairness(p) ==
    /\ WF_vars(HeartbeatStep(p) \/ Enrolled(p) \/ ToldRetired(p)
               \/ MarkRetired(p) \/ Store(p))
    /\ SF_vars(AskSource(p) /\ check'[Host(p)].result # "unanswered")
    /\ SF_vars(Enrolled(p))
    /\ SF_vars(Accepted(p) \/ Rejected(p))

\* Processes are not killed, machines not rebooted, nodes not retired and
\* restored and heartbeats not run side by side for ever.
FairSpec ==
    /\ Init /\ [][Next \/ CalmDown]_vars
    /\ \A p \in Proc : ~ByHand(p) => HeartbeatFairness(p)
    /\ \A m \in Machine : WF_vars(CoolDown(m)) /\ WF_vars(ForgetCheck(m))
    /\ WF_vars(CalmDown)

-----------------------------------------------------------------------------
(* Properties *)

\* Types of the variables.
TypeOK ==
    /\ on \subseteq Machine
    /\ env \in [Machine -> Settings]
    /\ cooling \in [Machine -> BOOLEAN]
    /\ marker \in [Machine -> BOOLEAN]
    /\ check \in [Machine -> Check]
    /\ systems \subseteq Machine /\ retired \subseteq systems
    /\ byHand \in 0..MaxByHand
    /\ calm \in BOOLEAN
    /\ pc \in [Proc -> PcState]
    /\ mem \in [Proc -> Memory]

\* A machine whose identity source answers never acts as another one, not
\* even with the disk of another one: it neither enrolls under that identity,
\* which would take away the other machine's token, nor sends a heartbeat
\* with its credentials.
NoTakeover ==
    \A p \in Proc : Host(p) \in Answering =>
        /\ pc[p] \in {"enrolling", "storing"} => mem[p].target = Host(p)
        /\ pc[p] \in {"send", "sent"} => mem[p].id = Host(p)

\* m has credentials of its own that the cloud accepts.
Working(m) == env[m].id = m /\ Valid(env[m])

\* A machine does not stay without working credentials, whatever was lost,
\* killed, copied or replaced, unless it was retired by hand.
Heals ==
    \A m \in Machine :
        m \in on ~> Working(m) \/ m \in retired \/ marker[m]

=============================================================================
