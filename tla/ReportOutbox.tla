---------------------------- MODULE ReportOutbox ----------------------------
(***************************************************************************)
(* What the local store of crash reports promises to the cloud, without    *)
(* its processes: a report is put in the queue, stays there until the      *)
(* cloud is known to hold it, until the cloud has refused it often enough  *)
(* to set it aside, or until the row is removed.  Delivery is at least     *)
(* once.  ReportDelivery implements this specification.                    *)
(***************************************************************************)
EXTENDS Naturals

CONSTANTS
    Report,     \* identifiers of crash reports
    Patience    \* refusals after which a report may be set aside

VARIABLES
    status,     \* status[r]: where r stands in the local store
    arrived,    \* reports of which the cloud has received some version
    refusals    \* refusals[r]: how often the cloud has refused r

outboxVars == <<status, arrived, refusals>>

Status == {"new", "queued", "delivered", "aside", "gone"}

Init ==
    /\ status = [r \in Report |-> "new"]
    /\ arrived = {}
    /\ refusals = [r \in Report |-> 0]

\* New content for r: it has to be sent, whatever happened to older content.
Put(r) ==
    /\ status' = [status EXCEPT ![r] = "queued"]
    /\ UNCHANGED <<arrived, refusals>>

\* A copy of r reaches the cloud, whether or not the agent learns of it.
Arrive(r) ==
    /\ status[r] # "new"
    /\ arrived' = arrived \cup {r}
    /\ UNCHANGED <<status, refusals>>

Refuse(r) ==
    /\ status[r] # "new"
    /\ refusals' = [refusals EXCEPT ![r] = @ + 1]
    /\ UNCHANGED <<status, arrived>>

\* Only what the cloud holds is ever recorded as delivered.
Confirm(r) ==
    /\ status[r] \in {"queued", "aside"}
    /\ r \in arrived
    /\ status' = [status EXCEPT ![r] = "delivered"]
    /\ UNCHANGED <<arrived, refusals>>

GiveUp(r) ==
    /\ status[r] = "queued"
    /\ refusals[r] >= Patience
    /\ status' = [status EXCEPT ![r] = "aside"]
    /\ UNCHANGED <<arrived, refusals>>

\* Retention or the operator removes a set of rows.
Remove(S) ==
    /\ \A r \in S : status[r] # "new"
    /\ status' = [r \in Report |-> IF r \in S THEN "gone" ELSE status[r]]
    /\ UNCHANGED <<arrived, refusals>>

Next ==
    \/ \E r \in Report :
          Put(r) \/ Arrive(r) \/ Refuse(r) \/ Confirm(r) \/ GiveUp(r)
    \/ \E S \in SUBSET Report : Remove(S)

Spec == Init /\ [][Next]_outboxVars

=============================================================================
