---------------------------- MODULE WebhookQueue ----------------------------
(***************************************************************************)
(* The durable queue of incident webhooks (notifications.py and the        *)
(* webhook_deliveries table of storage/store.py).                          *)
(*                                                                         *)
(* An analysis queues one delivery and flushes the queue; a heartbeat that *)
(* was sent in push mode and accepted flushes it too.  The flushes of      *)
(* different processes run side by side: each reads a list of rows, sends  *)
(* them one after the other and writes back what it made of the copy it    *)
(* read.                                                                   *)
(*                                                                         *)
(* Of next_attempt_at only the order matters in which it passes: "due" is  *)
(* that order.  A new delivery is due at once; one that failed is due      *)
(* again some time later, after those that are due now.                    *)
(***************************************************************************)
EXTENDS Naturals, Sequences, SequencesExt

CONSTANTS
    Delivery,     \* delivery IDs, fresh for each incident
    Heartbeat,    \* processes that flush the queue
    Analysis,     \* processes that queue a delivery first
    MaxAttempts,  \* MAX_WEBHOOK_ATTEMPTS (8)
    ListLimit     \* the limit of list_due_webhook_deliveries (20)

ASSUME WebhookAssumption ==
    /\ MaxAttempts \in Nat \ {0}
    /\ ListLimit \in Nat \ {0}
    /\ Heartbeat \cap Analysis = {}

Flusher == Heartbeat \cup Analysis

VARIABLES
    stored,     \* deliveries with a row
    delivered,  \* those with delivered_at
    attempts,   \* the column of that name
    due,        \* pending deliveries with next_attempt_at in the past
    pc,         \* where each process is
    listed,     \* the rows it has read and not dealt with
    accepting,  \* push mode is configured and the dashboard is reachable and
                \* accepts this agent's heartbeats
    received,   \* deliveries that reached the receiver
    failures    \* how often each was sent in vain, up to MaxAttempts

rowVars == <<stored, delivered, attempts, due>>
worldVars == <<accepting, received, failures>>
vars == <<stored, delivered, attempts, due, pc, listed, accepting, received,
          failures>>

Copy == [id : Delivery, attempts : 0..(MaxAttempts - 1)]
PcState == {"idle", "list", "next", "sent", "failed"}

\* What webhook_delivery_status counts as pending and as failed.
Pending(d) == d \in stored \ delivered /\ attempts[d] < MaxAttempts
GivenUp(d) == d \in stored \ delivered /\ attempts[d] >= MaxAttempts

Current(f) == Head(listed[f])

\* due once d is written with a time to come, or delivered.
DueWithout(d) ==
    IF Contains(due, d)
      THEN RemoveAt(due, CHOOSE i \in 1..Len(due) : due[i] = d)
      ELSE due

Init ==
    /\ stored = {} /\ delivered = {} /\ due = <<>>
    /\ attempts = [d \in Delivery |-> 0]
    /\ pc = [f \in Flusher |-> "idle"]
    /\ listed = [f \in Flusher |-> <<>>]
    /\ accepting \in BOOLEAN
    /\ received = {}
    /\ failures = [d \in Delivery |-> 0]

\* queue_incident_webhook, at the end of check_and_analyze.
QueueIncident(f) ==
    /\ f \in Analysis /\ pc[f] = "idle"
    /\ \E d \in Delivery \ stored :
          /\ stored' = stored \cup {d}
          /\ due' = Append(due, d)
    /\ pc' = [pc EXCEPT ![f] = "list"]
    /\ UNCHANGED <<delivered, attempts, listed, worldVars>>

\* A heartbeat gets to its flush: it leaves early when push mode is not
\* configured, and push_heartbeat raises when it was not accepted.
StartFlush(f) ==
    /\ f \in Heartbeat /\ pc[f] = "idle" /\ accepting
    /\ pc' = [pc EXCEPT ![f] = "list"]
    /\ UNCHANGED <<rowVars, listed, worldVars>>

\* list_due_webhook_deliveries: the rows due first, as they are now.
ListDue(f) ==
    LET n == IF Len(due) < ListLimit THEN Len(due) ELSE ListLimit
    IN  /\ pc[f] = "list"
        /\ listed' = [listed EXCEPT ![f] =
                        [i \in 1..n |-> [id |-> due[i],
                                         attempts |-> attempts[due[i]]]]]
        /\ pc' = [pc EXCEPT ![f] = "next"]
        /\ UNCHANGED <<rowVars, worldVars>>

\* The receiver answers with success.
Deliver(f) ==
    /\ pc[f] = "next" /\ listed[f] # <<>>
    /\ received' = received \cup {Current(f).id}
    /\ pc' = [pc EXCEPT ![f] = "sent"]
    /\ UNCHANGED <<rowVars, listed, accepting, failures>>

\* A failed attempt at d.
CountFailure(d) ==
    failures' = [failures EXCEPT ![d] = IF @ < MaxAttempts THEN @ + 1 ELSE @]

\* Mutant: an error status is not looked at.
SendFailsSent(f) ==
    /\ pc[f] = "next" /\ listed[f] # <<>>
    /\ CountFailure(Current(f).id)
    /\ pc' = [pc EXCEPT ![f] = "sent"]
    /\ UNCHANGED <<rowVars, listed, accepting, received>>

\* An error, a timeout or no connection; the receiver may have it all the same.
SendFails(f) ==
    /\ pc[f] = "next" /\ listed[f] # <<>>
    /\ received' \in {received, received \cup {Current(f).id}}
    /\ CountFailure(Current(f).id)
    /\ pc' = [pc EXCEPT ![f] = "failed"]
    /\ UNCHANGED <<rowVars, listed, accepting>>

\* mark_webhook_delivered raises: inside the same try, so the delivery counts
\* as failed.
MarkFails(f) ==
    /\ pc[f] = "sent"
    /\ CountFailure(Current(f).id)
    /\ pc' = [pc EXCEPT ![f] = "failed"]
    /\ UNCHANGED <<rowVars, listed, accepting, received>>

\* The loop goes on with the next row of the list.
GoOn(f) ==
    /\ listed' = [listed EXCEPT ![f] = Tail(@)]
    /\ pc' = [pc EXCEPT ![f] = "next"]

\* mark_webhook_delivered
MarkDelivered(f) ==
    LET d == Current(f).id
    IN  /\ pc[f] = "sent"
        /\ delivered' = delivered \cup {d}
        /\ due' = DueWithout(d)
        /\ GoOn(f)
        /\ UNCHANGED <<stored, attempts, worldVars>>

\* Mutants: the count is added to the column, or not written.
MarkFailedAdd(f) ==
    LET d == Current(f).id
    IN  /\ pc[f] = "failed"
        /\ attempts' = [attempts EXCEPT ![d] = @ + Current(f).attempts + 1]
        /\ due' = DueWithout(d)
        /\ GoOn(f)
        /\ UNCHANGED <<stored, delivered, worldVars>>

MarkFailedUncounted(f) ==
    LET d == Current(f).id
    IN  /\ pc[f] = "failed"
        /\ due' = DueWithout(d)
        /\ GoOn(f)
        /\ UNCHANGED <<stored, delivered, attempts, worldVars>>

\* mark_webhook_failed: one more than the attempts it read, and a time to
\* come, also when another process has written the row since.
MarkFailed(f) ==
    LET d == Current(f).id
    IN  /\ pc[f] = "failed"
        /\ attempts' = [attempts EXCEPT ![d] = Current(f).attempts + 1]
        /\ due' = DueWithout(d)
        /\ GoOn(f)
        /\ UNCHANGED <<stored, delivered, worldVars>>

EndFlush(f) ==
    /\ pc[f] = "next" /\ listed[f] = <<>>
    /\ pc' = [pc EXCEPT ![f] = "idle"]
    /\ UNCHANGED <<rowVars, listed, worldVars>>

\* Killed, or mark_webhook_failed raises.
Kill(f) ==
    /\ pc[f] # "idle"
    /\ pc' = [pc EXCEPT ![f] = "idle"]
    /\ listed' = [listed EXCEPT ![f] = <<>>]
    /\ UNCHANGED <<rowVars, worldVars>>

\* Mutant: deliveries that were given up are listed, too.
BecomeDueAlways(d) ==
    /\ d \in stored \ delivered /\ ~Contains(due, d)
    /\ due' = Append(due, d)
    /\ UNCHANGED <<stored, delivered, attempts, pc, listed, worldVars>>

\* next_attempt_at passes.
BecomeDue(d) ==
    /\ Pending(d) /\ ~Contains(due, d)
    /\ due' = Append(due, d)
    /\ UNCHANGED <<stored, delivered, attempts, pc, listed, worldVars>>

\* The dashboard, the network or the configuration comes or goes.
SwitchDashboard ==
    /\ accepting' = ~accepting
    /\ UNCHANGED <<rowVars, pc, listed, received, failures>>

FlushStep(f) ==
    \/ StartFlush(f) \/ ListDue(f) \/ Deliver(f) \/ SendFails(f)
    \/ MarkFails(f) \/ MarkDelivered(f) \/ MarkFailed(f) \/ EndFlush(f)

Next ==
    \/ \E f \in Flusher : QueueIncident(f) \/ FlushStep(f) \/ Kill(f)
    \/ \E d \in Delivery : BecomeDue(d)
    \/ SwitchDashboard

Spec == Init /\ [][Next]_vars

\* A heartbeat's flush goes on once begun, and is not killed at the same place
\* for ever.  Nothing is assumed of the receiver, of analyses, nor of how
\* often a heartbeat gets to its flush.
FairSpec ==
    /\ Spec
    /\ \A h \in Heartbeat :
          /\ WF_vars(EndFlush(h))
          /\ SF_vars(ListDue(h))
          /\ SF_vars(Deliver(h) \/ SendFails(h))
          /\ SF_vars(MarkDelivered(h) \/ MarkFailed(h))
    /\ \A d \in Delivery : WF_vars(BecomeDue(d))

-----------------------------------------------------------------------------
(* Properties *)

\* Types of the variables.
TypeOK ==
    /\ stored \subseteq Delivery /\ delivered \subseteq stored
    /\ attempts \in [Delivery -> 0..MaxAttempts]
    /\ due \in Seq(Delivery)
    /\ pc \in [Flusher -> PcState]
    /\ listed \in [Flusher -> Seq(Copy)]
    /\ accepting \in BOOLEAN
    /\ received \subseteq stored
    /\ failures \in [Delivery -> 0..MaxAttempts]

\* An incident is recorded as announced only when the receiver got it, also
\* when several processes send it and some of them fail.
DeliveredWasReceived == delivered \subseteq received

\* An incident is given up only after MAX_WEBHOOK_ATTEMPTS attempts failed,
\* although each process counts on from the number it read some time ago.
GivenUpWasTried == \A d \in Delivery : GivenUp(d) => failures[d] = MaxAttempts

\* As long as heartbeats keep being accepted, every incident is announced or
\* given up in the end, whatever else is in the queue, also when a process
\* writes back a count that is out of date.  Without accepted heartbeats only
\* the next analysis tries again.
Settles ==
    []<>(\E h \in Heartbeat : pc[h] = "list") =>
        \A d \in Delivery : d \in stored ~> d \in delivered \/ GivenUp(d)

=============================================================================
