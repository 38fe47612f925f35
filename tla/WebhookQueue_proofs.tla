------------------------ MODULE WebhookQueue_proofs ------------------------
(***************************************************************************)
(* Proofs about WebhookQueue, for any numbers of processes, incidents and  *)
(* attempts: an incident recorded as announced was received, and one is    *)
(* given up only after MaxAttempts failures.                               *)
(*                                                                         *)
(* The counts are right although every process writes back one more than a *)
(* number it read earlier, because no number anywhere (in the table or in  *)
(* a list that was read) is above the failures that really happened.       *)
(***************************************************************************)
EXTENDS WebhookQueue, SequenceTheorems, TLAPS

USE WebhookAssumption

\* What is due is waiting to be sent, and is in the list once; what was not
\* queued has not been tried.
DueInv ==
    /\ \A i \in 1..Len(due) : Pending(due[i])
    /\ \A i, j \in 1..Len(due) : due[i] = due[j] => i = j
    /\ \A d \in Delivery \ stored : attempts[d] = 0

\* No count is above the failures.
CountInv ==
    /\ \A d \in Delivery : attempts[d] <= failures[d]
    /\ \A f \in Flusher : \A i \in 1..Len(listed[f]) :
          listed[f][i].attempts <= failures[listed[f][i].id]

\* A process that sent its current delivery knows what came of it.
StepInv ==
    \A f \in Flusher :
        /\ pc[f] \in {"sent", "failed"} => listed[f] # <<>>
        /\ pc[f] = "sent" => Current(f).id \in received
        /\ pc[f] = "failed" =>
              Current(f).attempts < failures[Current(f).id]
        /\ \A i \in 1..Len(listed[f]) : listed[f][i].id \in stored

IInv == TypeOK /\ DueInv /\ CountInv /\ StepInv /\ DeliveredWasReceived

LEMMA InitIInv == Init => IInv
<1> SUFFICES ASSUME Init PROVE IInv
  OBVIOUS
<1>1. due \in Seq(Delivery) /\ Len(due) = 0
  BY EmptySeq DEF Init
<1>2. \A f \in Flusher : listed[f] = <<>> /\ Len(listed[f]) = 0
  BY DEF Init
<1>3. listed \in [Flusher -> Seq(Copy)]
  BY EmptySeq DEF Init
<1>4. TypeOK
  BY <1>1, <1>3 DEF Init, TypeOK, PcState
<1>5. DueInv /\ CountInv /\ StepInv /\ DeliveredWasReceived
  BY <1>1, <1>2
  DEF Init, DueInv, CountInv, StepInv, DeliveredWasReceived
<1>6. QED
  BY <1>4, <1>5 DEF IInv

-----------------------------------------------------------------------------
(* The list of due deliveries *)

\* Without d, the list holds what it held, but for d.
LEMMA DueWithoutProperties ==
    ASSUME due \in Seq(Delivery), NEW d,
           \A i, j \in 1..Len(due) : due[i] = due[j] => i = j
    PROVE  /\ DueWithout(d) \in Seq(Delivery)
           /\ \A k \in 1..Len(DueWithout(d)) :
                 /\ DueWithout(d)[k] # d
                 /\ \E i \in 1..Len(due) : due[i] = DueWithout(d)[k]
           /\ \A k, l \in 1..Len(DueWithout(d)) :
                 DueWithout(d)[k] = DueWithout(d)[l] => k = l
<1>1. CASE ~Contains(due, d)
  BY <1>1 DEF DueWithout, Contains
<1>2. CASE Contains(due, d)
  <2> DEFINE n == CHOOSE i \in 1..Len(due) : due[i] = d
             a == SubSeq(due, 1, n - 1)
             b == SubSeq(due, n + 1, Len(due))
  <2>1. n \in 1..Len(due) /\ due[n] = d
    BY <1>2 DEF Contains
  <2>2. DueWithout(d) = a \o b
    BY <1>2 DEF DueWithout, RemoveAt
  <2>3. Len(due) \in Nat /\ n \in Nat
    BY <2>1, LenProperties
  <2>4. \A i \in 1..Len(due) : due[i] \in Delivery
    BY ElementOfSeq
  <2> HIDE DEF n
  <2>5. /\ a \in Seq(Delivery) /\ Len(a) = n - 1
        /\ \A i \in 1..(n - 1) : a[i] = due[i]
    <3>1. \A i \in 1..(n - 1) : due[i] \in Delivery
      BY <2>1, <2>3, <2>4
    <3>2. /\ a \in Seq(Delivery)
          /\ Len(a) = IF 1 <= n - 1 THEN (n - 1) - 1 + 1 ELSE 0
          /\ \A i \in 1..((n - 1) - 1 + 1) : a[i] = due[1 + i - 1]
      BY <2>3, <3>1, SubSeqProperties
    <3> HIDE DEF a
    <3>3. QED
      BY <2>1, <2>3, <3>2
  <2>6. /\ b \in Seq(Delivery) /\ Len(b) = Len(due) - n
        /\ \A i \in 1..(Len(due) - n) : b[i] = due[n + i]
    <3>1. \A i \in (n + 1)..Len(due) : due[i] \in Delivery
      BY <2>1, <2>3, <2>4
    <3>2. /\ b \in Seq(Delivery)
          /\ Len(b) = IF n + 1 <= Len(due) THEN Len(due) - (n + 1) + 1 ELSE 0
          /\ \A i \in 1..(Len(due) - (n + 1) + 1) : b[i] = due[n + 1 + i - 1]
      BY <2>3, <3>1, SubSeqProperties
    <3> HIDE DEF b
    <3>3. QED
      BY <2>1, <2>3, <3>2
  <2> HIDE DEF a, b
  <2>7. /\ a \o b \in Seq(Delivery)
        /\ Len(a \o b) = Len(a) + Len(b)
        /\ \A i \in 1..(Len(a) + Len(b)) :
              (a \o b)[i] = IF i <= Len(a) THEN a[i] ELSE b[i - Len(a)]
    BY <2>5, <2>6, ConcatProperties
  <2> DEFINE old(k) == IF k <= n - 1 THEN k ELSE k + 1
  <2>8. \A k \in 1..Len(a \o b) :
           /\ old(k) \in 1..Len(due) /\ old(k) # n
           /\ (a \o b)[k] = due[old(k)]
    <3> SUFFICES ASSUME NEW k \in 1..Len(a \o b)
                 PROVE  /\ old(k) \in 1..Len(due) /\ old(k) # n
                        /\ (a \o b)[k] = due[old(k)]
      OBVIOUS
    <3>1. k \in Nat /\ 1 <= k /\ k <= Len(due) - 1
      BY <2>1, <2>3, <2>5, <2>6, <2>7
    <3>2. CASE k <= n - 1
      BY <2>1, <2>3, <2>5, <2>6, <2>7, <3>1, <3>2
    <3>3. CASE ~(k <= n - 1)
      <4>1. (a \o b)[k] = b[k - (n - 1)]
        BY <2>1, <2>3, <2>5, <2>6, <2>7, <3>1, <3>3
      <4>2. k - (n - 1) \in 1..(Len(due) - n)
        BY <2>1, <2>3, <3>1, <3>3
      <4>3. b[k - (n - 1)] = due[n + (k - (n - 1))]
        BY <2>6, <4>2
      <4>4. n + (k - (n - 1)) = k + 1
        BY <2>3, <3>1
      <4>5. QED
        BY <2>1, <2>3, <3>1, <3>3, <4>1, <4>3, <4>4
    <3>4. QED
      BY <3>2, <3>3
  <2>9. \A k \in 1..Len(a \o b) : (a \o b)[k] # d
    BY <2>1, <2>8
  <2>10. ASSUME NEW k \in 1..Len(a \o b), NEW l \in 1..Len(a \o b),
                (a \o b)[k] = (a \o b)[l]
         PROVE  k = l
    <3>1. old(k) = old(l)
      BY <2>8, <2>10
    <3>2. k \in Nat /\ l \in Nat
      BY <2>5, <2>6, <2>7, <2>3
    <3>3. QED
      BY <2>3, <3>1, <3>2
  <2>11. \A k \in 1..Len(a \o b) :
            \E i \in 1..Len(due) : due[i] = (a \o b)[k]
    BY <2>8
  <2> DEFINE c == a \o b
  <2> HIDE DEF c, old
  <2>12. QED
    BY <2>2, <2>7, <2>9, <2>10, <2>11 DEF c
<1>3. QED
  BY <1>1, <1>2


\* A delivery that is due again, or for the first time, goes to the end.
LEMMA DueAppendProperties ==
    ASSUME due \in Seq(Delivery), NEW d \in Delivery,
           \A i, j \in 1..Len(due) : due[i] = due[j] => i = j,
           \A i \in 1..Len(due) : due[i] # d
    PROVE  /\ Append(due, d) \in Seq(Delivery)
           /\ \A k \in 1..Len(Append(due, d)) :
                 \/ Append(due, d)[k] = d
                 \/ \E i \in 1..Len(due) : due[i] = Append(due, d)[k]
           /\ \A k, l \in 1..Len(Append(due, d)) :
                 Append(due, d)[k] = Append(due, d)[l] => k = l
<1>1. /\ Append(due, d) \in Seq(Delivery)
      /\ Len(Append(due, d)) = Len(due) + 1
      /\ \A i \in 1..Len(due) : Append(due, d)[i] = due[i]
      /\ Append(due, d)[Len(due) + 1] = d
  BY AppendProperties
<1>2. QED
  BY <1>1, LenProperties

-----------------------------------------------------------------------------
(* The lists that were read *)

\* The current row of a list that is not empty, and the rest.
LEMMA ListProperties ==
    ASSUME TypeOK, NEW f \in Flusher, listed[f] # <<>>
    PROVE  /\ Current(f) \in Copy /\ Current(f) = listed[f][1]
           /\ 1 \in 1..Len(listed[f])
           /\ Tail(listed[f]) \in Seq(Copy)
           /\ \A i \in 1..Len(Tail(listed[f])) :
                 \E j \in 1..Len(listed[f]) :
                    Tail(listed[f])[i] = listed[f][j]
<1>1. listed[f] \in Seq(Copy)
  BY DEF TypeOK
<1>2. Len(listed[f]) \in Nat \ {0}
  BY <1>1, EmptySeq, LenProperties
<1>3. /\ Head(listed[f]) \in Copy /\ Tail(listed[f]) \in Seq(Copy)
      /\ Len(Tail(listed[f])) = Len(listed[f]) - 1
      /\ \A i \in 1..Len(Tail(listed[f])) :
            Tail(listed[f])[i] = listed[f][i + 1]
  BY <1>1, HeadTailProperties
<1>4. Head(listed[f]) = listed[f][1]
  BY <1>1
<1>5. ASSUME NEW i \in 1..Len(Tail(listed[f]))
      PROVE  /\ i + 1 \in 1..Len(listed[f])
             /\ Tail(listed[f])[i] = listed[f][i + 1]
  BY <1>2, <1>3
<1>6. QED
  BY <1>2, <1>3, <1>4, <1>5 DEF Current

\* A failure is counted, up to MaxAttempts.
LEMMA CountFailureProperties ==
    ASSUME TypeOK, NEW d \in Delivery, CountFailure(d)
    PROVE  /\ failures' \in [Delivery -> 0..MaxAttempts]
           /\ \A e \in Delivery : failures[e] <= failures'[e]
           /\ \A n \in 0..(MaxAttempts - 1) :
                 n <= failures[d] => n < failures'[d]
<1>1. failures \in [Delivery -> 0..MaxAttempts] /\ MaxAttempts \in Nat
  BY DEF TypeOK
<1>2. failures' = [failures EXCEPT ![d] =
                     IF failures[d] < MaxAttempts THEN failures[d] + 1
                                                  ELSE failures[d]]
  BY DEF CountFailure
<1>3. CASE failures[d] < MaxAttempts
  BY <1>1, <1>2, <1>3
<1>4. CASE ~(failures[d] < MaxAttempts)
  BY <1>1, <1>2, <1>4
<1>5. QED
  BY <1>3, <1>4

\* What is said of one process.
Informed(f) ==
    /\ pc[f] \in {"sent", "failed"} => listed[f] # <<>>
    /\ pc[f] = "sent" => Current(f).id \in received
    /\ pc[f] = "failed" => Current(f).attempts < failures[Current(f).id]
    /\ \A i \in 1..Len(listed[f]) :
          /\ listed[f][i].id \in stored
          /\ listed[f][i].attempts <= failures[listed[f][i].id]

LEMMA InformedAll ==
    ASSUME TypeOK
    PROVE  /\ StepInv /\ CountInv =>
                 /\ \A f \in Flusher : Informed(f)
                 /\ \A d \in Delivery : attempts[d] <= failures[d]
           /\ /\ \A f \in Flusher : Informed(f)
              /\ \A d \in Delivery : attempts[d] <= failures[d]
              => StepInv /\ CountInv
BY DEF StepInv, CountInv, Informed

\* A process that does nothing stays informed while others add to the table,
\* to what was received and to the failures.
LEMMA StaysInformed ==
    ASSUME TypeOK, NEW f \in Flusher, Informed(f),
           pc'[f] = pc[f], listed'[f] = listed[f],
           stored \subseteq stored', received \subseteq received',
           failures' \in [Delivery -> 0..MaxAttempts],
           \A d \in Delivery : failures[d] <= failures'[d]
    PROVE  Informed(f)'
<1>1. /\ listed[f] \in Seq(Copy)
      /\ failures \in [Delivery -> 0..MaxAttempts]
  BY DEF TypeOK
<1>2. \A i \in 1..Len(listed[f]) :
         listed[f][i].id \in Delivery /\ listed[f][i].attempts \in Nat
  <2>1. ASSUME NEW i \in 1..Len(listed[f]) PROVE listed[f][i] \in Copy
    BY <1>1, ElementOfSeq
  <2>2. \A c \in Copy : c.id \in Delivery /\ c.attempts \in Nat
    BY DEF Copy
  <2>3. QED
    BY <2>1, <2>2
<1>3. listed[f] # <<>> =>
         Current(f).id \in Delivery /\ Current(f).attempts \in Nat
  BY <1>2, ListProperties
<1>4. Current(f)' = Current(f)
  BY DEF Current
<1>5. \A i \in 1..Len(listed'[f]) :
         /\ listed'[f][i].id \in stored'
         /\ listed'[f][i].attempts <= failures'[listed'[f][i].id]
  <2>1. \A d \in Delivery : failures[d] \in Nat /\ failures'[d] \in Nat
    BY <1>1
  <2>2. ASSUME NEW i \in 1..Len(listed[f])
        PROVE  /\ listed[f][i].id \in stored'
               /\ listed[f][i].attempts <= failures'[listed[f][i].id]
    BY <1>2, <2>1, <2>2 DEF Informed
  <2>3. QED
    BY <2>2
<1>6. pc'[f] = "failed" =>
         Current(f)'.attempts < failures'[Current(f)'.id]
  <2>1. \A d \in Delivery : failures[d] \in Nat /\ failures'[d] \in Nat
    BY <1>1
  <2>2. QED
    BY <1>3, <1>4, <2>1 DEF Informed
<1>7. QED
  BY <1>4, <1>5, <1>6 DEF Informed


-----------------------------------------------------------------------------
(* The steps *)

\* What a step of f has to show, beside its types.
LEMMA StepOf ==
    ASSUME IInv, TypeOK', NEW f \in Flusher, Informed(f)',
           \A g \in Flusher : g # f => /\ pc'[g] = pc[g]
                                       /\ listed'[g] = listed[g],
           stored \subseteq stored', received \subseteq received',
           \A d \in Delivery : failures[d] <= failures'[d],
           \A d \in Delivery : attempts'[d] <= failures'[d]
    PROVE  StepInv' /\ CountInv'
<1>1. TypeOK /\ \A g \in Flusher : Informed(g)
  BY InformedAll DEF IInv
<1>2. failures' \in [Delivery -> 0..MaxAttempts]
  BY DEF TypeOK
<1>3. \A g \in Flusher : Informed(g)'
  BY <1>1, <1>2, StaysInformed
<1>4. QED
  BY <1>3 DEF StepInv, CountInv, Informed

\* Steps that leave the table alone.
LEMMA RowsUnchanged ==
    ASSUME IInv, UNCHANGED rowVars
    PROVE  DueInv'
BY DEF IInv, DueInv, Pending, rowVars

LEMMA AttemptsStayRight ==
    ASSUME IInv, TypeOK', attempts' = attempts,
           \A d \in Delivery : failures[d] <= failures'[d]
    PROVE  \A d \in Delivery : attempts'[d] <= failures'[d]
<1>1. \A d \in Delivery : /\ attempts[d] \in Nat /\ failures[d] \in Nat
                          /\ failures'[d] \in Nat
  BY DEF IInv, TypeOK
<1>2. QED
  BY <1>1 DEF IInv, CountInv

LEMMA QuietStep ==
    ASSUME IInv, NEW f \in Flusher, StartFlush(f) \/ EndFlush(f) \/ Kill(f)
    PROVE  IInv'
<1>1. TypeOK /\ Informed(f)
  BY InformedAll DEF IInv
<1>2. /\ pc' \in [Flusher -> PcState] /\ pc'[f] \in {"list", "idle"}
      /\ \A g \in Flusher : g # f => pc'[g] = pc[g]
  BY <1>1 DEF TypeOK, StartFlush, EndFlush, Kill, PcState
<1>3. /\ listed' \in [Flusher -> Seq(Copy)]
      /\ listed'[f] = listed[f] \/ listed'[f] = <<>>
      /\ \A g \in Flusher : g # f => listed'[g] = listed[g]
  BY <1>1, EmptySeq DEF TypeOK, StartFlush, EndFlush, Kill
<1>4. UNCHANGED <<stored, delivered, attempts, due, accepting, received,
               failures>>
  BY DEF StartFlush, EndFlush, Kill, rowVars, worldVars
<1>5. TypeOK'
  BY <1>1, <1>2, <1>3, <1>4 DEF TypeOK
<1>6. Informed(f)'
  <2>1. CASE listed'[f] = listed[f]
    BY <1>1, <1>2, <1>4, <2>1 DEF Informed
  <2>2. CASE listed'[f] = <<>>
    <3>1. Len(listed'[f]) = 0
      BY <2>2
    <3>2. QED
      BY <1>2, <3>1 DEF Informed
  <2>3. QED
    BY <1>3, <2>1, <2>2
<1>7. \A d \in Delivery : failures[d] <= failures'[d]
  BY <1>1, <1>4 DEF TypeOK
<1>8. StepInv' /\ CountInv'
  BY <1>2, <1>3, <1>4, <1>5, <1>6, <1>7, AttemptsStayRight, StepOf
<1>9. DueInv'
  BY <1>4, RowsUnchanged DEF rowVars
<1>10. DeliveredWasReceived'
  BY <1>4 DEF IInv, DeliveredWasReceived
<1>11. QED
  BY <1>5, <1>8, <1>9, <1>10 DEF IInv

LEMMA ListStep ==
    ASSUME IInv, NEW f \in Flusher, ListDue(f)
    PROVE  IInv'
<1> DEFINE n == IF Len(due) < ListLimit THEN Len(due) ELSE ListLimit
           c(i) == [id |-> due[i], attempts |-> attempts[due[i]]]
<1>1. TypeOK /\ DueInv /\ CountInv
  BY DEF IInv
<1>2. Len(due) \in Nat /\ n \in Nat /\ n <= Len(due)
  BY <1>1, LenProperties DEF TypeOK
<1>3. listed' = [listed EXCEPT ![f] = [i \in 1..n |-> c(i)]]
  BY DEF ListDue
<1> HIDE DEF n
<1>4. ASSUME NEW i \in 1..n
      PROVE  /\ c(i) \in Copy /\ c(i).id \in stored
             /\ c(i).attempts <= failures[c(i).id]
  <2>1. i \in 1..Len(due)
    BY <1>2
  <2>2. Pending(due[i]) /\ due[i] \in Delivery
    BY <1>1, <2>1, ElementOfSeq DEF DueInv, TypeOK
  <2>3. attempts[due[i]] \in 0..(MaxAttempts - 1) /\ due[i] \in stored
    BY <1>1, <2>2 DEF Pending, TypeOK
  <2>4. QED
    BY <1>1, <2>2, <2>3 DEF Copy, CountInv
<1>5. [i \in 1..n |-> c(i)] \in Seq(Copy)
  BY <1>2, <1>4, IsASeq
<1>6. Len([i \in 1..n |-> c(i)]) = n
  BY <1>2, <1>5, LenProperties
<1>7. /\ listed' \in [Flusher -> Seq(Copy)]
      /\ listed'[f] = [i \in 1..n |-> c(i)]
      /\ \A g \in Flusher : g # f => listed'[g] = listed[g]
  BY <1>1, <1>3, <1>5 DEF TypeOK
<1>8. /\ pc' \in [Flusher -> PcState] /\ pc'[f] = "next"
      /\ \A g \in Flusher : g # f => pc'[g] = pc[g]
  BY <1>1 DEF TypeOK, ListDue, PcState
<1>9. UNCHANGED <<stored, delivered, attempts, due, accepting, received,
               failures>>
  BY DEF ListDue, rowVars, worldVars
<1>10. TypeOK'
  BY <1>1, <1>7, <1>8, <1>9 DEF TypeOK
<1>11. Informed(f)'
  <2>1. \A i \in 1..Len(listed'[f]) :
           /\ listed'[f][i].id \in stored'
           /\ listed'[f][i].attempts <= failures'[listed'[f][i].id]
    <3>1. Len(listed'[f]) = n /\ \A i \in 1..n : listed'[f][i] = c(i)
      BY <1>6, <1>7
    <3>2. \A i \in 1..n : /\ c(i).id \in stored'
                          /\ c(i).attempts <= failures'[c(i).id]
      BY <1>4, <1>9
    <3> HIDE DEF c
    <3>3. QED
      BY <3>1, <3>2
  <2>2. QED
    BY <1>8, <2>1 DEF Informed
<1>12. \A d \in Delivery : failures[d] <= failures'[d]
  BY <1>1, <1>9 DEF TypeOK
<1>13. StepInv' /\ CountInv'
  BY <1>7, <1>8, <1>9, <1>10, <1>11, <1>12, AttemptsStayRight, StepOf
<1>14. DueInv'
  BY <1>9, RowsUnchanged DEF rowVars
<1>15. DeliveredWasReceived'
  BY <1>9 DEF IInv, DeliveredWasReceived
<1>16. QED
  BY <1>10, <1>13, <1>14, <1>15 DEF IInv

LEMMA SendStep ==
    ASSUME IInv, NEW f \in Flusher,
           Deliver(f) \/ SendFails(f) \/ MarkFails(f)
    PROVE  IInv'
<1>1. TypeOK /\ Informed(f)
  BY InformedAll DEF IInv
<1>2. listed[f] # <<>>
  BY <1>1 DEF Deliver, SendFails, MarkFails, Informed
<1> DEFINE c == Current(f)
<1>3. /\ c \in Copy /\ c.id \in Delivery
      /\ c.attempts \in 0..(MaxAttempts - 1) /\ c.id \in stored
      /\ c.attempts <= failures[c.id]
  BY <1>1, <1>2, ListProperties DEF Copy, Informed
<1>4. c' = c
  BY DEF Deliver, SendFails, MarkFails, Current
<1> HIDE DEF c
<1>5. UNCHANGED <<stored, delivered, attempts, due, listed, accepting>>
  BY DEF Deliver, SendFails, MarkFails, rowVars
<1>6. /\ pc' \in [Flusher -> PcState] /\ pc'[f] \in {"sent", "failed"}
      /\ \A g \in Flusher : g # f => pc'[g] = pc[g]
  BY <1>1 DEF TypeOK, Deliver, SendFails, MarkFails, PcState
<1>7. received \subseteq received' /\ received' \subseteq stored
  BY <1>1, <1>3 DEF c, TypeOK, Deliver, SendFails, MarkFails
<1>8. /\ failures' \in [Delivery -> 0..MaxAttempts]
      /\ \A d \in Delivery : failures[d] <= failures'[d]
      /\ pc'[f] = "failed" => c.attempts < failures'[c.id]
  <2>1. CASE Deliver(f)
    <3>1. failures' = failures /\ pc'[f] = "sent"
      BY <1>1, <2>1 DEF Deliver, TypeOK
    <3>2. QED
      BY <1>1, <3>1 DEF TypeOK
  <2>2. CASE SendFails(f) \/ MarkFails(f)
    <3>1. CountFailure(c.id)
      BY <2>2 DEF c, SendFails, MarkFails
    <3>2. QED
      BY <1>1, <1>3, <3>1, CountFailureProperties
  <2>3. QED
    BY <2>1, <2>2
<1>9. pc'[f] = "sent" => c.id \in received'
  BY <1>1 DEF c, TypeOK, Deliver, SendFails, MarkFails
<1>10. TypeOK'
  BY <1>1, <1>5, <1>6, <1>7, <1>8 DEF TypeOK
<1>11. Informed(f)'
  <2>1. listed[f] \in Seq(Copy)
    BY <1>1 DEF TypeOK
  <2>2. ASSUME NEW i \in 1..Len(listed[f])
        PROVE  listed[f][i].attempts <= failures'[listed[f][i].id]
    <3>1. listed[f][i] \in Copy
      BY <2>1, ElementOfSeq
    <3>2. /\ listed[f][i].id \in Delivery
          /\ listed[f][i].attempts \in Nat
      BY <3>1 DEF Copy
    <3>3. /\ failures[listed[f][i].id] \in Nat
          /\ failures'[listed[f][i].id] \in Nat
      BY <1>1, <1>8, <3>2 DEF TypeOK
    <3>4. QED
      BY <1>1, <1>8, <3>2, <3>3 DEF Informed
  <2>3. QED
    BY <1>1, <1>2, <1>4, <1>5, <1>8, <1>9, <2>2 DEF Informed, c
<1>12. StepInv' /\ CountInv'
  BY <1>5, <1>6, <1>7, <1>8, <1>10, <1>11, AttemptsStayRight, StepOf
<1>13. DueInv'
  BY <1>5, RowsUnchanged DEF rowVars
<1>14. DeliveredWasReceived'
  BY <1>5, <1>7 DEF IInv, DeliveredWasReceived
<1>15. QED
  BY <1>10, <1>12, <1>13, <1>14 DEF IInv


LEMMA MarkStep ==
    ASSUME IInv, NEW f \in Flusher, MarkDelivered(f) \/ MarkFailed(f)
    PROVE  IInv'
<1>1. TypeOK /\ Informed(f) /\ DueInv
  BY InformedAll DEF IInv
<1>2. listed[f] # <<>>
  BY <1>1 DEF MarkDelivered, MarkFailed, Informed
<1> DEFINE c == Current(f)
<1>3. /\ c.id \in Delivery /\ c.attempts \in 0..(MaxAttempts - 1)
      /\ c.id \in stored
  BY <1>1, <1>2, ListProperties DEF Copy, Informed
<1>4. /\ listed' = [listed EXCEPT ![f] = Tail(listed[f])]
      /\ pc' = [pc EXCEPT ![f] = "next"]
  BY DEF MarkDelivered, MarkFailed, GoOn
<1>5. /\ listed' \in [Flusher -> Seq(Copy)] /\ listed'[f] = Tail(listed[f])
      /\ \A g \in Flusher : g # f => listed'[g] = listed[g]
  BY <1>1, <1>2, <1>4, ListProperties DEF TypeOK
<1>6. /\ pc' \in [Flusher -> PcState] /\ pc'[f] = "next"
      /\ \A g \in Flusher : g # f => pc'[g] = pc[g]
  BY <1>1, <1>4 DEF TypeOK, PcState
<1>7. UNCHANGED <<stored, accepting, received, failures>>
  BY DEF MarkDelivered, MarkFailed, worldVars
<1>8. due' = DueWithout(c.id)
  BY DEF MarkDelivered, MarkFailed
<1>9. /\ \A d \in Delivery : d # c.id => attempts'[d] = attempts[d]
      /\ attempts' \in [Delivery -> 0..MaxAttempts]
      /\ attempts'[c.id] <= failures'[c.id]
      /\ \A d \in Delivery : d # c.id => (d \in delivered' <=> d \in delivered)
      /\ delivered' \subseteq stored' /\ delivered' \subseteq received'
  <2>1. CASE MarkDelivered(f)
    <3>1. attempts' = attempts /\ delivered' = delivered \cup {c.id}
      BY <2>1 DEF MarkDelivered
    <3>2. c.id \in received
      BY <1>1, <2>1 DEF MarkDelivered, Informed
    <3> HIDE DEF c
    <3>3. attempts'[c.id] <= failures'[c.id]
      BY <1>3, <1>7, <3>1 DEF IInv, CountInv
    <3>4. attempts' \in [Delivery -> 0..MaxAttempts]
      BY <1>1, <3>1 DEF TypeOK
    <3>5. QED
      BY <1>1, <1>3, <1>7, <3>1, <3>2, <3>3, <3>4
      DEF TypeOK, IInv, DeliveredWasReceived
  <2>2. CASE MarkFailed(f)
    <3>1. /\ attempts' = [attempts EXCEPT ![c.id] = c.attempts + 1]
          /\ delivered' = delivered
      BY <2>2 DEF MarkFailed
    <3>2. c.attempts < failures[c.id]
      BY <1>1, <2>2 DEF MarkFailed, Informed
    <3> HIDE DEF c
    <3>3. attempts \in [Delivery -> 0..MaxAttempts]
      BY <1>1 DEF TypeOK
    <3>4. failures[c.id] \in 0..MaxAttempts
      BY <1>1, <1>3 DEF TypeOK
    <3>5. c.attempts + 1 \in 0..MaxAttempts
      BY <1>3
    <3>6. attempts'[c.id] = c.attempts + 1
      BY <1>3, <3>1, <3>3
    <3>7. attempts'[c.id] <= failures'[c.id]
      BY <1>3, <1>7, <3>2, <3>4, <3>6
    <3>8. attempts' \in [Delivery -> 0..MaxAttempts]
      BY <3>1, <3>3, <3>5
    <3>9. QED
      BY <1>1, <1>3, <1>7, <3>1, <3>3, <3>7, <3>8
      DEF TypeOK, IInv, DeliveredWasReceived
  <2>3. QED
    BY <2>1, <2>2
<1> HIDE DEF c
<1>10. /\ DueWithout(c.id) \in Seq(Delivery)
       /\ \A k \in 1..Len(DueWithout(c.id)) :
             /\ DueWithout(c.id)[k] # c.id
             /\ \E i \in 1..Len(due) : due[i] = DueWithout(c.id)[k]
       /\ \A k, l \in 1..Len(DueWithout(c.id)) :
             DueWithout(c.id)[k] = DueWithout(c.id)[l] => k = l
  BY <1>1, DueWithoutProperties DEF TypeOK, DueInv
<1>11. TypeOK'
  BY <1>1, <1>5, <1>6, <1>7, <1>8, <1>9, <1>10 DEF TypeOK
<1>12. DueInv'
  <2>1. ASSUME NEW d \in Delivery, d # c.id, Pending(d) PROVE Pending(d)'
    BY <1>7, <1>9, <2>1 DEF Pending
  <2>2. ASSUME NEW k \in 1..Len(due') PROVE Pending(due[k])'
    <3>1. PICK i \in 1..Len(due) : due[i] = due'[k] /\ due'[k] # c.id
      BY <1>8, <1>10, <2>2
    <3>2. due'[k] \in Delivery /\ Pending(due[i])
      BY <1>1, <3>1, ElementOfSeq DEF TypeOK, DueInv
    <3>3. QED
      BY <1>7, <1>9, <3>1, <3>2 DEF Pending
  <2>3. \A d \in Delivery \ stored' : attempts'[d] = 0
    BY <1>1, <1>3, <1>7, <1>9 DEF DueInv
  <2>4. QED
    BY <1>8, <1>10, <2>2, <2>3 DEF DueInv
<1>13. Informed(f)'
  <2>1. ASSUME NEW i \in 1..Len(Tail(listed[f]))
        PROVE  /\ Tail(listed[f])[i].id \in stored
               /\ Tail(listed[f])[i].attempts <=
                     failures[Tail(listed[f])[i].id]
    BY <1>1, <1>2, ListProperties DEF Informed
  <2>2. QED
    BY <1>5, <1>6, <1>7, <2>1 DEF Informed
<1>14. \A d \in Delivery : /\ failures[d] <= failures'[d]
                           /\ attempts'[d] <= failures'[d]
  <2>1. ASSUME NEW d \in Delivery, d # c.id
        PROVE  attempts'[d] <= failures'[d]
    BY <1>7, <1>9, <2>1 DEF IInv, CountInv
  <2>2. QED
    BY <1>1, <1>7, <1>9, <2>1 DEF TypeOK
<1>15. StepInv' /\ CountInv'
  BY <1>5, <1>6, <1>7, <1>11, <1>13, <1>14, StepOf
<1>16. DeliveredWasReceived'
  BY <1>9 DEF DeliveredWasReceived
<1>17. QED
  BY <1>11, <1>12, <1>15, <1>16 DEF IInv

\* A delivery joins the due ones, and perhaps the table.
LEMMA JoinStep ==
    ASSUME IInv, NEW d \in Delivery,
           due' = Append(due, d), \A i \in 1..Len(due) : due[i] # d,
           stored' = stored \cup {d}, d \notin delivered,
           attempts[d] < MaxAttempts,
           pc' \in [Flusher -> PcState],
           \A f \in Flusher : pc'[f] = pc[f] \/ pc'[f] = "list",
           UNCHANGED <<delivered, attempts, listed, accepting, received,
                       failures>>
    PROVE  IInv'
<1>1. TypeOK /\ DueInv /\ \A f \in Flusher : Informed(f)
  BY InformedAll DEF IInv
<1>2. /\ Append(due, d) \in Seq(Delivery)
      /\ \A k \in 1..Len(Append(due, d)) :
            \/ Append(due, d)[k] = d
            \/ \E i \in 1..Len(due) : due[i] = Append(due, d)[k]
      /\ \A k, l \in 1..Len(Append(due, d)) :
            Append(due, d)[k] = Append(due, d)[l] => k = l
  BY <1>1, DueAppendProperties DEF TypeOK, DueInv
<1>3. TypeOK'
  BY <1>1, <1>2 DEF TypeOK
<1>4. DueInv'
  <2>1. ASSUME NEW k \in 1..Len(due') PROVE Pending(due[k])'
    BY <1>1, <1>2, <2>1 DEF DueInv, Pending
  <2>2. \A e \in Delivery \ stored' : attempts'[e] = 0
    BY <1>1 DEF DueInv
  <2>3. QED
    BY <1>2, <2>1, <2>2 DEF DueInv
<1>5. CountInv' /\ StepInv'
  <2>1. CountInv'
    BY DEF IInv, CountInv
  <2>2. \A f \in Flusher : Current(f)' = Current(f)
    BY DEF Current
  <2>3. StepInv'
    BY <2>2 DEF IInv, StepInv
  <2>4. QED
    BY <2>1, <2>3
<1>6. QED
  BY <1>3, <1>4, <1>5 DEF IInv, DeliveredWasReceived

LEMMA NextIInv == IInv /\ [Next]_vars => IInv'
<1> SUFFICES ASSUME IInv, [Next]_vars PROVE IInv'
  OBVIOUS
<1>0. TypeOK /\ DueInv
  BY DEF IInv
<1>1. CASE \E f \in Flusher : QueueIncident(f)
  <2>1. PICK f \in Flusher : QueueIncident(f)
    BY <1>1
  <2>2. PICK d \in Delivery \ stored :
           stored' = stored \cup {d} /\ due' = Append(due, d)
    BY <2>1 DEF QueueIncident
  <2>3. /\ d \notin delivered /\ \A i \in 1..Len(due) : due[i] # d
    BY <1>0, <2>2 DEF TypeOK, DueInv, Pending
  <2>4. attempts[d] < MaxAttempts
    BY <1>0, <2>2 DEF DueInv
  <2>5. /\ pc' \in [Flusher -> PcState]
        /\ \A g \in Flusher : pc'[g] = pc[g] \/ pc'[g] = "list"
    BY <1>0, <2>1 DEF QueueIncident, TypeOK, PcState
  <2>6. UNCHANGED <<delivered, attempts, listed, accepting, received,
                    failures>>
    BY <2>1 DEF QueueIncident, worldVars
  <2>7. QED
    BY <2>2, <2>3, <2>4, <2>5, <2>6, JoinStep
<1>2. CASE \E d \in Delivery : BecomeDue(d)
  <2>1. PICK d \in Delivery : BecomeDue(d)
    BY <1>2
  <2>2. /\ stored' = stored \cup {d} /\ d \notin delivered
        /\ attempts[d] < MaxAttempts
        /\ due' = Append(due, d) /\ \A i \in 1..Len(due) : due[i] # d
    BY <2>1 DEF BecomeDue, Pending, Contains
  <2>3. UNCHANGED <<delivered, attempts, listed, accepting, received,
                    failures, pc>>
    BY <2>1 DEF BecomeDue, worldVars
  <2>4. QED
    BY <1>0, <2>2, <2>3, JoinStep DEF TypeOK
<1>3. CASE \E f \in Flusher : FlushStep(f) \/ Kill(f)
  BY <1>3, QuietStep, ListStep, SendStep, MarkStep DEF FlushStep
<1>4. CASE UNCHANGED vars
  BY <1>4 DEF vars, IInv, TypeOK, DueInv, CountInv, StepInv, Pending,
       Current, DeliveredWasReceived
<1>5. CASE SwitchDashboard
  BY <1>5 DEF SwitchDashboard, rowVars, IInv, TypeOK, DueInv, CountInv,
       StepInv, Pending, Current, DeliveredWasReceived
<1>6. QED
  BY <1>1, <1>2, <1>3, <1>4, <1>5 DEF Next

THEOREM InductiveInvariant == Spec => []IInv
BY InitIInv, NextIInv, PTL DEF Spec

\* An incident is recorded as announced only when the receiver got it,
\* however many processes flush the queue and whatever fails.
THEOREM DeliveredReceived == Spec => []DeliveredWasReceived
<1>1. IInv => DeliveredWasReceived
  BY DEF IInv
<1>2. QED
  BY <1>1, InductiveInvariant, PTL

\* An incident is given up only after MaxAttempts failed attempts, although
\* the processes overwrite each other's counts.
THEOREM GivenUpTried == Spec => []GivenUpWasTried
<1>1. IInv => GivenUpWasTried
  <2> SUFFICES ASSUME IInv, NEW d \in Delivery, GivenUp(d)
               PROVE  failures[d] = MaxAttempts
    BY DEF GivenUpWasTried
  <2>1. attempts[d] <= failures[d] /\ attempts[d] >= MaxAttempts
    BY DEF IInv, CountInv, GivenUp
  <2>2. failures[d] \in 0..MaxAttempts /\ attempts[d] \in 0..MaxAttempts
    BY DEF IInv, TypeOK
  <2>3. QED
    BY <2>1, <2>2
<1>2. QED
  BY <1>1, InductiveInvariant, PTL

\* The columns and the processes' copies keep their types: the list of due
\* deliveries stays one of deliveries and no count passes the limit.
THEOREM TypeCorrect == Spec => []TypeOK
<1>1. IInv => TypeOK
  BY DEF IInv
<1>2. QED
  BY <1>1, InductiveInvariant, PTL

=============================================================================
