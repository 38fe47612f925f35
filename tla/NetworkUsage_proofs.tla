------------------------ MODULE NetworkUsage_proofs ------------------------
(***************************************************************************)
(* Proofs about the count of bytes: for any interfaces, months and bounds, *)
(* as long as one process at a time reads and stores.                      *)
(***************************************************************************)
EXTENDS NetworkUsage, TLAPS

OneSampler == \A s, t \in Sampler : s = t

Current(i) == [ts |-> now, iface |-> i, count |-> counter[i], at |-> moved]

\* Reading r was taken after reading a, and the difference between them,
\* or the counter of r if it has started over, was moved in between.
Leads(a, r) ==
    /\ a.at <= r.at
    /\ a.iface = r.iface =>
         IF r.count >= a.count THEN r.count - a.count <= r.at - a.at
                               ELSE r.count <= r.at - a.at

\* A row's reading is of its month.
RowsInMonth ==
    \A m \in Month : ~None(last[m]) => MonthOf[last[m].ts] = m

\* There is a latest reading.
HasLatest == \E m \in Month : Latest(last[m])

\* What is counted had been moved by the time of the latest reading, and
\* whatever is read or held now comes after it.
LatestCovers ==
    \A m \in Month : Latest(last[m]) =>
        /\ counted <= last[m].at
        /\ \A s \in Sampler : ~None(held[s]) => Leads(last[m], held[s])
        /\ \A i \in Iface : Leads(last[m], Current(i))

HeldLeads ==
    \A s \in Sampler, i \in Iface :
        ~None(held[s]) => Leads(held[s], Current(i))

IInv == TypeOK /\ RowsInMonth /\ HasLatest /\ LatestCovers /\ HeldLeads

LEMMA ReadingType ==
    ASSUME NEW r \in Reading \cup {NoReading}
    PROVE  /\ r.ts \in Nat /\ r.count \in Nat /\ r.at \in Nat
           /\ None(r) => r = NoReading
           /\ ~None(r) => r \in Reading /\ r.ts \in Time /\ r.iface \in Iface
<1>1. CASE r \in Reading
  <2>1. r.ts \in Time /\ r.iface \in Iface /\ r.count \in Nat /\ r.at \in Nat
    BY <1>1 DEF Reading
  <2>2. r.ts \in Nat /\ r.ts # 0
    BY <2>1, UsageAssumption DEF Time
  <2>3. QED
    BY <1>1, <2>1, <2>2 DEF None
<1>2. CASE r = NoReading
  <2>1. r.ts = 0 /\ r.count = 0 /\ r.at = 0
    BY <1>2 DEF NoReading
  <2>2. QED
    BY <1>2, <2>1 DEF None
<1>3. QED
  BY <1>1, <1>2

LEMMA MonthType ==
    ASSUME NEW t \in Time PROVE MonthOf[t] \in Month /\ MonthOf[t] \in Nat
<1>1. MonthOf[t] \in Nat
  BY UsageAssumption
<1>2. MonthOf[t] \in Month
  BY DEF Month
<1>3. QED
  BY <1>1, <1>2

LEMMA NothingRead ==
    /\ None(NoReading)
    /\ NoReading.ts = 0 /\ NoReading.count = 0 /\ NoReading.at = 0
BY DEF None, NoReading

\* Times of different months are ordered as the months are.
LEMMA MonthOrder ==
    ASSUME NEW s \in Time, NEW t \in Time, MonthOf[s] < MonthOf[t]
    PROVE  s < t
<1>1. s \in Nat /\ t \in Nat
  BY UsageAssumption DEF Time
<1>2. MonthOf[s] \in Nat /\ MonthOf[t] \in Nat
  BY MonthType
<1>3. t <= s => MonthOf[t] <= MonthOf[s]
  BY UsageAssumption
<1>4. QED
  BY <1>1, <1>2, <1>3

\* Only one row holds the latest reading.
LEMMA OneLatest ==
    ASSUME TypeOK, RowsInMonth, NEW m \in Month, NEW n \in Month,
           Latest(last[m]), Latest(last[n])
    PROVE  last[m] = last[n]
<1>1. /\ last[m] \in Reading \cup {NoReading}
      /\ last[n] \in Reading \cup {NoReading}
  BY DEF TypeOK
<1>2. last[m].ts <= last[n].ts /\ last[n].ts <= last[m].ts
  BY DEF Latest
<1>3. last[m].ts = last[n].ts
  BY <1>1, <1>2, ReadingType
<1>4. CASE None(last[m])
  BY <1>1, <1>3, <1>4, ReadingType DEF None
<1>5. CASE ~None(last[m])
  BY <1>3, <1>5 DEF RowsInMonth, None
<1>6. QED
  BY <1>4, <1>5

LEMMA BaselineIsLatest ==
    ASSUME TypeOK, RowsInMonth, HasLatest, NEW r
    PROVE  \E k \in Month : Latest(last[k]) /\ Baseline(r) = last[k]
<1>1. \E b \in {last[m] : m \in Month} : Latest(b)
  BY DEF HasLatest
<1>2. Baseline(r) \in {last[m] : m \in Month} /\ Latest(Baseline(r))
  BY <1>1 DEF Baseline
<1>3. QED
  BY <1>2

LEMMA InitIInv == Init => IInv
<1> SUFFICES ASSUME Init PROVE IInv
  OBVIOUS
<1>1. /\ now \in Time /\ route \in Iface
      /\ counter = [i \in Iface |-> 0]
      /\ moved = 0 /\ counted = 0
      /\ held = [s \in Sampler |-> NoReading]
      /\ last = [m \in Month |-> NoReading]
  BY DEF Init
<1> HIDE DEF Init
<1>2. TypeOK
  BY <1>1, UsageAssumption DEF TypeOK
<1>3. \A m \in Month : last[m] = NoReading
  BY <1>1
<1>4. \A s \in Sampler : None(held[s])
  BY <1>1, NothingRead
<1>5. RowsInMonth
  BY <1>3, NothingRead DEF RowsInMonth
<1>6. HasLatest
  <2>1. MonthOf[now] \in Month
    BY <1>1, MonthType
  <2>2. \A m, n \in Month : last[n].ts <= last[m].ts
    BY <1>3, NothingRead
  <2>3. QED
    BY <2>1, <2>2 DEF HasLatest, Latest
<1>7. LatestCovers
  <2>1. \A i \in Iface : /\ Current(i).at = 0
                         /\ Current(i).count = 0
    BY <1>1 DEF Current
  <2>2. \A i \in Iface : Leads(NoReading, Current(i))
    BY <2>1, NothingRead DEF Leads
  <2>3. QED
    BY <1>1, <1>3, <1>4, <2>2, NothingRead DEF LatestCovers
<1>8. HeldLeads
  BY <1>4 DEF HeldLeads
<1>9. QED
  BY <1>2, <1>5, <1>6, <1>7, <1>8 DEF IInv

\* A process takes a reading.
LEMMA ReadIInv == ASSUME IInv, NEW s \in Sampler, Read(s) PROVE IInv'
<1> USE DEF IInv
<1>1. /\ held[s]' = Current(route)
      /\ \A t \in Sampler : t # s => held'[t] = held[t]
      /\ UNCHANGED <<now, route, counter, moved, last, counted>>
  BY DEF Read, TypeOK, Current
<1>2. Current(route) \in Reading
  BY DEF Current, Reading, TypeOK
<1>3. TypeOK'
  BY <1>1, <1>2 DEF Read, TypeOK, Current
<1>4. RowsInMonth' /\ HasLatest'
  BY <1>1 DEF RowsInMonth, HasLatest, Latest
<1>5. \A i \in Iface : Leads(Current(route), Current(i))
  BY DEF Leads, Current, TypeOK
<1>6. \A i : Current(i)' = Current(i)
  BY <1>1 DEF Current
<1>7. HeldLeads'
  BY <1>1, <1>5, <1>6 DEF HeldLeads
<1>8. LatestCovers'
  <2>1. route \in Iface
    BY DEF TypeOK
  <2>2. \A m \in Month : Latest(last[m])' <=> Latest(last[m])
    BY <1>1 DEF Latest
  <2>3. QED
    BY <1>1, <1>6, <2>1, <2>2 DEF LatestCovers
<1>9. QED
  BY <1>3, <1>4, <1>7, <1>8

\* A process stores its reading, the only one held.
LEMMA SaveIInv ==
    ASSUME IInv, OneSampler, NEW s \in Sampler, Save(s)
    PROVE  IInv'
<1> DEFINE r == held[s]
           k == MonthOf[r.ts]
<1>1. /\ TypeOK /\ RowsInMonth /\ HasLatest /\ LatestCovers /\ HeldLeads
  BY DEF IInv
<1>2. /\ r \in Reading /\ r.ts \in Time /\ r.ts \in Nat /\ r.ts > 0
      /\ r.count \in Nat /\ r.at \in Nat /\ ~None(r)
  <2>1. r \in Reading \cup {NoReading} /\ ~None(r)
    BY <1>1 DEF TypeOK, Save
  <2>2. QED
    BY <2>1, ReadingType DEF Time
<1>3. k \in Month /\ k \in Nat
  BY <1>2, MonthType
<1>4. PICK j \in Month : Latest(last[j]) /\ Baseline(r) = last[j]
  BY <1>1, BaselineIsLatest
<1> DEFINE b == last[j]
           gain == Gain(b, r)
<1>5. /\ b \in Reading \cup {NoReading}
      /\ b.ts \in Nat /\ b.count \in Nat /\ b.at \in Nat
  BY <1>1, ReadingType DEF TypeOK
<1>6. /\ last' = [last EXCEPT ![k] = r]
      /\ counted' = counted + gain
      /\ held' = [held EXCEPT ![s] = NoReading]
      /\ UNCHANGED <<now, route, counter, moved>>
  BY <1>4 DEF Save, Drop
<1>7. /\ counted \in Nat /\ moved \in Nat /\ counted <= b.at
      /\ Leads(b, r)
  BY <1>1, <1>2, <1>4, UsageAssumption DEF LatestCovers, TypeOK
<1> HIDE DEF r, k, b
<1>8. gain \in Nat /\ counted + gain <= r.at
  BY <1>2, <1>5, <1>7 DEF Gain, Leads
<1>9. r.ts <= b.ts => gain = 0
  BY <1>2, <1>5 DEF Gain
<1>10. /\ last'[k] = r
       /\ \A m \in Month : m # k => last'[m] = last[m]
  BY <1>1, <1>3, <1>6 DEF TypeOK
<1>11. /\ k = MonthOf[r.ts]
       /\ \A m \in Month : /\ last[m] \in Reading \cup {NoReading}
                          /\ last[m].ts \in Nat
  BY <1>1, ReadingType DEF k, TypeOK
<1> HIDE DEF gain
<1>12. TypeOK'
  BY <1>1, <1>2, <1>3, <1>6, <1>7, <1>8 DEF TypeOK
<1>13. RowsInMonth'
  BY <1>1, <1>10, <1>11 DEF RowsInMonth
\* The rows of other months, seen from the new reading.
<1>14. ASSUME NEW m \in Month, m # k, ~None(last[m]), m < k
       PROVE  last[m].ts < r.ts
  <2>1. last[m].ts \in Time /\ MonthOf[last[m].ts] = m
    BY <1>1, <1>11, <1>14, ReadingType DEF RowsInMonth
  <2>2. QED
    BY <1>2, <1>11, <1>14, <2>1, MonthOrder
<1>15. \A m \in Month : Latest(last[m]) => last[m] = b
  BY <1>1, <1>4, OneLatest DEF b
<1>16. \A m \in Month : m \in Nat
  BY UsageAssumption DEF Month
\* A row of another month that is the latest now was so before.
<1>17. ASSUME NEW m \in Month, m # k, Latest(last[m])'
       PROVE  Latest(last[m]) /\ last'[m] = b /\ gain = 0
  <2>1. last'[m] = last[m] /\ r.ts <= last[m].ts
    BY <1>3, <1>10, <1>17 DEF Latest
  <2>2. ~None(last[m]) /\ last[m].ts \in Time /\ MonthOf[last[m].ts] = m
    <3>1. ~None(last[m])
      BY <1>2, <1>11, <2>1 DEF None
    <3>2. QED
      BY <1>1, <1>11, <3>1, ReadingType DEF RowsInMonth
  <2>3. k < m
    <3>1. k <= m
      BY <1>2, <1>11, <2>1, <2>2, UsageAssumption
    <3>2. QED
      BY <1>3, <1>16, <1>17, <3>1
  <2>4. last[k].ts <= last[m].ts
    <3>1. CASE None(last[k])
      BY <1>3, <1>11, <3>1 DEF None
    <3>2. CASE ~None(last[k])
      <4>1. last[k].ts \in Time /\ MonthOf[last[k].ts] = k
        BY <1>1, <1>3, <1>11, <3>2, ReadingType DEF RowsInMonth
      <4>2. last[k].ts < last[m].ts
        BY <2>2, <2>3, <4>1, MonthOrder
      <4>3. QED
        BY <1>3, <1>11, <4>2
    <3>3. QED
      BY <3>1, <3>2
  <2>5. \A n \in Month : n # k => last[n].ts <= last[m].ts
    BY <1>10, <1>17, <2>1 DEF Latest
  <2>6. Latest(last[m])
    BY <2>4, <2>5 DEF Latest
  <2>7. QED
    BY <1>9, <1>15, <2>1, <2>6
<1>18. HasLatest'
  <2>1. CASE r.ts <= b.ts /\ j # k
    <3>1. \A n \in Month : last'[n].ts <= last'[j].ts
      BY <1>4, <1>10, <2>1 DEF Latest, b
    <3>2. QED
      BY <3>1 DEF HasLatest, Latest
  <2>2. CASE b.ts < r.ts
    <3>1. \A n \in Month : last'[n].ts <= r.ts
      BY <1>2, <1>4, <1>5, <1>10, <1>11, <2>2 DEF Latest, b
    <3>2. QED
      BY <1>3, <1>10, <3>1 DEF HasLatest, Latest
  <2>3. CASE j = k
    <3>1. ASSUME NEW n \in Month, n # k PROVE last[n].ts <= r.ts
      <4>1. CASE None(last[n])
        BY <1>2, <1>11, <4>1 DEF None
      <4>2. CASE ~None(last[n])
        <5>1. last[n].ts <= b.ts /\ last[n].ts # 0
          BY <1>4, <4>2 DEF Latest, b, None
        <5>2. ~None(b) /\ b.ts \in Time /\ MonthOf[b.ts] = k
          <6>1. ~None(b)
            BY <1>5, <1>11, <5>1 DEF None
          <6>2. QED
            BY <1>1, <1>5, <2>3, <6>1, ReadingType DEF RowsInMonth, b
        <5>3. last[n].ts \in Time /\ MonthOf[last[n].ts] = n
          BY <1>1, <1>11, <4>2, ReadingType DEF RowsInMonth
        <5>4. n <= k
          BY <5>1, <5>2, <5>3, UsageAssumption
        <5>5. n < k
          BY <1>3, <1>16, <3>1, <5>4
        <5>6. QED
          BY <1>2, <1>11, <1>14, <3>1, <4>2, <5>5
      <4>3. QED
        BY <4>1, <4>2
    <3>2. \A n \in Month : last'[n].ts <= r.ts
      BY <1>2, <1>10, <3>1
    <3>3. QED
      BY <1>3, <1>10, <3>2 DEF HasLatest, Latest
  <2>4. QED
    BY <1>2, <1>5, <2>1, <2>2, <2>3
<1>19. \A t \in Sampler : None(held'[t])
  BY <1>1, <1>6, NothingRead DEF OneSampler, TypeOK
<1>20. \A i : Current(i)' = Current(i)
  BY <1>6 DEF Current
<1>21. \A i \in Iface : Leads(r, Current(i))
  BY <1>1, <1>2 DEF HeldLeads, r
<1>22. LatestCovers'
  <2> SUFFICES ASSUME NEW m \in Month, Latest(last[m])'
               PROVE  /\ counted' <= last'[m].at
                      /\ \A i \in Iface : Leads(last'[m], Current(i))
    BY <1>19, <1>20 DEF LatestCovers
  <2>1. CASE m = k
    BY <1>6, <1>8, <1>10, <1>21, <2>1
  <2>2. CASE m # k
    <3>1. Latest(last[m]) /\ last'[m] = b /\ last'[m] = last[m] /\ gain = 0
      BY <1>10, <1>17, <2>2
    <3>2. \A i \in Iface : Leads(last[m], Current(i))
      BY <1>1, <3>1 DEF LatestCovers
    <3>3. QED
      BY <1>6, <1>7, <3>1, <3>2
  <2>3. QED
    BY <2>1, <2>2
<1>23. HeldLeads'
  BY <1>19 DEF HeldLeads
<1>24. QED
  BY <1>12, <1>13, <1>18, <1>22, <1>23 DEF IInv

\* Steps that leave the readings in place, but for some held ones dropped,
\* and make every counter lead what it led before.
LEMMA WorldSteps ==
    ASSUME IInv, TypeOK',
           last' = last, counted' = counted,
           \A s \in Sampler : held'[s] = held[s] \/ None(held'[s]),
           \A a \in Reading \cup {NoReading}, i \in Iface :
               Leads(a, Current(i)) => Leads(a, Current(i)')
    PROVE  IInv'
<1>1. TypeOK /\ RowsInMonth /\ HasLatest /\ LatestCovers /\ HeldLeads
  BY DEF IInv
<1>2. RowsInMonth' /\ HasLatest'
  BY <1>1 DEF RowsInMonth, HasLatest, Latest
<1>3. \A m \in Month : Latest(last[m])' <=> Latest(last[m])
  BY DEF Latest
<1>4. /\ \A m \in Month : last[m] \in Reading \cup {NoReading}
      /\ \A s \in Sampler : held[s] \in Reading \cup {NoReading}
  BY <1>1 DEF TypeOK
<1>5. LatestCovers'
  BY <1>1, <1>3, <1>4 DEF LatestCovers
<1>6. HeldLeads'
  BY <1>1, <1>4 DEF HeldLeads
<1>7. QED
  BY <1>1, <1>2, <1>5, <1>6 DEF IInv

\* What was moved leads what is moved, wherever a counter starts over.
LEMMA MoveLeads ==
    ASSUME IInv, NEW a \in Reading \cup {NoReading}, NEW i \in Iface,
           Leads(a, Current(i)),
           moved' \in Nat, counter'[i] \in Nat,
           \/ counter'[i] = 0 /\ moved' = moved
           \/ counter'[i] = counter[i] /\ moved <= moved'
           \/ counter'[i] = counter[i] + 1 /\ moved' = moved + 1
    PROVE  Leads(a, Current(i)')
<1>1. /\ Current(i).iface = i /\ Current(i).count = counter[i]
      /\ Current(i).at = moved
      /\ Current(i)'.iface = i /\ Current(i)'.count = counter'[i]
      /\ Current(i)'.at = moved'
  BY DEF Current
<1>2. a.count \in Nat /\ a.at \in Nat
  BY ReadingType
<1>3. moved \in Nat /\ counter[i] \in Nat
  BY UsageAssumption DEF IInv, TypeOK
<1>4. QED
  BY <1>1, <1>2, <1>3 DEF Leads

LEMMA OtherIInv ==
    ASSUME IInv,
           \/ \E s \in Sampler : Lose(s)
           \/ \E i \in Iface : MoveByte(i) \/ ResetCounter(i)
           \/ SetClock \/ Reboot \/ Reroute
    PROVE  IInv'
<1>0. TypeOK
  BY DEF IInv
<1>1. CASE \E s \in Sampler : Lose(s)
  <2> PICK s \in Sampler : Lose(s)
    BY <1>1
  <2>1. TypeOK'
    BY <1>0 DEF TypeOK, Lose, Drop
  <2>2. \A t \in Sampler : held'[t] = held[t] \/ None(held'[t])
    BY <1>0, NothingRead DEF TypeOK, Lose, Drop
  <2>3. \A i : Current(i)' = Current(i)
    BY DEF Lose, Current
  <2>4. last' = last /\ counted' = counted
    BY DEF Lose
  <2>5. QED
    BY <2>1, <2>2, <2>3, <2>4, WorldSteps
<1>2. CASE \E i \in Iface : MoveByte(i) \/ ResetCounter(i)
  <2> PICK i \in Iface : MoveByte(i) \/ ResetCounter(i)
    BY <1>2
  <2>1. TypeOK'
    <3>1. moved' \in 0..MaxMoved
      BY <1>0, UsageAssumption DEF TypeOK, MoveByte, ResetCounter
    <3>2. QED
      BY <1>0, <3>1 DEF TypeOK, MoveByte, ResetCounter
  <2>2. last' = last /\ counted' = counted /\ held' = held
    BY DEF MoveByte, ResetCounter
  <2>3. ASSUME NEW a \in Reading \cup {NoReading}, NEW j \in Iface,
               Leads(a, Current(j))
        PROVE  Leads(a, Current(j)')
    <3>1. moved \in Nat /\ moved' \in Nat /\ counter'[j] \in Nat
      BY <1>0, <2>1, UsageAssumption DEF TypeOK
    <3>2. \/ counter'[j] = 0 /\ moved' = moved
          \/ counter'[j] = counter[j] /\ moved <= moved'
          \/ counter'[j] = counter[j] + 1 /\ moved' = moved + 1
      BY <1>0, <3>1 DEF TypeOK, MoveByte, ResetCounter
    <3>3. QED
      BY <2>3, <3>1, <3>2, MoveLeads
  <2>4. QED
    BY <2>1, <2>2, <2>3, WorldSteps
<1>3. CASE SetClock \/ Reroute
  <2>1. TypeOK'
    BY <1>0, <1>3 DEF TypeOK, SetClock, Reroute
  <2>2. UNCHANGED <<counter, moved, held, last, counted>>
    BY <1>3 DEF SetClock, Reroute
  <2>3. ASSUME NEW a \in Reading \cup {NoReading}, NEW j \in Iface,
               Leads(a, Current(j))
        PROVE  Leads(a, Current(j)')
    BY <2>2, <2>3 DEF Leads, Current
  <2>4. QED
    BY <2>1, <2>2, <2>3, WorldSteps
<1>4. CASE Reboot
  <2>1. TypeOK'
    BY <1>0, <1>4 DEF TypeOK, Reboot
  <2>2. last' = last /\ counted' = counted /\ moved' = moved
    BY <1>4 DEF Reboot
  <2>3. \A s \in Sampler : None(held'[s])
    BY <1>4, NothingRead DEF Reboot
  <2>4. ASSUME NEW a \in Reading \cup {NoReading}, NEW j \in Iface,
               Leads(a, Current(j))
        PROVE  Leads(a, Current(j)')
    <3>1. moved' \in Nat /\ counter'[j] = 0
      BY <1>0, <1>4, <2>2, UsageAssumption DEF TypeOK, Reboot
    <3>2. QED
      BY <2>2, <2>4, <3>1, MoveLeads
  <2>5. QED
    BY <2>1, <2>2, <2>3, <2>4, WorldSteps
<1>5. QED
  BY <1>1, <1>2, <1>3, <1>4

LEMMA NextIInv == OneSampler /\ IInv /\ [Next]_vars => IInv'
<1> SUFFICES ASSUME OneSampler, IInv, [Next]_vars PROVE IInv'
  OBVIOUS
<1>1. CASE Next
  BY <1>1, ReadIInv, SaveIInv, OtherIInv DEF Next
<1>2. CASE UNCHANGED vars
  BY <1>2 DEF vars, IInv, TypeOK, RowsInMonth, HasLatest, LatestCovers,
       HeldLeads, Latest, Leads, Current
<1>3. QED
  BY <1>1, <1>2

\* IInv holds as long as there is one process.
THEOREM InductiveInvariant == ASSUME OneSampler PROVE Spec => []IInv
<1>1. IInv /\ [Next]_vars => IInv'
  BY NextIInv
<1>2. QED
  BY <1>1, InitIInv, PTL DEF Spec

\* No byte is counted twice, whatever happens to the clock, the counters and
\* the route between a reading and its transaction.
THEOREM UsageMoved == ASSUME OneSampler PROVE Spec => []UsageIsMoved
<1>1. IInv => UsageIsMoved
  <2> SUFFICES ASSUME IInv PROVE counted <= moved
    BY DEF UsageIsMoved
  <2>1. PICK m \in Month : Latest(last[m])
    BY DEF IInv, HasLatest
  <2>2. route \in Iface /\ counted <= last[m].at
        /\ Leads(last[m], Current(route))
    BY <2>1 DEF IInv, TypeOK, LatestCovers
  <2>3. last[m].at \in Nat /\ last[m].at <= moved
    BY <2>2, ReadingType DEF IInv, TypeOK, Leads, Current
  <2>4. QED
    BY <2>2, <2>3, UsageAssumption DEF IInv, TypeOK
<1>2. QED
  BY <1>1, InductiveInvariant, PTL

\* The rows and the readings keep their types: in particular no total becomes
\* negative, whatever the counters do.
THEOREM TypeCorrect == ASSUME OneSampler PROVE Spec => []TypeOK
<1>1. IInv => TypeOK
  BY DEF IInv
<1>2. QED
  BY <1>1, InductiveInvariant, PTL

=============================================================================
