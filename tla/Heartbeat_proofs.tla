-------------------------- MODULE Heartbeat_proofs --------------------------
(***************************************************************************)
(* Proofs about the heartbeat's egress budget and its marks: for any       *)
(* number of senders, sections, intervals, limits and sizes.               *)
(***************************************************************************)
EXTENDS Heartbeat, FiniteSetTheorems, TLAPS

\* The whole state has its type.
Typed ==
    /\ TypeOK
    /\ marks \in [Mark -> Nat]
    /\ known \in [Sender -> [Mark -> Nat]]
    /\ \A p \in Sender : \A m \in Mark : known[p][m] <= Interval[m]
    /\ tried \in [Section -> Nat]
    /\ \A s \in Section : tried[s] <= Interval[s]
    /\ shown \in [Section -> BOOLEAN]

LEMMA PlusType ==
    ASSUME NEW a \in Nat, NEW b \in Nat
    PROVE  /\ Plus(a, b) \in 0..MaxCount
           /\ Plus(a, b) \in Nat
           /\ Plus(a, b) = a + b \/ (Plus(a, b) = MaxCount /\ a + b > MaxCount)
BY HeartbeatAssumption DEF Plus

LEMMA NoBeatType == NoBeat \in Beat
BY DEF NoBeat, Beat, Mode, Kind

LEMMA BeatWith ==
    ASSUME NEW b \in Beat
    PROVE  /\ \A n \in Nat : [b EXCEPT !.bytes = n] \in Beat
           /\ \A w \in Window \cup {NoWindow} : [b EXCEPT !.answer = w] \in Beat
BY DEF Beat

LEMMA SizeType == ASSUME NEW k PROVE Size(k) \in Nat
BY HeartbeatAssumption DEF Size

LEMMA InitTyped == Init => Typed
<1> SUFFICES ASSUME Init PROVE Typed
  OBVIOUS
<1>1. Interval \in [Mark -> Nat] /\ Section \subseteq Mark /\ MaxCount \in Nat
  BY HeartbeatAssumption DEF Mark
<1>2. beat \in [Sender -> Beat]
  BY NoBeatType DEF Init
<1>3. TypeOK
  BY <1>1, <1>2 DEF Init, TypeOK, Control
<1>4. QED
  BY <1>1, <1>3 DEF Init, Typed, Fresh

LEMMA HeartbeatTyped ==
    ASSUME Typed, NEW p \in Sender, HeartbeatStep(p) PROVE Typed'
<1> USE HeartbeatAssumption, NoBeatType, SizeType DEF Typed, Go
<1>0. Section \subseteq Mark /\ Interval \in [Mark -> Nat] /\ MaxCount \in Nat
      /\ PulseSize \in Nat
  BY DEF Mark
<1>b. beat[p] \in Beat /\ pc[p] \in Control
  BY DEF TypeOK
<1>1. CASE Begin(p)
  <2>1. ModeNow \in Mode
    BY DEF ModeNow, Mode
  <2>2. \A k \in {"pulse", "minimal", "live"} : \A b \in BOOLEAN :
           [NoBeat EXCEPT !.mode = ModeNow, !.kind = k, !.polls = b] \in Beat
    BY <2>1 DEF Beat, Kind, NoBeat
  <2>3. beat' \in [Sender -> Beat]
    BY <1>1, <2>2 DEF Begin, Due, TypeOK
  <2>4. pc' \in [Sender -> Control]
    BY <1>1 DEF Begin, TypeOK, Control
  <2>5. QED
    BY <1>1, <2>3, <2>4 DEF Begin, TypeOK, files, ghosts
<1>2. CASE Collect(p)
  <2>1. PICK ready \in SUBSET {s \in Section : Due(s)} :
          LET carries == IF beat[p].mode = "slim" THEN {} ELSE ready
          IN /\ beat' = [beat EXCEPT ![p].carries = carries]
             /\ known' = [known EXCEPT ![p] =
                   [m \in Mark |-> IF m \in carries THEN 0 ELSE marks[m]]]
             /\ tried' =
                   [s \in Section |-> IF s \in carries THEN 0 ELSE tried[s]]
    BY <1>2 DEF Collect
  <2> DEFINE carries == IF beat[p].mode = "slim" THEN {} ELSE ready
  <2>2. carries \subseteq Section
    OBVIOUS
  <2>3. beat' \in [Sender -> Beat]
    <3>1. [beat[p] EXCEPT !.carries = carries] \in Beat
      BY <1>b, <2>2 DEF Beat
    <3>2. beat' = [beat EXCEPT ![p] = [beat[p] EXCEPT !.carries = carries]]
      BY <2>1 DEF TypeOK
    <3>3. QED
      BY <3>1, <3>2 DEF TypeOK
  <2>4. \A m \in Mark : marks[m] \in Nat /\ marks[m] <= Interval[m]
    BY <1>0 DEF TypeOK
  <2>5. /\ known' \in [Sender -> [Mark -> Nat]]
        /\ \A q \in Sender : \A m \in Mark : known'[q][m] <= Interval[m]
    BY <1>0, <2>1, <2>4
  <2>6. /\ tried' \in [Section -> Nat]
        /\ \A s \in Section : tried'[s] <= Interval[s]
    BY <1>0, <2>1
  <2>7. QED
    BY <1>2, <2>3, <2>5, <2>6 DEF Collect, TypeOK, files, Control
<1>3. CASE SaveMarks(p)
  <2>1. /\ \A m \in Mark : marks'[m] \in 0..Interval[m]
        /\ marks' \in [Mark -> Nat]
    BY <1>0, <1>3 DEF SaveMarks, TypeOK
  <2>2. /\ known' \in [Sender -> [Mark -> Nat]]
        /\ \A q \in Sender : \A m \in Mark : known'[q][m] <= Interval[m]
    BY <1>0, <1>3 DEF SaveMarks, Fresh
  <2>3. QED
    BY <1>3, <2>1, <2>2 DEF SaveMarks, TypeOK, ghosts, Control
<1>4. CASE \E whole \in BOOLEAN : Posted(p, whole)
  <2>1. PICK whole \in BOOLEAN : Posted(p, whole)
    BY <1>4
  <2>2. beat' \in [Sender -> Beat]
    <3>1. [beat[p] EXCEPT !.bytes = Size(beat[p].kind)] \in Beat
      BY <1>b DEF Beat
    <3>2. beat' = [beat EXCEPT ![p] = [beat[p] EXCEPT !.bytes = Size(beat[p].kind)]]
      BY <2>1 DEF TypeOK, Posted
    <3>3. QED
      BY <3>1, <3>2 DEF TypeOK
  <2>3. full' \in 0..MaxCount
    <3>1. full \in Nat /\ Size(beat[p].kind) \in Nat
      BY DEF TypeOK
    <3>2. Plus(full, Size(beat[p].kind)) \in 0..MaxCount
      BY <3>1, PlusType
    <3>3. QED
      BY <2>1, <3>2 DEF Posted, TypeOK
  <2>4. shown' \in [Section -> BOOLEAN]
    BY <2>1 DEF Posted
  <2>5. pc' \in [Sender -> Control]
    BY <2>1 DEF Posted, TypeOK, Control
  <2>6. QED
    BY <2>1, <2>2, <2>3, <2>4, <2>5 DEF Posted, TypeOK, files
<1>5. CASE PostFails(p)
  <2>1. beat' \in [Sender -> Beat] /\ pc' \in [Sender -> Control]
    BY <1>5 DEF PostFails, TypeOK, Control
  <2>2. QED
    BY <1>5, <2>1 DEF PostFails, TypeOK, files, ghosts
<1>6. CASE Polled(p) \/ PollFails(p)
  <2>1. PICK w \in {dashboard, NoWindow, beat[p].answer}, n \in {0, PulseSize} :
          beat' = [beat EXCEPT ![p].answer = w, ![p].bytes = Plus(@, n)]
    <3>1. CASE Polled(p)
      BY <3>1 DEF Polled
    <3>2. CASE PollFails(p)
      <4>1. PICK n \in {0, PulseSize} :
               beat' = [beat EXCEPT ![p].bytes = Plus(@, n)]
        BY <3>2 DEF PollFails
      <4>2. [beat[p] EXCEPT !.bytes = Plus(@, n)]
              = [beat[p] EXCEPT !.answer = beat[p].answer, !.bytes = Plus(@, n)]
        BY <1>b DEF Beat
      <4>3. QED
        BY <4>1, <4>2 DEF TypeOK
    <3>3. QED
      BY <1>6, <3>1, <3>2
  <2>2. Plus(beat[p].bytes, n) \in Nat
    <3>1. beat[p].bytes \in Nat
      BY <1>b DEF Beat
    <3>2. n \in Nat
      BY <1>0
    <3>3. QED
      BY <3>1, <3>2, PlusType
  <2>3. w \in Window \cup {NoWindow}
    BY <1>b DEF TypeOK, Beat
  <2> DEFINE answered == [beat[p] EXCEPT !.answer = w]
  <2>4. answered \in Beat /\ answered.bytes = beat[p].bytes
    BY <1>b, <2>3, BeatWith DEF Beat
  <2>a. [answered EXCEPT !.bytes = Plus(beat[p].bytes, n)] \in Beat
    <3> HIDE DEF answered
    <3>1. QED
      BY <2>2, <2>4, BeatWith
  <2>b. beat' = [beat EXCEPT ![p] =
           [answered EXCEPT !.bytes = Plus(beat[p].bytes, n)]]
    BY <1>b, <2>1, <2>4 DEF TypeOK
  <2>5. beat' \in [Sender -> Beat]
    <3> HIDE DEF answered
    <3>1. QED
      BY <2>a, <2>b DEF TypeOK
  <2>6. pc' \in [Sender -> Control]
    BY <1>6 DEF Polled, PollFails, TypeOK, Control
  <2>7. QED
    BY <1>6, <2>5, <2>6 DEF Polled, PollFails, TypeOK, files, ghosts
<1>7. CASE StoreWindow(p)
  BY <1>7, <1>b DEF StoreWindow, TypeOK, ghosts, Control, Beat
<1>8. CASE MarkSent(p)
  <2>1. /\ \A m \in Mark : marks'[m] \in 0..Interval[m]
        /\ marks' \in [Mark -> Nat]
    BY <1>0, <1>8 DEF MarkSent, TypeOK
  <2>2. QED
    BY <1>8, <2>1 DEF MarkSent, TypeOK, ghosts, Control
<1>9. CASE LoadCount(p)
  <2>1. beat[p].bytes \in Nat /\ tracker \in Nat /\ spent \in Nat
    BY <1>b DEF TypeOK, Beat
  <2>2. /\ Plus(tracker, beat[p].bytes) \in 0..MaxCount
        /\ Plus(spent, beat[p].bytes) \in 0..MaxCount
    BY <2>1, PlusType
  <2>3. QED
    BY <1>9, <2>2 DEF LoadCount, TypeOK, files, Control
<1>10. CASE OpenTemporary(p)
  <2>1. pc' \in [Sender -> Control] /\ clash' \in [Sender -> BOOLEAN]
    BY <1>10 DEF OpenTemporary, TypeOK, Control
  <2>2. QED
    BY <1>10, <2>1 DEF OpenTemporary, TypeOK, files, ghosts
<1>11. CASE RenameTemporary(p)
  <2>1. tracker' \in 0..MaxCount
    BY <1>11, <1>0 DEF RenameTemporary, TypeOK, Recording
  <2>2. pc' \in [Sender -> Control] /\ beat' \in [Sender -> Beat]
    BY <1>11 DEF RenameTemporary, TypeOK, Control
  <2>3. count' \in [Sender -> 0..MaxCount] /\ clash' \in [Sender -> BOOLEAN]
    BY <1>11, <1>0 DEF RenameTemporary, TypeOK
  <2>4. QED
    BY <1>11, <2>1, <2>2, <2>3 DEF RenameTemporary, TypeOK, ghosts
<1>12. CASE AnswerLost(p)
  <2>1. beat' \in [Sender -> Beat] /\ pc' \in [Sender -> Control]
    BY <1>12 DEF AnswerLost, TypeOK, Control
  <2>2. shown' \in [Section -> BOOLEAN]
    BY <1>12 DEF AnswerLost
  <2>3. QED
    BY <1>12, <2>1, <2>2 DEF AnswerLost, TypeOK, files
<1>13. QED
  BY <1>1, <1>2, <1>3, <1>4, <1>5, <1>6, <1>7, <1>8, <1>9, <1>10, <1>11, <1>12
     DEF HeartbeatStep

LEMMA NextTyped == ASSUME Typed, [Next]_vars PROVE Typed'
<1> USE HeartbeatAssumption, NoBeatType DEF Typed
<1>0. Section \subseteq Mark /\ Interval \in [Mark -> Nat] /\ MaxCount \in Nat
      /\ LiveSize \in Nat
  BY DEF Mark
<1>1. ASSUME NEW p \in Sender, PushReport(p) PROVE Typed'
  <2>1. [NoBeat EXCEPT !.kind = "report", !.bytes = LiveSize] \in Beat
    BY <1>0 DEF NoBeat, Beat, Kind, Mode
  <2>2. beat' \in [Sender -> Beat] /\ pc' \in [Sender -> Control]
    BY <1>1, <2>1 DEF PushReport, Go, TypeOK, Control
  <2>3. QED
    BY <1>1, <2>2 DEF PushReport, TypeOK, files, ghosts
<1>2. ASSUME NEW p \in Sender, Kill(p) PROVE Typed'
  <2>1. beat' \in [Sender -> Beat] /\ pc' \in [Sender -> Control]
    BY <1>2 DEF Kill, TypeOK, Control
  <2>2. /\ known' \in [Sender -> [Mark -> Nat]]
        /\ \A q \in Sender : \A m \in Mark : known'[q][m] <= Interval[m]
    BY <1>0, <1>2 DEF Kill, Fresh
  <2>3. count' \in [Sender -> 0..MaxCount] /\ clash' \in [Sender -> BOOLEAN]
        /\ exact' \in BOOLEAN
    BY <1>2, <1>0 DEF Kill, TypeOK
  <2>4. QED
    BY <1>2, <2>1, <2>2, <2>3 DEF Kill, TypeOK, files
<1>3. ASSUME NEW w \in Window \cup {NoWindow}, SetWindow(w) PROVE Typed'
  BY <1>3 DEF SetWindow, TypeOK, files, ghosts
<1>4. CASE ClearTracker
  <2>1. tracker' \in 0..MaxCount
    BY <1>4, <1>0 DEF ClearTracker
  <2>2. exact' \in BOOLEAN
    BY <1>4 DEF ClearTracker
  <2>3. QED
    BY <1>4, <2>1, <2>2 DEF ClearTracker, TypeOK
<1>5. CASE Tick
  <2>1. \A m \in Mark : \A a \in 0..Interval[m] : Older(m, a) \in 0..Interval[m]
    BY <1>0 DEF Older
  <2>2. /\ \A m \in Mark : marks'[m] \in 0..Interval[m]
        /\ marks' \in [Mark -> Nat]
    BY <1>0, <1>5, <2>1 DEF Tick, TypeOK
  <2>3. /\ known' \in [Sender -> [Mark -> Nat]]
        /\ \A q \in Sender : \A m \in Mark : known'[q][m] <= Interval[m]
    BY <1>0, <1>5, <2>1 DEF Tick
  <2>4. /\ tried' \in [Section -> Nat]
        /\ \A s \in Section : tried'[s] <= Interval[s]
    BY <1>0, <1>5, <2>1 DEF Tick
  <2>5. shown' \in [Section -> BOOLEAN]
    BY <1>5 DEF Tick
  <2>6. QED
    BY <1>5, <2>2, <2>3, <2>4, <2>5 DEF Tick, TypeOK
<1>6. CASE Midnight
  BY <1>6, <1>0 DEF Midnight, TypeOK
<1>7. CASE UNCHANGED vars
  BY <1>7 DEF vars, files, ghosts, TypeOK
<1>8. QED
  BY <1>1, <1>2, <1>3, <1>4, <1>5, <1>6, <1>7, HeartbeatTyped DEF Next

\* Types are kept, for any senders, sections, windows, intervals and limits.
THEOREM TypeCorrect == Spec => []TypeOK
<1>1. Typed => TypeOK
  BY DEF Typed
<1>2. Spec => []Typed
  BY InitTyped, NextTyped, PTL DEF Spec
<1>3. QED
  BY <1>1, <1>2, PTL

-----------------------------------------------------------------------------
(* Slim and minimal heartbeats. *)

\* No count exceeds what was recorded on its day, and a sender that is idle
\* holds nothing.
Counted ==
    /\ tracker <= spent
    /\ \A p \in Sender : count[p] <= spent
    /\ \A p \in Sender : pc[p] = "idle" => beat[p] = NoBeat

LEMMA InitCounted == Init => Counted
BY DEF Init, Counted

LEMMA NextCounted == ASSUME Typed, Counted, [Next]_vars PROVE Counted'
<1> USE HeartbeatAssumption DEF Counted, Go
<1>0. tracker \in Nat /\ spent \in Nat /\ count \in [Sender -> Nat]
      /\ pc \in [Sender -> Control] /\ beat \in [Sender -> Beat]
  BY DEF Typed, TypeOK
<1>1. ASSUME NEW p \in Sender,
             Begin(p) \/ Collect(p) \/ SaveMarks(p)
               \/ (\E whole \in BOOLEAN : Posted(p, whole)) \/ PostFails(p)
               \/ AnswerLost(p)
      PROVE  Counted'
  BY <1>0, <1>1
     DEF Begin, Collect, SaveMarks, Posted, PostFails, AnswerLost, files,
         ghosts
<1>2. ASSUME NEW p \in Sender,
             Polled(p) \/ PollFails(p) \/ StoreWindow(p) \/ MarkSent(p)
               \/ PushReport(p) \/ OpenTemporary(p)
      PROVE  Counted'
  BY <1>0, <1>2
     DEF Polled, PollFails, StoreWindow, MarkSent, PushReport, OpenTemporary,
         files, ghosts
<1>3. ASSUME NEW p \in Sender, LoadCount(p) PROVE Counted'
  <2>1. beat[p].bytes \in Nat
    BY <1>0 DEF Beat
  <2>2. /\ Plus(tracker, beat[p].bytes) <= Plus(spent, beat[p].bytes)
        /\ spent <= Plus(spent, beat[p].bytes)
    BY <1>0, <2>1 DEF Plus, Typed, TypeOK
  <2>3. Plus(spent, beat[p].bytes) \in Nat
    BY <1>0, <2>1, PlusType
  <2>4. \A q \in Sender : count'[q] <= spent'
    BY <1>0, <1>3, <2>2, <2>3 DEF LoadCount
  <2>5. tracker' <= spent'
    BY <1>0, <1>3, <2>2, <2>3 DEF LoadCount, files
  <2>6. \A q \in Sender : pc'[q] = "idle" => beat'[q] = NoBeat
    BY <1>0, <1>3 DEF LoadCount
  <2>7. QED
    BY <2>4, <2>5, <2>6
<1>4. ASSUME NEW p \in Sender, RenameTemporary(p) PROVE Counted'
  <2>1. tracker' <= spent'
    BY <1>0, <1>4 DEF RenameTemporary, Recording, ghosts
  <2>2. \A q \in Sender : count'[q] <= spent'
    BY <1>0, <1>4 DEF RenameTemporary, ghosts
  <2>3. \A q \in Sender : pc'[q] = "idle" => beat'[q] = NoBeat
    BY <1>0, <1>4 DEF RenameTemporary
  <2>4. QED
    BY <2>1, <2>2, <2>3
<1>5. ASSUME NEW p \in Sender, Kill(p) PROVE Counted'
  BY <1>0, <1>5 DEF Kill, files
<1>6. CASE ClearTracker
  BY <1>0, <1>6 DEF ClearTracker
<1>7. CASE Tick \/ Midnight
  BY <1>0, <1>7 DEF Tick, Midnight
<1>8. CASE (\E w \in Window \cup {NoWindow} : SetWindow(w)) \/ UNCHANGED vars
  BY <1>0, <1>8 DEF SetWindow, vars, files, ghosts
<1>9. QED
  BY <1>1, <1>2, <1>3, <1>4, <1>5, <1>6, <1>7, <1>8 DEF Next, HeartbeatStep

LEMMA StepThrottled ==
    ASSUME Typed, Counted, [Next]_vars, NEW p \in Sender, pc[p] = "idle",
           beat'[p] # NoBeat
    PROVE  /\ beat'[p].mode = "skip" => spent >= HardLimit
           /\ beat'[p].mode = "slim" => spent >= SoftLimit
<1>0. /\ tracker \in Nat /\ spent \in Nat /\ tracker <= spent
      /\ SoftLimit \in Nat /\ HardLimit \in Nat
      /\ beat \in [Sender -> Beat] /\ beat[p] = NoBeat
  BY HeartbeatAssumption DEF Typed, TypeOK, Counted
<1>1. Begin(p) \/ PushReport(p)
  <2>1. ASSUME NEW q \in Sender, q # p, HeartbeatStep(q) \/ PushReport(q)
               \/ Kill(q)
        PROVE  beat'[p] = beat[p]
    BY <1>0, <2>1
       DEF HeartbeatStep, Begin, Collect, SaveMarks, Posted, PostFails,
           AnswerLost, Polled,
           PollFails, StoreWindow, MarkSent, PushReport, LoadCount,
           OpenTemporary, RenameTemporary, Kill, ghosts
  <2>2. HeartbeatStep(p) => Begin(p)
    BY DEF HeartbeatStep, Go, Collect, SaveMarks, Posted, PostFails,
           AnswerLost, Polled,
           PollFails, StoreWindow, MarkSent, LoadCount, OpenTemporary,
           RenameTemporary
  <2>3. ~Kill(p)
    BY DEF Kill
  <2>4. ClearTracker \/ Tick \/ Midnight \/ UNCHANGED vars
        \/ (\E w \in Window \cup {NoWindow} : SetWindow(w))
        => beat'[p] = beat[p]
    BY DEF ClearTracker, Tick, Midnight, SetWindow, vars
  <2>5. QED
    BY <1>0, <2>1, <2>2, <2>3, <2>4 DEF Next
<1>2. CASE Begin(p)
  <2>1. beat'[p].mode = ModeNow
    BY <1>0, <1>2 DEF Begin, NoBeat
  <2>2. QED
    BY <1>0, <2>1 DEF ModeNow
<1>3. CASE PushReport(p)
  BY <1>0, <1>3 DEF PushReport, NoBeat
<1>4. QED
  BY <1>1, <1>2, <1>3

\* A heartbeat is slim or minimal only once the limit was recorded on that
\* day, however senders overlap, are killed or lose the count.
THEOREM Throttled == Spec => ThrottledWhenSpent
<1>1. Typed /\ Counted /\ [Next]_vars
        => [\A p \in Sender : pc[p] = "idle" /\ beat'[p] # NoBeat =>
              /\ beat'[p].mode = "skip" => spent >= HardLimit
              /\ beat'[p].mode = "slim" => spent >= SoftLimit]_vars
  BY StepThrottled
<1>2. Spec => [](Typed /\ Counted)
  BY InitTyped, NextTyped, InitCounted, NextCounted, PTL DEF Spec
<1>3. QED
  BY <1>1, <1>2, PTL DEF Spec, ThrottledWhenSpent

-----------------------------------------------------------------------------
(* Sections that are held back. *)

\* A mark is at least as old as the last attempt, in the file and in what a
\* sender is about to write into it.
Held ==
    \A s \in Section :
        /\ marks[s] >= tried[s]
        /\ \A p \in Sender : pc[p] = "save" => known[p][s] >= tried[s]

LEMMA NextHeld == ASSUME Typed, Held, [Next]_vars PROVE Held'
<1> USE HeartbeatAssumption DEF Held, Go
<1>0. /\ Section \subseteq Mark
      /\ marks \in [Mark -> Nat] /\ known \in [Sender -> [Mark -> Nat]]
      /\ tried \in [Section -> Nat] /\ pc \in [Sender -> Control]
      /\ Interval \in [Mark -> Nat]
      /\ beat \in [Sender -> Beat]
  BY DEF Typed, TypeOK, Mark
<1>1. ASSUME NEW p \in Sender, Collect(p) PROVE Held'
  BY <1>0, <1>1 DEF Collect, files
<1>2. ASSUME NEW p \in Sender, SaveMarks(p) PROVE Held'
  BY <1>0, <1>2 DEF SaveMarks, ghosts
<1>3. ASSUME NEW p \in Sender, MarkSent(p) PROVE Held'
  <2>1. \A s \in Section : marks'[s] = marks[s]
    BY <1>0, <1>3 DEF MarkSent
  <2>2. QED
    BY <1>0, <1>3, <2>1 DEF MarkSent, ghosts
<1>4. ASSUME NEW p \in Sender,
             Begin(p) \/ (\E whole \in BOOLEAN : Posted(p, whole))
               \/ PostFails(p) \/ AnswerLost(p) \/ Polled(p) \/ PollFails(p)
      PROVE  Held'
  BY <1>0, <1>4
     DEF Begin, Posted, PostFails, AnswerLost, Polled, PollFails, files,
         ghosts
<1>5. ASSUME NEW p \in Sender,
             StoreWindow(p) \/ PushReport(p) \/ LoadCount(p)
               \/ OpenTemporary(p) \/ RenameTemporary(p)
      PROVE  Held'
  BY <1>0, <1>5
     DEF StoreWindow, PushReport, LoadCount, OpenTemporary, RenameTemporary,
         files, ghosts
<1>6. ASSUME NEW p \in Sender, Kill(p) PROVE Held'
  BY <1>0, <1>6 DEF Kill, files
<1>7. CASE Tick
  <2>1. \A s \in Section : marks'[s] >= tried'[s]
    BY <1>0, <1>7 DEF Tick, Older, Typed, TypeOK
  <2>2. ASSUME NEW s \in Section, NEW p \in Sender, pc'[p] = "save"
        PROVE  known'[p][s] >= tried'[s]
    BY <1>0, <1>7, <2>2 DEF Tick, Older, Typed
  <2>3. QED
    BY <2>1, <2>2
<1>8. CASE ClearTracker \/ Midnight \/ UNCHANGED vars
           \/ (\E w \in Window \cup {NoWindow} : SetWindow(w))
  BY <1>0, <1>8 DEF ClearTracker, Midnight, SetWindow, vars, files, ghosts
<1>9. QED
  BY <1>1, <1>2, <1>3, <1>4, <1>5, <1>6, <1>7, <1>8 DEF Next, HeartbeatStep

\* However many senders write their marks back over each other's, none is
\* younger than the section's last attempt.
THEOREM HeldBack == Spec => []HeldBackOnlyIfTried
<1>1. Init => Held
  BY HeartbeatAssumption DEF Init, Held, Mark
<1>2. Held => HeldBackOnlyIfTried
  BY DEF Held, HeldBackOnlyIfTried
<1>3. Spec => [](Typed /\ Held)
  BY <1>1, InitTyped, NextTyped, NextHeld, PTL DEF Spec
<1>4. QED
  BY <1>2, <1>3, PTL

-----------------------------------------------------------------------------
(* Full heartbeats of a day. *)

\* The bytes of a full heartbeat of each of the senders in S.
Weight(S) == LiveSize * Cardinality(S)

LEMMA WeightOf ==
    ASSUME NEW S \in SUBSET Sender
    PROVE  /\ Weight(S) \in Nat
           /\ \A T \in SUBSET S : Weight(T) <= Weight(S)
           /\ \A p \in Sender \ S : Weight(S \cup {p}) = Weight(S) + LiveSize
           /\ \A p \in S : Weight(S \ {p}) + LiveSize = Weight(S)
           /\ \A T \in SUBSET Sender :
                 S \cap T = {} => Weight(S) + Weight(T) <= Weight(Sender)
<1>1. IsFiniteSet(Sender) /\ LiveSize \in Nat
  BY HeartbeatAssumption
<1>2. \A T \in SUBSET Sender : IsFiniteSet(T) /\ Cardinality(T) \in Nat
  BY <1>1, FS_Subset, FS_CardinalityType
<1>3. \A m, n \in Nat : /\ LiveSize * m \in Nat
                        /\ m <= n => LiveSize * m <= LiveSize * n
                        /\ LiveSize * (m + n) = LiveSize * m + LiveSize * n
                        /\ LiveSize * (m + 1) = LiveSize * m + LiveSize
  BY <1>1
<1>4. Weight(S) \in Nat
  BY <1>2, <1>3 DEF Weight
<1>5. ASSUME NEW T \in SUBSET S PROVE Weight(T) <= Weight(S)
  <2>1. Cardinality(T) <= Cardinality(S)
    BY <1>2, FS_Subset
  <2>2. QED
    BY <1>2, <1>3, <2>1 DEF Weight
<1>6. ASSUME NEW p \in Sender \ S
      PROVE  Weight(S \cup {p}) = Weight(S) + LiveSize
  <2>1. Cardinality(S \cup {p}) = Cardinality(S) + 1
    BY <1>2, FS_AddElement
  <2>2. QED
    BY <1>2, <1>3, <2>1 DEF Weight
<1>7. ASSUME NEW p \in S PROVE Weight(S \ {p}) + LiveSize = Weight(S)
  <2>1. Cardinality(S) = Cardinality(S \ {p}) + 1
    BY <1>2, FS_RemoveElement
  <2>2. Cardinality(S \ {p}) \in Nat
    BY <1>2
  <2>3. QED
    BY <1>3, <2>1, <2>2 DEF Weight
<1>8. ASSUME NEW T \in SUBSET Sender, S \cap T = {}
      PROVE  Weight(S) + Weight(T) <= Weight(Sender)
  <2>1. Cardinality(S \cup T) = Cardinality(S) + Cardinality(T)
    <3>1. IsFiniteSet(S) /\ IsFiniteSet(T)
      BY <1>2
    <3>2. Cardinality(S \cup T)
            = Cardinality(S) + Cardinality(T) - Cardinality(S \cap T)
      BY <3>1, FS_Union
    <3>3. Cardinality(S \cap T) = 0
      BY <1>8, FS_EmptySet
    <3>4. QED
      BY <1>2, <3>2, <3>3
  <2>2. Cardinality(S \cup T) <= Cardinality(Sender)
    BY <1>1, FS_Subset
  <2>3. LiveSize * (Cardinality(S) + Cardinality(T)) <= Weight(Sender)
    BY <1>2, <1>3, <2>1, <2>2 DEF Weight
  <2>4. QED
    BY <1>2, <1>3, <2>3 DEF Weight
<1>9. QED
  BY <1>4, <1>5, <1>6, <1>7, <1>8

\* Full heartbeats that are not posted yet, and posted ones that the count
\* does not hold yet.
Ahead == {p \in Sender : beat[p].kind = "live"
                           /\ pc[p] \in {"collect", "save", "post"}}
Uncounted == {p \in Sender : beat[p].kind = "live"
                 /\ pc[p] \in {"poll", "store", "mark", "load", "open", "rename"}}

\* While no recording was lost, at most one is under way, on the count as it
\* is; what was posted is in the count or still to be added to it; and what
\* may still be posted was begun below the limit.
Budgeted ==
    /\ \A p \in Uncounted :
          beat[p].bytes >= LiveSize \/ beat[p].bytes >= MaxCount
    /\ \A p \in Sender : clash[p] => p \in Recording
    /\ exact /\ HardLimit > 0 =>
          /\ \A p, q \in Recording : p = q
          /\ \A p \in Recording :
                count[p] = Plus(tracker, beat[p].bytes) /\ ~clash[p]
          /\ full <= tracker + Weight(Uncounted)
          /\ full + Weight(Ahead) <= (HardLimit - 1) + Weight(Sender)

LEMMA InitBudgeted == Init => Budgeted
<1> SUFFICES ASSUME Init PROVE Budgeted
  OBVIOUS
<1>1. Ahead = {} /\ Uncounted = {} /\ Recording = {}
  BY DEF Init, Ahead, Uncounted, Recording
<1>2. Weight({}) = 0 /\ Weight(Sender) \in Nat
  BY HeartbeatAssumption, FS_EmptySet, WeightOf DEF Weight
<1>3. QED
  BY HeartbeatAssumption, <1>1, <1>2 DEF Init, Budgeted

LEMMA NextBudgeted ==
    ASSUME Typed, Counted, Budgeted, [Next]_vars PROVE Budgeted'
<1> USE DEF Go
<1>0. /\ pc \in [Sender -> Control] /\ beat \in [Sender -> Beat]
      /\ count \in [Sender -> 0..MaxCount] /\ clash \in [Sender -> BOOLEAN]
      /\ {tracker, spent, full, MaxCount, LiveSize, HardLimit} \subseteq Nat
      /\ full <= MaxCount /\ exact \in BOOLEAN
  BY HeartbeatAssumption DEF Typed, TypeOK
<1>w. /\ Weight(Ahead) \in Nat /\ Weight(Uncounted) \in Nat
      /\ Weight(Sender) \in Nat
      /\ Ahead \subseteq Sender /\ Uncounted \subseteq Sender
  BY WeightOf DEF Ahead, Uncounted
\* Steps that leave the count and the senders' phases alone.
<1>1. ASSUME Ahead' \subseteq Ahead, Uncounted' = Uncounted,
             Recording' = Recording,
             \A p \in Uncounted : beat'[p].bytes >= beat[p].bytes
                                    /\ beat'[p].bytes \in Nat,
             \A p \in Recording : beat'[p].bytes = beat[p].bytes,
             UNCHANGED <<tracker, count, clash, full, exact>>
      PROVE  Budgeted'
  <2>1. Weight(Ahead') <= Weight(Ahead) /\ Weight(Ahead') \in Nat
    BY <1>1, <1>w, WeightOf
  <2>2. Weight(Ahead)' = Weight(Ahead') /\ Weight(Uncounted)' = Weight(Uncounted)
        /\ Weight(Sender)' = Weight(Sender)
    BY <1>1 DEF Weight
  <2>3. \A p \in Uncounted : beat[p].bytes \in Nat
    BY <1>0, <1>w DEF Beat
  <2>4. \A p \in Uncounted' :
           beat'[p].bytes >= LiveSize \/ beat'[p].bytes >= MaxCount
    BY <1>0, <1>1, <2>3 DEF Budgeted
  <2>5. \A p \in Sender : clash'[p] => p \in Recording'
    BY <1>1 DEF Budgeted
  <2>6. ASSUME exact', HardLimit > 0
        PROVE  /\ \A p, q \in Recording' : p = q
               /\ \A p \in Recording' :
                     count'[p] = Plus(tracker', beat'[p].bytes) /\ ~clash'[p]
               /\ full' <= tracker' + Weight(Uncounted)
               /\ full' + Weight(Ahead') <= (HardLimit - 1) + Weight(Sender)
    BY <1>0, <1>1, <1>w, <2>1, <2>6 DEF Budgeted
  <2>7. QED
    BY <2>2, <2>4, <2>5, <2>6 DEF Budgeted, Plus
<1>2. ASSUME NEW p \in Sender, Begin(p) PROVE Budgeted'
  <2>1. beat[p] = NoBeat
    BY <1>2 DEF Begin, Counted
  <2>2. Uncounted' = Uncounted /\ Recording' = Recording
    BY <1>0, <1>2, <2>1 DEF Begin, Uncounted, Recording, NoBeat
  <2>3. \A q \in Uncounted \cup Recording : beat'[q] = beat[q]
    BY <1>0, <1>2, <2>1 DEF Begin, Uncounted, Recording, NoBeat
  <2>4. UNCHANGED <<tracker, count, clash, full, exact>>
    BY <1>2 DEF Begin, files, ghosts
  <2>5. CASE beat'[p].kind = "live"
    <3>1. Ahead' = Ahead \cup {p} /\ p \notin Ahead /\ p \notin Uncounted
      BY <1>0, <1>2, <2>1, <2>5 DEF Begin, Ahead, Uncounted, NoBeat
    <3>2. HardLimit > 0 => tracker <= HardLimit - 1
      BY <1>0, <1>2, <2>1, <2>5 DEF Begin, ModeNow, NoBeat
    <3>3. Weight(Ahead \cup {p}) + Weight(Uncounted) <= Weight(Sender)
          /\ Weight(Ahead \cup {p}) \in Nat
      <4>1. (Ahead \cup {p}) \cap Uncounted = {}
        BY <3>1 DEF Ahead, Uncounted
      <4>2. QED
        BY <1>w, <4>1, WeightOf
    <3>4. Weight(Ahead)' = Weight(Ahead \cup {p})
          /\ Weight(Uncounted)' = Weight(Uncounted)
          /\ Weight(Sender)' = Weight(Sender)
      BY <2>2, <3>1 DEF Weight
    <3>5. ASSUME exact', HardLimit > 0
          PROVE  /\ full' <= tracker' + Weight(Uncounted)
                 /\ full' + Weight(Ahead \cup {p})
                      <= (HardLimit - 1) + Weight(Sender)
      BY <1>0, <1>w, <2>4, <3>2, <3>3, <3>5 DEF Budgeted
    <3>6. \A q \in Recording : Plus(tracker, beat[q].bytes)'
                                  = Plus(tracker, beat[q].bytes)
      BY <2>3, <2>4 DEF Plus
    <3>7. QED
      BY <2>2, <2>3, <2>4, <3>4, <3>5, <3>6 DEF Budgeted
  <2>6. CASE beat'[p].kind # "live"
    <3>1. Ahead' \subseteq Ahead
      BY <1>0, <1>2, <2>1, <2>6 DEF Begin, Ahead, NoBeat
    <3>2. \A q \in Uncounted : beat'[q].bytes \in Nat
      BY <1>0, <1>w, <2>3 DEF Beat
    <3>3. QED
      BY <1>0, <1>1, <2>2, <2>3, <2>4, <3>1, <3>2 DEF Beat
  <2>7. QED
    BY <2>5, <2>6
<1>3. ASSUME NEW p \in Sender,
             Collect(p) \/ SaveMarks(p) \/ PostFails(p) \/ AnswerLost(p)
               \/ StoreWindow(p) \/ MarkSent(p)
      PROVE  Budgeted'
  <2>1. /\ Ahead' \subseteq Ahead /\ Uncounted' = Uncounted
        /\ Recording' = Recording
        /\ \A q \in Uncounted \cup Recording : beat'[q].bytes = beat[q].bytes
    <3> USE DEF Ahead, Uncounted, Recording
    <3>1. CASE Collect(p)
      <4>1. PICK sections : beat' = [beat EXCEPT ![p].carries = sections]
        BY <3>1 DEF Collect
      <4>2. \A q \in Sender : /\ beat'[q].kind = beat[q].kind
                              /\ beat'[q].bytes = beat[q].bytes
        BY <1>0, <4>1 DEF Beat
      <4>3. QED
        BY <1>0, <3>1, <4>2 DEF Collect
    <3>2. CASE SaveMarks(p)
      BY <1>0, <3>2 DEF SaveMarks
    <3>3. CASE PostFails(p) \/ AnswerLost(p)
      BY <1>0, <3>3 DEF PostFails, AnswerLost, NoBeat
    <3>4. CASE StoreWindow(p)
      BY <1>0, <3>4 DEF StoreWindow
    <3>5. CASE MarkSent(p)
      BY <1>0, <3>5 DEF MarkSent
    <3>6. QED
      BY <1>3, <3>1, <3>2, <3>3, <3>4, <3>5
  <2>2. UNCHANGED <<tracker, count, clash, full, exact>>
    BY <1>3 DEF Collect, SaveMarks, PostFails, AnswerLost, StoreWindow,
                MarkSent, files, ghosts
  <2>3. \A q \in Uncounted : beat[q].bytes \in Nat
    BY <1>0, <1>w DEF Beat
  <2>4. QED
    BY <1>1, <2>1, <2>2, <2>3
<1>4. ASSUME NEW p \in Sender, NEW whole \in BOOLEAN, Posted(p, whole)
      PROVE  Budgeted'
  <2>1. beat' = [beat EXCEPT ![p].bytes = Size(beat[p].kind)]
        /\ pc[p] = "post" /\ pc'[p] \in {"poll", "mark"}
        /\ \A q \in Sender \ {p} : pc'[q] = pc[q]
    BY <1>0, <1>4 DEF Posted
  <2>2. Recording' = Recording /\ p \notin Recording
    BY <2>1 DEF Recording
  <2>3. UNCHANGED <<tracker, count, clash, exact>>
    BY <1>4 DEF Posted, files
  <2>4. \A q \in Sender \ {p} : beat'[q] = beat[q]
    BY <1>0, <2>1
  <2>5. beat'[p].kind = beat[p].kind /\ beat'[p].bytes = Size(beat[p].kind)
    BY <1>0, <2>1 DEF Beat
  <2>6. CASE beat[p].kind = "live"
    <3>1. Ahead' = Ahead \ {p} /\ p \in Ahead /\ p \notin Uncounted
          /\ Uncounted' = Uncounted \cup {p}
      BY <1>0, <2>1, <2>4, <2>5, <2>6 DEF Ahead, Uncounted
    <3>2. Weight(Ahead \ {p}) + LiveSize = Weight(Ahead)
          /\ Weight(Ahead \ {p}) \in Nat
          /\ Weight(Uncounted \cup {p}) = Weight(Uncounted) + LiveSize
      <4>1. Ahead \ {p} \in SUBSET Sender
        BY <1>w
      <4>2. QED
        BY <1>w, <3>1, <4>1, WeightOf
    <3>3. full' <= full + LiveSize /\ full' \in Nat
      <4>1. full' = Plus(full, LiveSize)
        BY <1>4, <2>6 DEF Posted, Size
      <4>2. QED
        BY <1>0, <4>1 DEF Plus
    <3>4. ASSUME exact', HardLimit > 0
          PROVE  /\ full' <= tracker' + Weight(Uncounted \cup {p})
                 /\ full' + Weight(Ahead \ {p})
                      <= (HardLimit - 1) + Weight(Sender)
      BY <1>0, <1>w, <2>3, <3>2, <3>3, <3>4 DEF Budgeted
    <3>5. Weight(Ahead)' = Weight(Ahead \ {p})
          /\ Weight(Uncounted)' = Weight(Uncounted \cup {p})
          /\ Weight(Sender)' = Weight(Sender)
      BY <3>1 DEF Weight
    <3>6. \A q \in Uncounted' :
             beat'[q].bytes >= LiveSize \/ beat'[q].bytes >= MaxCount
      BY <1>0, <1>w, <2>4, <2>5, <2>6, <3>1 DEF Budgeted, Size
    <3>7. \A q \in Recording : Plus(tracker, beat[q].bytes)'
                                  = Plus(tracker, beat[q].bytes)
      BY <2>2, <2>3, <2>4 DEF Plus, Recording
    <3>8. QED
      BY <2>2, <2>3, <3>4, <3>5, <3>6, <3>7 DEF Budgeted
  <2>7. CASE beat[p].kind # "live"
    <3>1. Ahead' = Ahead /\ Uncounted' = Uncounted
      BY <1>0, <2>1, <2>4, <2>5, <2>7 DEF Ahead, Uncounted
    <3>2. \A q \in Uncounted \cup Recording : q # p
      BY <2>2, <2>7 DEF Uncounted
    <3>3. full' = full
      BY <1>4, <2>7 DEF Posted
    <3>4. \A q \in Uncounted : beat'[q].bytes \in Nat
      BY <1>0, <1>w, <2>4, <3>2 DEF Beat
    <3>5. Recording \subseteq Sender
      BY DEF Recording
    <3>6. QED
      BY <1>1, <1>w, <2>2, <2>3, <2>4, <3>1, <3>2, <3>3, <3>4, <3>5
  <2>8. QED
    BY <2>6, <2>7

<1>5. ASSUME NEW p \in Sender, Polled(p) \/ PollFails(p) PROVE Budgeted'
  <2>1. pc[p] = "poll" /\ pc'[p] \in {"store", "mark"}
        /\ \A q \in Sender \ {p} : pc'[q] = pc[q] /\ beat'[q] = beat[q]
    BY <1>0, <1>5 DEF Polled, PollFails
  <2>2. PICK n \in {0, PulseSize} :
           /\ beat'[p].kind = beat[p].kind
           /\ beat'[p].bytes = Plus(beat[p].bytes, n)
    BY <1>0, <1>5 DEF Polled, PollFails, Beat
  <2>3. Recording' = Recording /\ Recording \subseteq Sender
        /\ p \notin Recording
    BY <2>1 DEF Recording
  <2>4. Ahead' = Ahead /\ Uncounted' = Uncounted
    BY <2>1, <2>2 DEF Ahead, Uncounted
  <2>5. UNCHANGED <<tracker, count, clash, full, exact>>
    BY <1>5 DEF Polled, PollFails, files, ghosts
  <2>6. beat[p].bytes \in Nat /\ n \in Nat
    BY HeartbeatAssumption, <1>0 DEF Beat
  <2>7. Plus(beat[p].bytes, n) \in Nat
        /\ (Plus(beat[p].bytes, n) >= beat[p].bytes
              \/ Plus(beat[p].bytes, n) >= MaxCount)
    <3> HIDE <1>0
    <3>1. MaxCount \in Nat
      BY HeartbeatAssumption
    <3>2. QED
      BY <2>6, <3>1 DEF Plus
  <2>8. \A q \in Uncounted' :
           beat'[q].bytes >= LiveSize \/ beat'[q].bytes >= MaxCount
    <3>1. CASE p \in Uncounted
      BY <1>0, <1>w, <2>1, <2>2, <2>4, <2>6, <2>7, <3>1 DEF Budgeted
    <3>2. CASE p \notin Uncounted
      BY <1>w, <2>1, <2>4, <3>2 DEF Budgeted
    <3>3. QED
      BY <3>1, <3>2
  <2>9. Weight(Ahead)' = Weight(Ahead) /\ Weight(Uncounted)' = Weight(Uncounted)
        /\ Weight(Sender)' = Weight(Sender)
    BY <2>4 DEF Weight
  <2>10. \A q \in Recording : Plus(tracker, beat[q].bytes)'
                                 = Plus(tracker, beat[q].bytes)
    BY <2>1, <2>3, <2>5 DEF Plus
  <2>11. QED
    BY <2>3, <2>5, <2>8, <2>9, <2>10 DEF Budgeted
<1>6. ASSUME NEW p \in Sender, PushReport(p) PROVE Budgeted'
  <2>1. beat[p] = NoBeat /\ pc[p] = "idle" /\ pc'[p] = "load"
        /\ beat'[p].kind = "report"
        /\ \A q \in Sender \ {p} : pc'[q] = pc[q] /\ beat'[q] = beat[q]
    BY <1>0, <1>6 DEF PushReport, Counted, NoBeat
  <2>2. Ahead' = Ahead /\ Uncounted' = Uncounted /\ Recording' = Recording
    BY <2>1 DEF Ahead, Uncounted, Recording, NoBeat
  <2>3. p \notin Uncounted /\ p \notin Recording /\ Recording \subseteq Sender
    BY <2>1 DEF Uncounted, Recording
  <2>4. UNCHANGED <<tracker, count, clash, full, exact>>
    BY <1>6 DEF PushReport, files, ghosts
  <2>5. \A q \in Uncounted : beat[q].bytes \in Nat
    BY <1>0, <1>w DEF Beat
  <2>6. QED
    BY <1>1, <1>w, <2>1, <2>2, <2>3, <2>4, <2>5
<1>7. ASSUME NEW p \in Sender, LoadCount(p) PROVE Budgeted'
  <2>1. pc[p] = "load" /\ pc'[p] = "open" /\ beat' = beat
        /\ \A q \in Sender \ {p} : pc'[q] = pc[q]
    BY <1>0, <1>7 DEF LoadCount
  <2>2. Ahead' = Ahead /\ Uncounted' = Uncounted
    BY <2>1 DEF Ahead, Uncounted
  <2>3. Recording' = Recording \cup {p} /\ p \notin Recording
    BY <2>1 DEF Recording
  <2>4. UNCHANGED <<tracker, clash, full, beat>>
        /\ exact' = (exact /\ Recording = {})
        /\ count'[p] = Plus(tracker, beat[p].bytes)
    BY <1>0, <1>7 DEF LoadCount, files
  <2>5. Weight(Ahead)' = Weight(Ahead) /\ Weight(Uncounted)' = Weight(Uncounted)
        /\ Weight(Sender)' = Weight(Sender)
    BY <2>2 DEF Weight
  <2>6. ~clash[p]
    BY <2>3 DEF Budgeted
  <2>7. \A q \in Recording' : Plus(tracker, beat[q].bytes)'
                                 = Plus(tracker, beat[q].bytes)
    BY <2>4 DEF Plus
  <2>8. QED
    BY <2>2, <2>3, <2>4, <2>5, <2>6, <2>7 DEF Budgeted
<1>8. ASSUME NEW p \in Sender, OpenTemporary(p) PROVE Budgeted'
  <2>1. pc[p] = "open" /\ pc'[p] = "rename" /\ beat' = beat
        /\ \A q \in Sender \ {p} : pc'[q] = pc[q]
    BY <1>0, <1>8 DEF OpenTemporary
  <2>2. Ahead' = Ahead /\ Uncounted' = Uncounted /\ Recording' = Recording
        /\ p \in Recording
    BY <2>1 DEF Ahead, Uncounted, Recording
  <2>3. UNCHANGED <<tracker, count, full, beat, exact>>
    BY <1>8 DEF OpenTemporary, files, ghosts
  <2>4. Weight(Ahead)' = Weight(Ahead) /\ Weight(Uncounted)' = Weight(Uncounted)
        /\ Weight(Sender)' = Weight(Sender)
    BY <2>2 DEF Weight
  <2> DEFINE others == {q \in Sender \ {p} : pc[q] = "rename"}
  <2>5. \A q \in Sender :
           clash'[q] = (clash[q] \/ (others # {} /\ q \in others \cup {p}))
    BY <1>8 DEF OpenTemporary
  <2>6. others \subseteq Recording
    BY DEF Recording
  <2>7. \A q \in Sender : clash'[q] => q \in Recording'
    BY <2>2, <2>5, <2>6 DEF Budgeted
  <2>8. exact /\ HardLimit > 0 => \A q \in Recording : ~clash'[q]
    BY <2>2, <2>5, <2>6 DEF Budgeted, Recording
  <2>9. \A q \in Recording' : Plus(tracker, beat[q].bytes)'
                                 = Plus(tracker, beat[q].bytes)
    BY <2>3 DEF Plus
  <2>10. QED
    BY <2>2, <2>3, <2>4, <2>7, <2>8, <2>9 DEF Budgeted
<1>9. ASSUME NEW p \in Sender, RenameTemporary(p) PROVE Budgeted'
  <2>1. pc[p] = "rename" /\ pc'[p] = "idle" /\ beat'[p] = NoBeat
        /\ ~clash'[p] /\ p \in Recording
        /\ \A q \in Sender \ {p} : /\ pc'[q] = pc[q] /\ beat'[q] = beat[q]
                                   /\ clash'[q] = clash[q]
    BY <1>0, <1>9 DEF RenameTemporary, Recording
  <2>2. Ahead' = Ahead /\ Uncounted' = Uncounted \ {p}
        /\ Recording' = Recording \ {p} /\ NoBeat.kind # "live"
    BY <2>1 DEF Ahead, Uncounted, Recording, NoBeat
  <2>3. UNCHANGED <<full, exact>>
    BY <1>9 DEF RenameTemporary, ghosts
  <2>4. \A q \in Uncounted' :
           beat'[q].bytes >= LiveSize \/ beat'[q].bytes >= MaxCount
    BY <1>w, <2>1, <2>2 DEF Budgeted
  <2>5. \A q \in Sender : clash'[q] => q \in Recording'
    BY <2>1, <2>2 DEF Budgeted
  <2>6. Weight(Ahead)' = Weight(Ahead)
        /\ Weight(Uncounted)' = Weight(Uncounted \ {p})
        /\ Weight(Sender)' = Weight(Sender)
    BY <2>2 DEF Weight
  <2>7. ASSUME exact', HardLimit > 0
        PROVE  /\ Recording' = {}
               /\ full' <= tracker' + Weight(Uncounted \ {p})
               /\ full' + Weight(Ahead) <= (HardLimit - 1) + Weight(Sender)
    <3>1. exact
      BY <2>3, <2>7
    <3>2. Recording = {p} /\ ~clash[p]
          /\ count[p] = Plus(tracker, beat[p].bytes)
          /\ full <= tracker + Weight(Uncounted)
          /\ full + Weight(Ahead) <= (HardLimit - 1) + Weight(Sender)
      BY <2>1, <2>7, <3>1 DEF Budgeted
    <3>3. tracker' = Plus(tracker, beat[p].bytes)
      BY <1>9, <3>2 DEF RenameTemporary
    <3>4. beat[p].bytes \in Nat
      BY <1>0 DEF Beat
    <3>5. tracker' \in Nat /\ (tracker' = tracker + beat[p].bytes
                                  \/ tracker' = MaxCount)
      BY <1>0, <3>3, <3>4, PlusType
    <3>6. Weight(Uncounted \ {p}) \in Nat
          /\ (p \notin Uncounted =>
                Weight(Uncounted \ {p}) = Weight(Uncounted))
          /\ (p \in Uncounted =>
                Weight(Uncounted \ {p}) + LiveSize = Weight(Uncounted))
      <4>1. Uncounted \ {p} \in SUBSET Sender
        BY <1>w
      <4>2. p \notin Uncounted => Uncounted \ {p} = Uncounted
        OBVIOUS
      <4>3. QED
        BY <1>w, <4>1, <4>2, WeightOf
    <3>7. full <= tracker' + Weight(Uncounted \ {p})
      <4>1. CASE tracker' = MaxCount
        BY <1>0, <3>6, <4>1
      <4>2. CASE tracker' = tracker + beat[p].bytes /\ p \notin Uncounted
        BY <1>0, <1>w, <3>2, <3>4, <3>6, <4>2
      <4>3. CASE tracker' = tracker + beat[p].bytes /\ p \in Uncounted
        <5>1. beat[p].bytes >= LiveSize \/ beat[p].bytes >= MaxCount
          BY <4>3 DEF Budgeted
        <5>2. QED
          BY <1>0, <1>w, <3>2, <3>4, <3>6, <4>3, <5>1
      <4>4. QED
        BY <3>5, <4>1, <4>2, <4>3
    <3>8. QED
      BY <2>2, <2>3, <3>2, <3>7
  <2>8. QED
    BY <2>2, <2>4, <2>5, <2>6, <2>7 DEF Budgeted
<1>10. ASSUME NEW p \in Sender, Kill(p) PROVE Budgeted'
  <2>1. pc[p] # "idle" /\ pc'[p] = "idle" /\ beat'[p] = NoBeat
        /\ ~clash'[p]
        /\ \A q \in Sender \ {p} : /\ pc'[q] = pc[q] /\ beat'[q] = beat[q]
                                   /\ clash'[q] = clash[q]
                                   /\ count'[q] = count[q]
    BY <1>0, <1>10 DEF Kill
  <2>2. Ahead' = Ahead \ {p} /\ Uncounted' = Uncounted \ {p}
        /\ Recording' = Recording \ {p}
    BY <2>1 DEF Ahead, Uncounted, Recording, NoBeat
  <2>3. UNCHANGED <<tracker, full>> /\ exact' = (exact /\ beat[p].bytes = 0)
    BY <1>10 DEF Kill, files
  <2>4. \A q \in Uncounted' :
           beat'[q].bytes >= LiveSize \/ beat'[q].bytes >= MaxCount
    BY <1>w, <2>1, <2>2 DEF Budgeted
  <2>5. \A q \in Sender : clash'[q] => q \in Recording'
    BY <2>1, <2>2 DEF Budgeted
  <2>6. Weight(Ahead)' = Weight(Ahead \ {p})
        /\ Weight(Uncounted)' = Weight(Uncounted \ {p})
        /\ Weight(Sender)' = Weight(Sender)
    BY <2>2 DEF Weight
  <2>7. Weight(Ahead \ {p}) \in Nat /\ Weight(Ahead \ {p}) <= Weight(Ahead)
    BY <1>w, WeightOf
  <2>8. ASSUME exact', HardLimit > 0
        PROVE  full <= tracker + Weight(Uncounted \ {p})
    <3>1. exact /\ beat[p].bytes = 0 /\ full <= tracker + Weight(Uncounted)
      BY <2>3, <2>8 DEF Budgeted
    <3>2. CASE p \notin Uncounted
      <4>1. Uncounted \ {p} = Uncounted
        BY <3>2
      <4>2. QED
        BY <3>1, <4>1
    <3>3. CASE p \in Uncounted
      <4>1. LiveSize = 0 \/ MaxCount = 0
        BY <1>0, <3>1, <3>3 DEF Budgeted
      <4>2. Weight(Uncounted \ {p}) + LiveSize = Weight(Uncounted)
            /\ Weight(Uncounted \ {p}) \in Nat
        BY <1>w, <3>3, WeightOf
      <4>3. QED
        BY <1>0, <3>1, <4>1, <4>2
    <3>4. QED
      BY <3>2, <3>3
  <2>9. \A q \in Recording' : Plus(tracker, beat[q].bytes)'
                                 = Plus(tracker, beat[q].bytes)
    BY <2>1, <2>2, <2>3 DEF Plus, Recording
  <2>10. \A q \in Recording' : q \in Recording \ {p} /\ q \in Sender
    BY <2>2 DEF Recording
  <2>11. ASSUME exact', HardLimit > 0
         PROVE  /\ \A q, r \in Recording' : q = r
                /\ \A q \in Recording' :
                      count'[q] = Plus(tracker, beat[q].bytes)' /\ ~clash'[q]
                /\ full' + Weight(Ahead \ {p})
                      <= (HardLimit - 1) + Weight(Sender)
    <3>1. exact
      BY <2>3, <2>11
    <3>2. \A q, r \in Recording' : q = r
      BY <2>10, <2>11, <3>1 DEF Budgeted
    <3>3. \A q \in Recording' :
             count'[q] = Plus(tracker, beat[q].bytes)' /\ ~clash'[q]
      BY <2>1, <2>9, <2>10, <2>11, <3>1 DEF Budgeted
    <3>4. full' + Weight(Ahead \ {p}) <= (HardLimit - 1) + Weight(Sender)
      BY <1>0, <1>w, <2>3, <2>7, <2>11, <3>1 DEF Budgeted
    <3>5. QED
      BY <3>2, <3>3, <3>4
  <2>12. QED
    BY <2>3, <2>4, <2>5, <2>6, <2>8, <2>11 DEF Budgeted
<1>11. CASE ClearTracker
  <2>1. ~exact' /\ Uncounted' = Uncounted /\ Recording' = Recording
        /\ UNCHANGED <<beat, clash>>
    BY <1>11 DEF ClearTracker, Uncounted, Recording
  <2>2. QED
    BY <2>1 DEF Budgeted
<1>12. CASE Tick \/ UNCHANGED vars
            \/ (\E w \in Window \cup {NoWindow} : SetWindow(w))
  <2>1. UNCHANGED <<pc, beat, tracker, count, clash, full, exact>>
    BY <1>12 DEF Tick, SetWindow, vars, files, ghosts
  <2>2. Ahead' = Ahead /\ Uncounted' = Uncounted /\ Recording' = Recording
    BY <2>1 DEF Ahead, Uncounted, Recording
  <2>3. \A q \in Uncounted : beat[q].bytes \in Nat
    BY <1>0, <1>w DEF Beat
  <2>4. QED
    BY <1>1, <2>1, <2>2, <2>3
<1>13. CASE Midnight
  <2>1. UNCHANGED <<pc, beat, clash>> /\ tracker' = 0 /\ full' = 0
        /\ exact' = (Recording = {})
    BY <1>13 DEF Midnight
  <2>2. Ahead' = Ahead /\ Uncounted' = Uncounted /\ Recording' = Recording
    BY <2>1 DEF Ahead, Uncounted, Recording
  <2>3. Weight(Ahead)' = Weight(Ahead) /\ Weight(Uncounted)' = Weight(Uncounted)
        /\ Weight(Sender)' = Weight(Sender)
    BY <2>2 DEF Weight
  <2>4. Weight(Ahead) <= Weight(Sender)
    BY <1>w, WeightOf
  <2>5. HardLimit > 0 =>
           /\ full' <= tracker' + Weight(Uncounted)
           /\ full' + Weight(Ahead) <= (HardLimit - 1) + Weight(Sender)
    BY <1>0, <1>w, <2>1, <2>4
  <2>6. QED
    BY <2>1, <2>2, <2>3, <2>5 DEF Budgeted
<1>14. QED
  BY <1>2, <1>3, <1>4, <1>5, <1>6, <1>7, <1>8, <1>9, <1>10, <1>11, <1>12, <1>13
     DEF Next, HeartbeatStep

\* The full heartbeats that senders know to be accepted pass the hard limit by
\* at most one for each sender, on a day on which no recording was lost, for
\* any senders, sizes and limits.
THEOREM FullBounded == Spec => []FullBeatsBounded
<1>1. Typed /\ Budgeted => FullBeatsBounded
  <2> SUFFICES ASSUME Typed, Budgeted, exact, HardLimit > 0
               PROVE  full <= (HardLimit - 1) + LiveSize * Cardinality(Sender)
    BY DEF FullBeatsBounded
  <2>1. Ahead \in SUBSET Sender
    BY DEF Ahead
  <2>2. Weight(Ahead) \in Nat /\ Weight(Sender) \in Nat
    BY <2>1, WeightOf
  <2>3. full + Weight(Ahead) <= (HardLimit - 1) + Weight(Sender)
    BY DEF Budgeted
  <2>4. full <= (HardLimit - 1) + Weight(Sender)
    BY HeartbeatAssumption, <2>2, <2>3 DEF Typed, TypeOK
  <2>5. QED
    BY <2>4 DEF Weight
<1>2. Spec => [](Typed /\ Counted /\ Budgeted)
  BY InitTyped, NextTyped, InitCounted, NextCounted, InitBudgeted,
     NextBudgeted, PTL DEF Spec
<1>3. QED
  BY <1>1, <1>2, PTL

=============================================================================
