-------------------------- MODULE Analyses_proofs ---------------------------
(***************************************************************************)
(* Proofs about the analyses at work, for any logs, facts and answers, any *)
(* readings, processes, kernel lines and bounds.                           *)
(*                                                                         *)
(* Each analysis has its inductive invariant: CrashInv says that what is   *)
(* detected and reported is Detect of the logs, NetworkInv that the        *)
(* verdict is Assess of the readings, MemoryInv that a snapshot has no     *)
(* process twice, AlertInv what a line that counted implies about the time *)
(* of its sections.  The rest are lemmas about what the functions return.  *)
(***************************************************************************)
EXTENDS Analyses, FiniteSetTheorems, FunctionTheorems, SequenceTheorems,
        WellFoundedInduction, TLAPS

-----------------------------------------------------------------------------
(* Sets in order. *)

\* A set of numbers has a least one.
LEMMA LeastNumber ==
    ASSUME NEW T \in SUBSET Nat, T # {}
    PROVE  \E m \in T : \A n \in T : m <= n
<1>1. PICK m \in T : \A n \in T : <<n, m>> \notin OpToRel(<, Nat)
  BY NatLessThanWellFounded, WFMin
<1>2. \A n \in T : ~(n < m)
  BY <1>1 DEF OpToRel
<1>3. QED
  BY <1>2

LEMMA UpTo ==
    ASSUME NEW n \in Nat
    PROVE  IsFiniteSet(1..n) /\ Cardinality(1..n) = n
BY FS_Interval

\* R orders S strictly and totally.
StrictOrder(S, R) ==
    /\ \A x \in S : <<x, x>> \notin R
    /\ \A x, y, z \in S : <<x, y>> \in R /\ <<y, z>> \in R => <<x, z>> \in R
    /\ \A x, y \in S : x # y => <<x, y>> \in R \/ <<y, x>> \in R

\* s is S in the order R.
SortedAs(s, S, R) ==
    /\ Cardinality(S) \in Nat
    /\ s \in [1..Cardinality(S) -> S]
    /\ \A x \in S : \E k \in 1..Cardinality(S) : s[k] = x
    /\ \A j, k \in 1..Cardinality(S) : j < k => <<s[j], s[k]>> \in R

\* An element's place is one more than the number of elements before it.
LEMMA InOrderSorts ==
    ASSUME NEW S, IsFiniteSet(S), NEW R, StrictOrder(S, R)
    PROVE  SortedAs(InOrder(S, R), S, R)
<1> DEFINE n == Cardinality(S)
           s == InOrder(S, R)
           below(x) == Below(S, R, x)
           rank == [x \in S |-> Cardinality(below(x)) + 1]
<1>1. n \in Nat
  BY FS_CardinalityType
<1>2. ASSUME NEW x \in S
      PROVE  /\ IsFiniteSet(below(x)) /\ below(x) \subseteq S
             /\ Cardinality(below(x)) \in 0..n - 1
  <2>1. below(x) \in SUBSET S /\ x \notin below(x)
    BY DEF StrictOrder, Below
  <2> HIDE DEF below
  <2>2. /\ IsFiniteSet(below(x)) /\ Cardinality(below(x)) <= n
        /\ Cardinality(below(x)) # n
    BY <2>1, FS_Subset
  <2>3. Cardinality(below(x)) \in Nat
    BY <2>2, FS_CardinalityType
  <2>4. QED
    BY <1>1, <2>1, <2>2, <2>3
<1>3. rank \in [S -> 1..n]
  <2> HIDE DEF below
  <2>1. QED
    BY <1>1, <1>2
<1>4. ASSUME NEW x \in S, NEW y \in S, <<x, y>> \in R
      PROVE  rank[x] < rank[y]
  <2>1. below(x) \in SUBSET below(y) /\ x \in below(y) /\ x \notin below(x)
    BY <1>4 DEF StrictOrder, Below
  <2> HIDE DEF below
  <2>2. Cardinality(below(x)) <= Cardinality(below(y))
        /\ Cardinality(below(x)) # Cardinality(below(y))
    BY <1>2, <2>1, FS_Subset
  <2>3. QED
    BY <1>2, <2>2
<1> HIDE DEF rank
<1>5. ASSUME NEW x \in S, NEW y \in S, rank[x] = rank[y] PROVE x = y
  <2>1. rank[x] \in Int /\ rank[y] \in Int
    BY <1>3
  <2>2. <<x, y>> \notin R
    BY <1>4, <1>5, <2>1
  <2>3. <<y, x>> \notin R
    BY <1>4, <1>5, <2>1
  <2>4. QED
    BY <2>2, <2>3 DEF StrictOrder
<1>6. \A k \in 1..n : \E x \in S : rank[x] = k
  <2>1. rank \in Injection(S, 1..n)
    BY <1>3, <1>5 DEF Injection, IsInjective
  <2>2. IsFiniteSet(1..n) /\ Cardinality(1..n) = n
    BY <1>1, FS_Interval
  <2>3. rank \in Surjection(S, 1..n)
    BY <2>1, <2>2, FS_Injection
  <2>4. QED
    BY <2>3 DEF Surjection
<1>7. ASSUME NEW k \in 1..n PROVE s[k] \in S /\ rank[s[k]] = k
  <2>1. PICK x \in S : rank[x] = k
    BY <1>6
  <2>2. Cardinality(below(x)) = k - 1
    <3>1. rank[x] = Cardinality(below(x)) + 1
      BY DEF rank
    <3>2. Cardinality(below(x)) \in Int
      BY <1>2
    <3> HIDE DEF below
    <3>3. QED
      BY <2>1, <3>1, <3>2
  <2>3. s[k] = CHOOSE y \in S : Cardinality(below(y)) = k - 1
    BY DEF InOrder
  <2> HIDE DEF s, below
  <2>4. s[k] \in S /\ Cardinality(below(s[k])) = k - 1
    BY <2>2, <2>3
  <2>5. QED
    BY <2>4 DEF rank
<1>8. s \in [1..n -> S]
  <2>1. s = [k \in 1..n |-> s[k]]
    BY DEF InOrder
  <2> HIDE DEF s, n
  <2>2. QED
    BY <1>7, <2>1
<1> HIDE DEF s, n
<1>9. \A x \in S : \E k \in 1..n : s[k] = x
  BY <1>3, <1>5, <1>7
<1>10. ASSUME NEW j \in 1..n, NEW k \in 1..n, j < k
       PROVE  <<s[j], s[k]>> \in R
  <2>1. s[j] \in S /\ s[k] \in S /\ rank[s[j]] = j /\ rank[s[k]] = k
    BY <1>7
  <2>2. <<s[k], s[j]>> \notin R
    BY <1>1, <1>4, <1>10, <2>1
  <2>3. s[j] # s[k]
    BY <1>1, <1>10, <2>1
  <2>4. QED
    BY <2>1, <2>2, <2>3 DEF StrictOrder
<1>11. QED
  BY <1>1, <1>8, <1>9, <1>10 DEF SortedAs, s, n

\* Numbers in ascending order.
LEMMA AscendingOrder ==
    ASSUME NEW S, S \subseteq Int
    PROVE  StrictOrder(S, Ascending(S))
BY DEF StrictOrder, Ascending

LEMMA OneByOne ==
    ASSUME NEW S, IsFiniteSet(S), NEW T, NEW f \in [S -> T],
           \A x, y \in S : f[x] = f[y] => x = y,
           \A y \in T : \E x \in S : f[x] = y
    PROVE  IsFiniteSet(T) /\ Cardinality(T) = Cardinality(S)
<1>1. f \in Bijection(S, T)
  BY DEF Bijection, Injection, Surjection, IsInjective
<1>2. ExistsBijection(S, T)
  BY <1>1 DEF ExistsBijection
<1>3. QED
  BY <1>2, FS_Bijection

\* What is picked from a sequence is what it has at those places.
LEMMA PickedIs ==
    ASSUME NEW S, NEW s \in Seq(S), NEW I \in SUBSET (1..Len(s))
    PROVE  /\ Cardinality(I) \in Nat
           /\ Picked(s, I) \in [1..Cardinality(I) -> S]
           /\ Picked(s, I) \in Seq(S)
           /\ Len(Picked(s, I)) = Cardinality(I)
           /\ ToSet(Picked(s, I)) = {s[i] : i \in I}
<1> DEFINE order == InOrder(I, Ascending(I))
           n == Cardinality(I)
<1>1. IsFiniteSet(I)
  <2>1. Len(s) \in Nat
    OBVIOUS
  <2>2. IsFiniteSet(1..Len(s))
    BY <2>1, FS_Interval
  <2>3. QED
    BY <2>2, FS_Subset
<1>2. I \subseteq Int
  OBVIOUS
<1>3. SortedAs(order, I, Ascending(I))
  BY <1>1, <1>2, AscendingOrder, InOrderSorts
<1>4. /\ n \in Nat /\ order \in [1..n -> I]
      /\ \A i \in I : \E k \in 1..n : order[k] = i
  BY <1>3 DEF SortedAs
<1>5. Picked(s, I) = [k \in 1..n |-> s[order[k]]]
  BY <1>4 DEF Picked
<1> HIDE DEF order, n
<1>6. \A i \in I : s[i] \in S
  OBVIOUS
<1>7. Picked(s, I) \in [1..n -> S]
  BY <1>4, <1>5, <1>6
<1>8. Picked(s, I) \in Seq(S) /\ Len(Picked(s, I)) = n
  BY <1>4, <1>7
<1>9. ToSet(Picked(s, I)) = {s[i] : i \in I}
  <2>1. ToSet(Picked(s, I)) = {s[order[k]] : k \in 1..n}
    BY <1>4, <1>5 DEF ToSet
  <2>2. QED
    BY <1>4, <2>1
<1>10. QED
  BY <1>4, <1>7, <1>8, <1>9 DEF n

-----------------------------------------------------------------------------
(* Detecting how a boot ended: crash_detector.py. *)

\* A match comes before another of a later pattern, or a later line of its own.
Lexicographic(m, n) == m[1] < n[1] \/ (m[1] = n[1] /\ m[2] < n[2])

LEMMA LexicographicOrder ==
    ASSUME NEW S, S \subseteq Nat \X Nat
    PROVE  StrictOrder(S, {p \in S \X S : Lexicographic(p[1], p[2])})
<1> DEFINE R == {p \in S \X S : Lexicographic(p[1], p[2])}
<1>1. \A x, y \in S : <<x, y>> \in R <=> Lexicographic(x, y)
  BY Zenon
<1>2. \A x \in S : x[1] \in Nat /\ x[2] \in Nat /\ x = <<x[1], x[2]>>
  OBVIOUS
<1> HIDE DEF R
<1>3. \A x \in S : <<x, x>> \notin R
  BY <1>1, <1>2 DEF Lexicographic
<1>4. ASSUME NEW x \in S, NEW y \in S, NEW z \in S,
             Lexicographic(x, y), Lexicographic(y, z)
      PROVE  Lexicographic(x, z)
  BY <1>2, <1>4 DEF Lexicographic
<1>5. ASSUME NEW x \in S, NEW y \in S, x # y
      PROVE  Lexicographic(x, y) \/ Lexicographic(y, x)
  BY <1>2, <1>5 DEF Lexicographic
<1>6. QED
  BY <1>1, <1>3, <1>4, <1>5 DEF StrictOrder, R

\* Each text that a pattern is found in, once.
HitsOf(hits, log, patterns) ==
    /\ hits \in Seq(ToSet(log))
    /\ ToSet(hits) = {e \in ToSet(log) : Says(e, ToSet(patterns))}
    /\ \A i, j \in 1..Len(hits) : hits[i] = hits[j] => i = j

LEMMA HitsFound ==
    ASSUME NEW S, NEW log \in Seq(S),
           NEW patterns, NEW count \in Nat, DOMAIN patterns = 1..count
    PROVE  HitsOf(Hits(log, patterns), log, patterns)
<1> DEFINE found == {m \in (DOMAIN patterns) \X (DOMAIN log) :
                       Says(log[m[2]], {patterns[m[1]]})}
           new == {m \in found :
                     \A n \in found : Lexicographic(n, m) => log[n[2]] # log[m[2]]}
           R(N) == {p \in N \X N : Lexicographic(p[1], p[2])}
           order == InOrder(new, R(new))
           hits == [k \in DOMAIN order |-> log[order[k][2]]]
<1>1. Hits(log, patterns) = hits
  BY DEF Hits, Sorted, Lexicographic
<1>2. /\ DOMAIN patterns = 1..count /\ count \in Nat
      /\ DOMAIN log = 1..Len(log) /\ Len(log) \in Nat
  OBVIOUS
<1>3. IsFiniteSet(found) /\ found \subseteq Nat \X Nat
  <2>1. IsFiniteSet(DOMAIN patterns) /\ IsFiniteSet(DOMAIN log)
    BY <1>2, FS_Interval
  <2>2. IsFiniteSet((DOMAIN patterns) \X (DOMAIN log))
    BY <2>1, FS_Product
  <2>3. found \in SUBSET ((DOMAIN patterns) \X (DOMAIN log))
    OBVIOUS
  <2>4. (DOMAIN patterns) \X (DOMAIN log) \subseteq Nat \X Nat
    BY <1>2
  <2> HIDE DEF found
  <2>5. QED
    BY <2>2, <2>3, <2>4, FS_Subset
<1>4. ASSUME NEW N \in SUBSET found
      PROVE  SortedAs(InOrder(N, R(N)), N, R(N)) /\ StrictOrder(N, R(N))
  <2> HIDE DEF found
  <2>1. IsFiniteSet(N) /\ N \subseteq Nat \X Nat
    BY <1>3, FS_Subset
  <2>2. StrictOrder(N, R(N))
    BY <2>1, LexicographicOrder
  <2> HIDE DEF R
  <2>3. QED
    BY <2>1, <2>2, InOrderSorts
<1>5. new \in SUBSET found
  OBVIOUS
<1>6. \A m \in found : m[2] \in 1..Len(log) /\ log[m[2]] \in ToSet(log)
  BY <1>2 DEF ToSet
\* Every text that was found is found first somewhere.
<1>7. ASSUME NEW m \in found PROVE \E n \in new : log[n[2]] = log[m[2]]
  <2> DEFINE same == {n \in found : log[n[2]] = log[m[2]]}
             s == InOrder(same, R(same))
  <2>1. same \in SUBSET found /\ m \in same
    OBVIOUS
  <2>2. SortedAs(s, same, R(same)) /\ StrictOrder(same, R(same))
    BY <1>4, <2>1
  <2>3. PICK k \in 1..Cardinality(same) : s[k] = m
    BY <2>1, <2>2 DEF SortedAs
  <2>4. /\ Cardinality(same) \in Nat /\ 1 \in 1..Cardinality(same)
        /\ s[1] \in same
    <3> HIDE DEF s, same
    <3>1. /\ Cardinality(same) \in Nat
          /\ s \in [1..Cardinality(same) -> same]
      BY <2>2 DEF SortedAs
    <3>2. 1 \in 1..Cardinality(same)
      BY <2>3, <3>1
    <3>3. QED
      BY <3>1, <3>2
  <2>5. ASSUME NEW n \in same PROVE ~Lexicographic(n, s[1])
    <3> HIDE DEF s, same, R
    <3>1. PICK j \in 1..Cardinality(same) : s[j] = n
      BY <2>2 DEF SortedAs
    <3>2. 1 < j \/ n = s[1]
      BY <2>4, <3>1
    <3>3. <<s[1], n>> \in R(same) \/ n = s[1]
      BY <2>2, <2>4, <3>1, <3>2 DEF SortedAs
    <3> USE DEF s, same, R
    <3>4. <<n, s[1]>> \notin R(same)
      <4> HIDE DEF R, s, same
      <4>1. QED
        BY <2>2, <2>4, <3>3 DEF StrictOrder
    <3> HIDE DEF s, same
    <3>5. QED
      BY <2>4, <3>4
  <2>6. s[1] \in new
    <3> HIDE DEF s, found
    <3>1. QED
      BY <2>4, <2>5
  <2>7. QED
    BY <2>4, <2>6
<1>8. ASSUME NEW m \in new, NEW n \in new, log[m[2]] = log[n[2]]
      PROVE  m = n
  <2>1. ~Lexicographic(m, n) /\ ~Lexicographic(n, m)
    BY <1>8
  <2> HIDE DEF new
  <2>2. <<m, n>> \notin R(new) /\ <<n, m>> \notin R(new)
    BY <2>1, Zenon
  <2>3. QED
    BY <1>4, <1>5, <2>2 DEF StrictOrder
<1>9. /\ Cardinality(new) \in Nat
      /\ order \in [1..Cardinality(new) -> new]
      /\ \A m \in new : \E k \in 1..Cardinality(new) : order[k] = m
      /\ \A j, k \in 1..Cardinality(new) : j < k => <<order[j], order[k]>> \in R(new)
  BY <1>4, <1>5 DEF SortedAs
<1> DEFINE n == Cardinality(new)
<1> HIDE DEF n
<1>n. n \in Nat
  BY <1>9 DEF n
<1>10. \A j, k \in 1..n : order[j] = order[k] => j = k
  <2> HIDE DEF order, R, new
  <2>1. StrictOrder(new, R(new))
    BY <1>4, <1>5
  <2>2. ASSUME NEW j \in 1..n, NEW k \in 1..n, j < k PROVE order[j] # order[k]
    <3>1. <<order[j], order[k]>> \in R(new) /\ order[j] \in new
      BY <1>9, <2>2 DEF n
    <3>2. QED
      BY <2>1, <3>1 DEF StrictOrder
  <2>3. QED
    BY <1>n, <2>2
<1>11. hits \in [1..n -> ToSet(log)]
  <2> HIDE DEF order, n, found
  <2>1. \A k \in 1..n : order[k] \in found
    BY <1>5, <1>9 DEF n
  <2>2. QED
    BY <1>6, <1>9, <2>1 DEF n
<1>12. hits \in Seq(ToSet(log)) /\ Len(hits) = n
  <2> HIDE DEF hits
  <2>1. QED
    BY <1>n, <1>11
<1>13. \A i, j \in 1..n : hits[i] = hits[j] => i = j
  <2> HIDE DEF order, new, found
  <2>1. QED
    BY <1>8, <1>9, <1>10 DEF n
<1>14. ToSet(hits) = {e \in ToSet(log) : Says(e, ToSet(patterns))}
  <2>1. ASSUME NEW e \in ToSet(hits)
        PROVE  e \in ToSet(log) /\ Says(e, ToSet(patterns))
    <3>1. PICK k \in 1..n : e = hits[k]
      BY <1>11 DEF ToSet
    <3>2. PICK m \in found : e = log[m[2]]
      <4> HIDE DEF order, new, found
      <4>1. QED
        BY <1>5, <1>9, <3>1 DEF n
    <3>3. Says(e, {patterns[m[1]]}) /\ m[1] \in DOMAIN patterns
      BY <3>2
    <3>4. Says(e, ToSet(patterns))
      BY <3>3 DEF Says, ToSet
    <3>5. QED
      BY <1>6, <3>2, <3>4
  <2>2. ASSUME NEW e \in ToSet(log), Says(e, ToSet(patterns))
        PROVE  e \in ToSet(hits)
    <3>1. PICK i \in DOMAIN log : e = log[i]
      BY DEF ToSet
    <3>2. PICK p \in DOMAIN patterns : patterns[p] \in Matches[e.line]
      BY <2>2 DEF Says, ToSet
    <3>3. <<p, i>> \in found
      BY <3>1, <3>2 DEF Says
    <3> HIDE DEF found
    <3>4. PICK m \in new : log[m[2]] = e
      BY <1>7, <3>1, <3>3
    <3> HIDE DEF new, order
    <3>5. PICK k \in 1..n : order[k] = m
      BY <1>9 DEF n
    <3>6. QED
      BY <1>9, <1>11, <3>4, <3>5 DEF ToSet, n
  <2> HIDE DEF hits
  <2>3. QED
    BY <2>1, <2>2
<1> HIDE DEF hits
<1>15. QED
  BY <1>1, <1>12, <1>13, <1>14 DEF HitsOf

\* The entries that are evidence of a rule.
Own(log, rule) ==
    {e \in ToSet(log) :
        /\ Says(e, ToSet(rule.patterns))
        /\ rule.type = "kernel_panic" \/ ~Says(e, {"panic"})}

\* What the rules are.
LEMMA RuleFacts ==
    /\ DOMAIN Rules = 1..8
    /\ \A i \in 1..8 : /\ Rules[i].severity \in {"critical", "high"}
                       /\ Rules[i].type \in CrashType
                       /\ Rules[i].type \notin {"clean_shutdown", "power_loss", "unknown"}
                       /\ \E n \in Nat : DOMAIN Rules[i].patterns = 1..n
    /\ \A i, j \in 1..8 : Rules[i].type = Rules[j].type => i = j
    /\ Rules[1].type = "kernel_panic"
    /\ ToSet(Rules[1].patterns) = {"panic", "oops"}
<1>1. DOMAIN Rules = 1..8
  BY DEF Rules
<1>2. \A i \in 1..8 : i \in {1, 2, 3, 4, 5, 6, 7, 8}
  OBVIOUS
<1>3. /\ Rules[1].type = "kernel_panic"
      /\ Rules[2].type = "machine_check_exception"
      /\ Rules[3].type = "oom_kill"
      /\ Rules[4].type = "thermal_shutdown"
      /\ Rules[5].type = "watchdog_reset"
      /\ Rules[6].type = "soft_lockup"
      /\ Rules[7].type = "gpu_fault"
      /\ Rules[8].type = "disk_error"
  BY DEF Rules, Rule
<1>4. /\ Rules[1].severity = "critical"
      /\ Rules[2].severity = "critical"
      /\ Rules[3].severity = "high"
      /\ Rules[4].severity = "high"
      /\ Rules[5].severity = "high"
      /\ Rules[6].severity = "high"
      /\ Rules[7].severity = "high"
      /\ Rules[8].severity = "high"
  BY DEF Rules, Rule
<1> HIDE DEF Rules
<1>6. \A i \in 1..8 : Rules[i].severity \in {"critical", "high"}
  BY <1>2, <1>4
<1>7. \A i \in 1..8 : Rules[i].type \in CrashType
  BY <1>1 DEF CrashType
<1>8. \A i \in 1..8 :
         Rules[i].type \notin {"clean_shutdown", "power_loss", "unknown"}
  BY <1>2, <1>3
<1>9. \A i \in 1..8 : \E n \in Nat : DOMAIN Rules[i].patterns = 1..n
  <2>1. DOMAIN Rules[1].patterns = 1..2
    BY DEF Rules, Rule
  <2>2. DOMAIN Rules[2].patterns = 1..2
    BY DEF Rules, Rule
  <2>3. DOMAIN Rules[3].patterns = 1..1
    BY DEF Rules, Rule
  <2>4. DOMAIN Rules[4].patterns = 1..1
    BY DEF Rules, Rule
  <2>5. DOMAIN Rules[5].patterns = 1..1
    BY DEF Rules, Rule
  <2>6. DOMAIN Rules[6].patterns = 1..2
    BY DEF Rules, Rule
  <2>7. DOMAIN Rules[7].patterns = 1..2
    BY DEF Rules, Rule
  <2>8. DOMAIN Rules[8].patterns = 1..1
    BY DEF Rules, Rule
  <2>9. QED
    BY <1>2, <2>1, <2>2, <2>3, <2>4, <2>5, <2>6, <2>7, <2>8
<1>10. \A i, j \in 1..8 : Rules[i].type = Rules[j].type => i = j
  BY <1>2, <1>3
<1>11. ToSet(Rules[1].patterns) = {"panic", "oops"}
  <2>1. ToSet(<<"panic", "oops">>) = {"panic", "oops"}
    BY DEF ToSet
  <2>2. Rules[1].patterns = <<"panic", "oops">>
    BY DEF Rules, Rule
  <2>3. QED
    BY <2>1, <2>2
<1>12. QED
  BY <1>1, <1>3, <1>6, <1>7, <1>8, <1>9, <1>10, <1>11

\* A rule's evidence is counted once for each entry that shows it.
OwnHitsOf(hits, log, rule) ==
    /\ hits \in Seq(ToSet(log))
    /\ ToSet(hits) = Own(log, rule)
    /\ IsFiniteSet(Own(log, rule))
    /\ Len(hits) = Cardinality(Own(log, rule))

LEMMA OwnHitsFound ==
    ASSUME NEW log \in Seq(Entry), NEW i \in 1..8
    PROVE  OwnHitsOf(OwnHits(log, Rules[i]), log, Rules[i])
<1> DEFINE rule == Rules[i]
           hits == Hits(log, rule.patterns)
           panics == rule.type = "kernel_panic"
           kept == IF panics THEN 1..Len(hits)
                   ELSE {k \in 1..Len(hits) : ~Says(hits[k], {"panic"})}
           own == OwnHits(log, rule)
           chosen == {hits[k] : k \in kept}
<1>1. HitsOf(hits, log, rule.patterns)
  BY RuleFacts, HitsFound
<1>2. /\ hits \in Seq(ToSet(log)) /\ Len(hits) \in Nat
      /\ DOMAIN hits = 1..Len(hits)
      /\ \A j, k \in 1..Len(hits) : hits[j] = hits[k] => j = k
      /\ ToSet(hits) = {e \in ToSet(log) : Says(e, ToSet(rule.patterns))}
  BY <1>1 DEF HitsOf
<1>3. own = IF panics THEN hits
            ELSE Picked(hits, {k \in DOMAIN hits : ~Says(hits[k], {"panic"})})
  BY DEF OwnHits
<1> HIDE DEF hits, rule, own
<1>4. kept \in SUBSET (1..Len(hits)) /\ IsFiniteSet(kept)
  <2>1. kept \in SUBSET (1..Len(hits))
    OBVIOUS
  <2>2. IsFiniteSet(1..Len(hits))
    BY <1>2, FS_Interval
  <2>3. QED
    BY <2>1, <2>2, FS_Subset
<1>5. /\ own \in Seq(ToSet(log)) /\ Len(own) = Cardinality(kept)
      /\ ToSet(own) = chosen
  <2>1. CASE panics
    <3>1. own = hits /\ kept = 1..Len(hits)
      BY <1>3, <2>1
    <3>2. Cardinality(1..Len(hits)) = Len(hits)
      BY <1>2, UpTo
    <3>3. ToSet(hits) = {hits[k] : k \in 1..Len(hits)}
      BY <1>2 DEF ToSet
    <3> HIDE DEF kept
    <3>4. QED
      BY <1>2, <3>1, <3>2, <3>3
  <2>2. CASE ~panics
    <3>1. own = Picked(hits, kept)
      BY <1>2, <1>3, <2>2
    <3> HIDE DEF kept
    <3>2. /\ Picked(hits, kept) \in Seq(ToSet(log))
          /\ Len(Picked(hits, kept)) = Cardinality(kept)
          /\ ToSet(Picked(hits, kept)) = {hits[k] : k \in kept}
      BY <1>2, <1>4, PickedIs
    <3>3. QED
      BY <3>1, <3>2
  <2>3. QED
    BY <2>1, <2>2
<1>6. chosen = Own(log, rule)
  <2>1. ToSet(hits) = {hits[k] : k \in 1..Len(hits)}
    BY <1>2 DEF ToSet
  <2>2. \A e : e \in chosen <=>
          e \in ToSet(hits) /\ (panics \/ ~Says(e, {"panic"}))
    BY <2>1
  <2>3. \A e : e \in Own(log, rule) <=>
          e \in ToSet(hits) /\ (panics \/ ~Says(e, {"panic"}))
    BY <1>2 DEF Own
  <2> HIDE DEF chosen
  <2>4. QED
    BY <2>2, <2>3
<1>7. IsFiniteSet(chosen) /\ Cardinality(chosen) = Cardinality(kept)
  <2> DEFINE f == [k \in kept |-> hits[k]]
  <2>1. f \in [kept -> chosen]
    OBVIOUS
  <2>2. \A y \in chosen : \E x \in kept : f[x] = y
    OBVIOUS
  <2>3. \A x, y \in kept : f[x] = f[y] => x = y
    <3>1. \A x \in kept : f[x] = hits[x]
      OBVIOUS
    <3> HIDE DEF f, kept
    <3>2. QED
      BY <1>2, <1>4, <3>1
  <2> HIDE DEF f, chosen, kept
  <2>4. QED
    BY <1>4, <2>1, <2>2, <2>3, OneByOne
<1>8. QED
  BY <1>5, <1>6, <1>7 DEF OwnHitsOf, own, rule

\* A confidence grows with the hits to its limit; hardware raises it no further.
LEMMA ConfidenceNumbers ==
    ASSUME NEW n \in Nat
    PROVE  /\ Confidence(n) \in 500..950
           /\ Raised(Confidence(n)) \in Confidence(n)..950
           /\ n < 5 => Confidence(n) = 500 + 100 * n
           /\ n >= 5 => Confidence(n) = 950
<1>1. 100 * n \in Nat /\ (n < 5 => 100 * n <= 400) /\ (n >= 5 => 100 * n >= 500)
  OBVIOUS
<1>2. QED
  BY <1>1 DEF Confidence, Raised, Least

\* The logs hold entries.
LogsOK(t) ==
    /\ t.journal \in Seq(Entry) /\ t.dmesg \in Seq(Entry) /\ t.xids \in Seq(Entry)

LEMMA CorpusOK == ASSUME NEW t, LogsOK(t) PROVE Corpus(t) \in Seq(Entry)
BY DEF LogsOK, Corpus

\* How much evidence of its own the i-th rule has.
Count(t, i) == Cardinality(Own(Corpus(t), Rules[i]))

\* What a match says of its rule.
MatchOf(m, t, i) ==
    /\ m.type = Rules[i].type /\ m.severity = Rules[i].severity
    /\ m.evidence \in Seq(Entry) /\ (m.evidence = <<>> <=> Count(t, i) = 0)
    /\ m.confidence = IF HardwareSupports(t, Rules[i].type)
                      THEN Raised(Confidence(Count(t, i)))
                      ELSE Confidence(Count(t, i))
    /\ m.confidence \in Int /\ m.confidence >= 500 /\ m.confidence <= 950
    /\ m.sources = <<>> /\ m.alternatives = <<>> /\ m.abrupt = {}

\* Its parts, for matches that are not to be expanded.
LEMMA MatchSays ==
    ASSUME NEW m, NEW t, NEW i, MatchOf(m, t, i)
    PROVE  /\ m.type = Rules[i].type /\ m.severity = Rules[i].severity
           /\ m.evidence = <<>> <=> Count(t, i) = 0
           /\ m.confidence \in Int
BY Zenon DEF MatchOf

LEMMA Matching ==
    ASSUME NEW t, LogsOK(t), NEW i \in 1..8
    PROVE  Count(t, i) \in Nat /\ MatchOf(Matched(t)[i], t, i)
<1> DEFINE hits == OwnHits(Corpus(t), Rules[i])
           m == Matched(t)[i]
           kept == SubSeq(hits, 1, Least(MaxEvidence, Len(hits)))
<1>1. OwnHitsOf(hits, Corpus(t), Rules[i])
  BY CorpusOK, OwnHitsFound
<1>2. /\ hits \in Seq(Entry) /\ Len(hits) = Count(t, i)
  <2>1. ToSet(Corpus(t)) \subseteq Entry
    BY CorpusOK DEF ToSet
  <2>2. hits \in Seq(ToSet(Corpus(t))) /\ Len(hits) = Count(t, i)
    BY <1>1 DEF OwnHitsOf, Count
  <2> HIDE DEF hits
  <2>3. QED
    BY <2>1, <2>2
<1>3. m = Match(t, Rules[i], hits)
  BY RuleFacts DEF Matched
<1> HIDE DEF hits, m
<1>4. Count(t, i) \in Nat
  BY <1>2
<1>5. /\ m.type = Rules[i].type /\ m.severity = Rules[i].severity
      /\ m.evidence = kept
      /\ m.sources = <<>> /\ m.alternatives = <<>> /\ m.abrupt = {}
  BY <1>3 DEF Match, Detection
<1>6. m.confidence = IF HardwareSupports(t, Rules[i].type)
                     THEN Raised(Confidence(Count(t, i)))
                     ELSE Confidence(Count(t, i))
  BY <1>2, <1>3 DEF Match, Detection
<1>7. m.confidence \in Int /\ m.confidence >= 500 /\ m.confidence <= 950
  <2>1. /\ Confidence(Count(t, i)) \in 500..950
        /\ Raised(Confidence(Count(t, i))) \in Confidence(Count(t, i))..950
    BY <1>4, ConfidenceNumbers
  <2>2. QED
    BY <1>6, <2>1
<1>8. kept \in Seq(Entry) /\ (kept = <<>> <=> Count(t, i) = 0)
  <2>1. MaxEvidence \in Nat \ {0}
    BY CrashDetectorAssumption
  <2>2. Least(MaxEvidence, Len(hits)) \in 0..Len(hits)
        /\ (Least(MaxEvidence, Len(hits)) = 0 <=> Len(hits) = 0)
    BY <1>2, <2>1 DEF Least
  <2>3. kept \in Seq(Entry) /\ Len(kept) = Least(MaxEvidence, Len(hits))
    BY <1>2, <2>2
  <2> HIDE DEF kept
  <2>4. kept = <<>> <=> Len(kept) = 0
    BY <2>3
  <2>5. QED
    BY <1>2, <2>2, <2>3, <2>4
<1>9. QED
  BY <1>4, <1>5, <1>6, <1>7, <1>8 DEF MatchOf, m

\* The order of the matches.
Prior(matched, i, j) ==
    LET a == matched[i]
        b == matched[j]
    IN \/ a.confidence > b.confidence
       \/ /\ a.confidence = b.confidence
          /\ \/ Rank[a.severity] < Rank[b.severity]
             \/ a.severity = b.severity /\ i < j

\* The rules that have evidence.
Shown(t) == {i \in 1..8 : Count(t, i) # 0}

\* The matches with evidence, in order.
RankedAs(order, ranked, t) ==
    /\ Cardinality(Shown(t)) \in Nat
    /\ order \in [1..Cardinality(Shown(t)) -> Shown(t)]
    /\ \A i \in Shown(t) : \E k \in 1..Cardinality(Shown(t)) : order[k] = i
    /\ \A j, k \in 1..Cardinality(Shown(t)) :
          j < k => Prior(Matched(t), order[j], order[k])
    /\ ranked = [k \in 1..Cardinality(Shown(t)) |-> Matched(t)[order[k]]]

LEMMA PriorOrder ==
    ASSUME NEW t, LogsOK(t)
    PROVE  StrictOrder(Shown(t), {p \in Shown(t) \X Shown(t) :
                                    Prior(Matched(t), p[1], p[2])})
<1> DEFINE S == Shown(t)
           M == Matched(t)
           before(i, j) == Prior(M, i, j)
           R == {p \in S \X S : before(p[1], p[2])}
<1>1. \A i \in 1..8 : /\ M[i].confidence \in Int
                      /\ M[i].severity \in {"critical", "high"}
  <2>1. ASSUME NEW i \in 1..8 PROVE MatchOf(M[i], t, i)
    BY Matching
  <2>2. \A i \in 1..8 : Rules[i].severity \in {"critical", "high"}
    BY RuleFacts
  <2> HIDE DEF M
  <2>3. \A i \in 1..8 : /\ M[i].severity = Rules[i].severity
                        /\ M[i].confidence \in Int
    BY <2>1, MatchSays, Zenon
  <2>4. ASSUME NEW i \in 1..8 PROVE M[i].confidence \in Int
    BY <2>3
  <2>5. ASSUME NEW i \in 1..8 PROVE M[i].severity \in {"critical", "high"}
    BY <2>2, <2>3
  <2>6. QED
    BY <2>4, <2>5
<1>2. Rank["critical"] = 0 /\ Rank["high"] = 1
  BY DEF Rank
<1>3. S \in SUBSET (1..8)
  BY DEF Shown
<1> HIDE DEF S, M
<1>4. ASSUME NEW i \in S PROVE ~before(i, i)
  BY <1>1, <1>2, <1>3 DEF Prior
<1>5. ASSUME NEW i \in S, NEW j \in S, NEW k \in S, before(i, j), before(j, k)
      PROVE  before(i, k)
  BY <1>1, <1>2, <1>3, <1>5 DEF Prior
<1>6. ASSUME NEW i \in S, NEW j \in S, i # j PROVE before(i, j) \/ before(j, i)
  BY <1>1, <1>2, <1>3, <1>6 DEF Prior
<1> HIDE DEF before
<1>7. \A i, j \in S : <<i, j>> \in R <=> before(i, j)
  BY Zenon
<1> HIDE DEF R
<1>8. StrictOrder(S, R)
  BY <1>4, <1>5, <1>6, <1>7 DEF StrictOrder
<1>9. QED
  BY <1>8 DEF R, S, M, before

LEMMA Ranking ==
    ASSUME NEW t, LogsOK(t)
    PROVE  \E order : RankedAs(order, Ranked(Matched(t)), t)
<1> DEFINE S == Shown(t)
           M == Matched(t)
           order == InOrder(S, {p \in S \X S : Prior(M, p[1], p[2])})
<1>1. DOMAIN M = 1..8 /\ {i \in DOMAIN M : M[i].evidence # <<>>} = S
  <2>1. DOMAIN M = 1..8
    BY RuleFacts DEF Matched
  <2>2. \A i \in 1..8 : M[i].evidence # <<>> <=> Count(t, i) # 0
    <3>1. ASSUME NEW i \in 1..8 PROVE MatchOf(M[i], t, i)
      BY Matching
    <3> HIDE DEF M
    <3>2. ASSUME NEW i \in 1..8 PROVE M[i].evidence = <<>> <=> Count(t, i) = 0
      <4>1. MatchOf(M[i], t, i)
        BY <3>1
      <4>2. QED
        BY <4>1, MatchSays
    <3>3. QED
      BY <3>2
  <2> HIDE DEF M
  <2>3. QED
    BY <2>1, <2>2 DEF Shown
<1>2. SortedAs(order, S, {p \in S \X S : Prior(M, p[1], p[2])})
  <2>1. IsFiniteSet(S)
    <3>1. IsFiniteSet(1..8) /\ S \in SUBSET (1..8)
      BY UpTo DEF Shown
    <3>2. QED
      BY <3>1, FS_Subset
  <2>2. QED
    BY <2>1, PriorOrder, InOrderSorts
<1>3. Ranked(M) = [k \in DOMAIN order |-> M[order[k]]]
  <2>1. Ranked(M) =
          LET o == InOrder({i \in DOMAIN M : M[i].evidence # <<>>},
                           {p \in {i \in DOMAIN M : M[i].evidence # <<>>}
                                   \X {i \in DOMAIN M : M[i].evidence # <<>>} :
                              Prior(M, p[1], p[2])})
          IN [k \in DOMAIN o |-> M[o[k]]]
    BY DEF Ranked, Sorted, Prior
  <2> HIDE DEF M, S
  <2>2. QED
    BY <1>1, <2>1
<1> HIDE DEF S, M
<1>4. /\ Cardinality(S) \in Nat /\ order \in [1..Cardinality(S) -> S]
      /\ \A i \in S : \E k \in 1..Cardinality(S) : order[k] = i
      /\ \A j, k \in 1..Cardinality(S) : j < k => Prior(M, order[j], order[k])
  <2> HIDE DEF order
  <2>1. /\ Cardinality(S) \in Nat /\ order \in [1..Cardinality(S) -> S]
        /\ \A i \in S : \E k \in 1..Cardinality(S) : order[k] = i
    BY <1>2 DEF SortedAs
  <2>2. ASSUME NEW j \in 1..Cardinality(S), NEW k \in 1..Cardinality(S), j < k
        PROVE  Prior(M, order[j], order[k])
    <3>1. <<order[j], order[k]>> \in {p \in S \X S : Prior(M, p[1], p[2])}
      BY <1>2, <2>2 DEF SortedAs
    <3>2. QED
      BY <3>1, Zenon
  <2>3. QED
    BY <2>1, <2>2
<1> HIDE DEF order
<1>5. RankedAs(order, Ranked(M), t)
  BY <1>3, <1>4 DEF RankedAs, S, M
<1>6. QED
  BY <1>5 DEF M

\* A set in some order.
LEMMA Listed ==
    ASSUME NEW S, IsFiniteSet(S)
    PROVE  /\ SetToSeq(S) \in Seq(S) /\ Len(SetToSeq(S)) = Cardinality(S)
           /\ \A x : (\E i \in DOMAIN SetToSeq(S) : SetToSeq(S)[i] = x) <=> x \in S
<1> DEFINE n == Cardinality(S)
           s == SetToSeq(S)
<1>1. n \in Nat /\ ExistsBijection(1..n, S)
  BY FS_CardinalityType
<1>2. PICK f \in Bijection(1..n, S) : TRUE
  BY <1>1 DEF ExistsBijection
<1>3. f \in [1..n -> S] /\ IsInjective(f)
  BY <1>2 DEF Bijection, Injection
<1>4. s \in [1..n -> S] /\ IsInjective(s)
  BY <1>3 DEF SetToSeq
<1> HIDE DEF s
<1>5. s \in Injection(1..n, S)
  BY <1>4 DEF Injection
<1>6. IsFiniteSet(1..n) /\ Cardinality(1..n) = n
  BY <1>1, UpTo
<1>7. s \in Surjection(1..n, S)
  BY <1>5, <1>6, FS_Injection
<1>8. \A x : (\E i \in DOMAIN s : s[i] = x) <=> x \in S
  BY <1>4, <1>7 DEF Surjection
<1> HIDE DEF n
<1>9. s \in Seq(S) /\ Len(s) = n
  BY <1>1, <1>4
<1>10. QED
  BY <1>8, <1>9 DEF s, n

LEMMA DescribedFinite == ASSUME NEW a PROVE IsFiniteSet(Described(a))
<1> DEFINE load == IF JustStarted(a) # {} THEN {"heavy_job"}
                   ELSE IF a.starts # <<>> THEN {"last_start"}
                   ELSE {"nothing_started"}
           down == IF a.down = "long" THEN {"stayed_dead"}
                   ELSE IF a.down = "short" THEN {"fits_a_reset"}
                   ELSE {}
           again == IF Recurring(a) THEN {"not_the_first_time"} ELSE {}
<1>1. \A x : IsFiniteSet({x})
  BY FS_Singleton
<1>2. IsFiniteSet({})
  BY FS_EmptySet
<1>3. IsFiniteSet({"no_shutdown_sequence", "no_known_message"})
  <2>1. IsFiniteSet({"no_shutdown_sequence"} \cup {"no_known_message"})
    BY <1>1, FS_AddElement
  <2>2. {"no_shutdown_sequence"} \cup {"no_known_message"}
          = {"no_shutdown_sequence", "no_known_message"}
    OBVIOUS
  <2>3. QED
    BY <2>1, <2>2
<1>4. IsFiniteSet(load) /\ IsFiniteSet(down) /\ IsFiniteSet(again)
  BY <1>1, <1>2
<1>5. Described(a) = {"no_shutdown_sequence", "no_known_message"}
                       \cup load \cup down \cup again
  BY DEF Described
<1> HIDE DEF load, down, again
<1>6. QED
  BY <1>3, <1>4, <1>5, FS_Union

\* A shutdown that the log shows.
CleanDetection(d, t) ==
    /\ d.type = "clean_shutdown" /\ d.severity = "info" /\ d.confidence = 850
    /\ d.alternatives = <<>> /\ d.abrupt = {}
    /\ ~HasPanic(Corpus(t))

\* The match that comes first, with the others as alternatives.
RankedDetection(d, t) ==
    \E order :
       /\ RankedAs(order, Ranked(Matched(t)), t)
       /\ Cardinality(Shown(t)) > 0
       /\ d.type = Rules[order[1]].type /\ d.severity = Rules[order[1]].severity
       /\ d.confidence = Matched(t)[order[1]].confidence
       /\ d.abrupt = {}
       /\ d.alternatives = [k \in 1..Cardinality(Shown(t)) - 1 |->
                              Alternative(Matched(t)[order[k + 1]])]

\* A log that just stops.
StopDetection(d, t) ==
    \E a : /\ d.type = "power_loss" /\ d.severity = "high"
           /\ d.confidence = AbruptConfidence(a)
           /\ d.alternatives = <<>> /\ d.abrupt = {a}
           /\ \A w : (\E i \in DOMAIN d.evidence : d.evidence[i] = w)
                        <=> w \in Described(a)

\* Nothing is known of the end.
PlainDetection(d, t) ==
    /\ \/ d.type = "power_loss" /\ d.severity = "high" /\ d.confidence = 550
       \/ d.type = "unknown" /\ d.severity = "medium" /\ d.confidence = 300
    /\ d.alternatives = <<>> /\ d.abrupt = {}

\* Every item of evidence has its source.
Sourced(d) == d.evidence # <<>> /\ Len(d.sources) = Len(d.evidence)

LEMMA SourcesOfEach ==
    ASSUME NEW S, NEW e \in Seq(S), NEW t
    PROVE  Len(SourcesOf(t, e)) = Len(e)
<1> DEFINE s == SourcesOf(t, e)
<1>1. s = [i \in 1..Len(e) |-> SourceOf(t, e[i])] /\ Len(e) \in Nat
  BY DEF SourcesOf
<1> HIDE DEF s
<1>2. QED
  BY <1>1 DEF s

LEMMA ShutdownHitsOK ==
    ASSUME NEW t, LogsOK(t)
    PROVE  \E S : ShutdownHits(t) \in Seq(S)
<1> DEFINE hits == Hits(Corpus(t), ShutdownSequence)
<1>1. HitsOf(hits, Corpus(t), ShutdownSequence)
  <2>1. DOMAIN ShutdownSequence = 1..1
    BY DEF ShutdownSequence
  <2>2. QED
    BY <2>1, CorpusOK, HitsFound
<1>2. hits \in Seq(ToSet(Corpus(t)))
  BY <1>1 DEF HitsOf
<1>3. /\ <<Last(t.journal)>> \in Seq({Last(t.journal)})
      /\ <<>> \in Seq({})
  OBVIOUS
<1>4. \/ ShutdownHits(t) = hits \/ ShutdownHits(t) = <<Last(t.journal)>>
      \/ ShutdownHits(t) = <<>>
  BY DEF ShutdownHits
<1> HIDE DEF hits
<1>5. QED
  BY <1>2, <1>3, <1>4, Zenon

\* What is detected without a match.
LEMMA NoMatchIs ==
    ASSUME NEW t
    PROVE  /\ StopDetection(NoMatch(t), t) \/ PlainDetection(NoMatch(t), t)
           /\ Sourced(NoMatch(t))
<1> DEFINE d == NoMatch(t)
           a == CHOOSE x \in AbruptEnd(t) : TRUE
           said == SetToSeq(Described(a))
<1>1. CASE AbruptEnd(t) # {}
  <2>1. d = [Detection("power_loss", "high", AbruptConfidence(a), said)
               EXCEPT !.sources = [i \in 1..Cardinality(Described(a)) |-> "journal"],
                      !.abrupt = {a}]
    BY <1>1 DEF NoMatch
  <2> HIDE DEF d, a, said
  <2>2. /\ d.type = "power_loss" /\ d.severity = "high"
        /\ d.confidence = AbruptConfidence(a)
        /\ d.alternatives = <<>> /\ d.abrupt = {a} /\ d.evidence = said
        /\ d.sources = [i \in 1..Cardinality(Described(a)) |-> "journal"]
    BY <2>1 DEF Detection
  <2>3. /\ said \in Seq(Described(a)) /\ Len(said) = Cardinality(Described(a))
        /\ \A w : (\E i \in DOMAIN said : said[i] = w) <=> w \in Described(a)
    BY DescribedFinite, Listed DEF said
  <2>4. StopDetection(d, t)
    BY <2>2, <2>3 DEF StopDetection
  <2>5. Len(d.sources) = Len(d.evidence)
    <3>1. Cardinality(Described(a)) \in Nat
      BY DescribedFinite, FS_CardinalityType
    <3> DEFINE s == [i \in 1..Cardinality(Described(a)) |-> "journal"]
    <3>2. Len(s) = Cardinality(Described(a))
      BY <3>1
    <3>3. QED
      BY <2>2, <2>3, <3>2
  <2>6. d.evidence # <<>>
    <3>1. "no_known_message" \in Described(a)
      BY DEF Described
    <3>2. \E i \in DOMAIN said : said[i] = "no_known_message"
      BY <2>3, <3>1
    <3>3. said # <<>>
      BY <3>2
    <3>4. QED
      BY <2>2, <3>3
  <2>7. QED
    BY <2>4, <2>5, <2>6 DEF d, Sourced
<1>2. CASE AbruptEnd(t) = {}
  <2> DEFINE loss == [Detection("power_loss", "high", 550, <<"no_shutdown_record">>)
                        EXCEPT !.sources = <<"system">>]
             other == [Detection("unknown", "medium", 300, <<"no_clear_signature">>)
                         EXCEPT !.sources = <<"system">>]
  <2>1. d = loss \/ d = other
    BY <1>2 DEF NoMatch
  <2>2. PlainDetection(loss, t) /\ PlainDetection(other, t)
    BY DEF PlainDetection, Detection
  <2>3. Sourced(loss) /\ Sourced(other)
    BY DEF Sourced, Detection
  <2> HIDE DEF d, loss, other
  <2>4. QED
    BY <2>1, <2>2, <2>3 DEF d
<1>3. QED
  BY <1>1, <1>2

\* A detection is of one of four kinds.
LEMMA DetectIs ==
    ASSUME NEW t, LogsOK(t)
    PROVE  LET d == Detect(t)
           IN /\ Sourced(d)
              /\ \/ CleanDetection(d, t)
                 \/ RankedDetection(d, t)
                 \/ /\ Shown(t) = {}
                    /\ StopDetection(d, t) \/ PlainDetection(d, t)
<1> DEFINE d == Detect(t)
           down == ShutdownHits(t)
           M == Matched(t)
           ranked == Ranked(M)
           n == Cardinality(Shown(t))
<1>1. PICK order : RankedAs(order, ranked, t)
  BY Ranking
<1>2. /\ n \in Nat /\ order \in [1..n -> Shown(t)]
      /\ \A i \in Shown(t) : \E k \in 1..n : order[k] = i
      /\ ranked = [k \in 1..n |-> M[order[k]]]
  BY <1>1 DEF RankedAs
<1>3. d = Verdict(t, down, ranked)
  BY DEF Detect
<1>4. PICK S : down \in Seq(S)
  BY ShutdownHitsOK
<1> HIDE DEF d, down, ranked, M, n
<1>5. CASE down # <<>> /\ ~HasPanic(Corpus(t))
  <2>1. d = [Detection("clean_shutdown", "info", 850, down)
               EXCEPT !.sources = SourcesOf(t, down)]
    BY <1>3, <1>5 DEF Verdict
  <2>2. /\ d.type = "clean_shutdown" /\ d.severity = "info"
        /\ d.confidence = 850 /\ d.alternatives = <<>> /\ d.abrupt = {}
        /\ d.evidence = down /\ d.sources = SourcesOf(t, down)
    BY <2>1 DEF Detection
  <2>3. CleanDetection(d, t)
    BY <1>5, <2>2 DEF CleanDetection
  <2>4. Sourced(d)
    BY <1>4, <1>5, <2>2, SourcesOfEach DEF Sourced
  <2>5. QED
    BY <2>3, <2>4 DEF d
<1>6. CASE ~(down # <<>> /\ ~HasPanic(Corpus(t))) /\ ranked # <<>>
  <2>1. d = [Head(ranked) EXCEPT
               !.sources = SourcesOf(t, Head(ranked).evidence),
               !.alternatives = [k \in 1..Len(ranked) - 1 |->
                                   Alternative(ranked[k + 1])]]
    BY <1>3, <1>6 DEF Verdict
  <2>2. n > 0 /\ Len(ranked) = n /\ Head(ranked) = M[order[1]]
    <3>1. ranked \in Seq({M[order[k]] : k \in 1..n}) /\ Len(ranked) = n
      BY <1>2
    <3>2. n > 0
      BY <1>2, <1>6, <3>1
    <3>3. ranked[1] = M[order[1]]
      BY <1>2, <3>2
    <3>4. QED
      BY <1>6, <3>1, <3>2, <3>3
  <2>3. \A k \in 1..n - 1 : ranked[k + 1] = M[order[k + 1]]
    BY <1>2
  <2>4. order[1] \in 1..8 /\ Count(t, order[1]) # 0
    BY <1>2, <2>2 DEF Shown
  <2>5. MatchOf(M[order[1]], t, order[1])
    BY <2>4, Matching DEF M
  <2>6. M[order[1]] = Match(t, Rules[order[1]], OwnHits(Corpus(t), Rules[order[1]]))
    BY <2>4, RuleFacts DEF M, Matched
  <2> DEFINE m == M[order[1]]
             others == [k \in 1..n - 1 |-> Alternative(ranked[k + 1])]
             sources == SourcesOf(t, m.evidence)
  <2>e. m = [type |-> m.type, severity |-> m.severity,
             confidence |-> m.confidence, evidence |-> m.evidence,
             sources |-> m.sources, alternatives |-> m.alternatives,
             abrupt |-> m.abrupt]
    BY <2>6 DEF Match, Detection
  <2>f. d = [m EXCEPT !.sources = sources, !.alternatives = others]
    BY <2>1, <2>2
  <2>7. /\ d.type = M[order[1]].type /\ d.severity = M[order[1]].severity
        /\ d.confidence = M[order[1]].confidence
        /\ d.evidence = M[order[1]].evidence /\ d.abrupt = M[order[1]].abrupt
        /\ d.sources = SourcesOf(t, M[order[1]].evidence)
        /\ d.alternatives = [k \in 1..n - 1 |-> Alternative(ranked[k + 1])]
    <3> HIDE DEF m, others, sources
    <3>1. /\ d.type = m.type /\ d.severity = m.severity
          /\ d.confidence = m.confidence
          /\ d.evidence = m.evidence /\ d.abrupt = m.abrupt
          /\ d.sources = sources /\ d.alternatives = others
      BY <2>e, <2>f
    <3>2. QED
      BY <3>1 DEF m, others, sources
  <2> HIDE DEF m, others, sources
  <2>8. d.alternatives = [k \in 1..n - 1 |-> Alternative(M[order[k + 1]])]
    BY <2>3, <2>7
  <2>9. RankedDetection(d, t)
    <3>1. /\ d.type = Rules[order[1]].type
          /\ d.severity = Rules[order[1]].severity
          /\ d.abrupt = {}
      BY <2>5, <2>7 DEF MatchOf
    <3>2. d.confidence = Matched(t)[order[1]].confidence
      BY <2>7 DEF M
    <3>3. d.alternatives = [k \in 1..Cardinality(Shown(t)) - 1 |->
                              Alternative(Matched(t)[order[k + 1]])]
      BY <2>8 DEF M, n
    <3>4. RankedAs(order, Ranked(Matched(t)), t) /\ Cardinality(Shown(t)) > 0
      BY <1>1, <2>2 DEF ranked, M, n
    <3>5. QED
      BY <3>1, <3>2, <3>3, <3>4 DEF RankedDetection
  <2>10. Sourced(d)
    <3>1. d.evidence \in Seq(Entry) /\ d.evidence # <<>>
      BY <2>4, <2>5, <2>7 DEF MatchOf
    <3>2. QED
      BY <2>7, <3>1, SourcesOfEach DEF Sourced
  <2>11. QED
    BY <2>9, <2>10 DEF d
<1>7. CASE ~(down # <<>> /\ ~HasPanic(Corpus(t))) /\ ranked = <<>>
  <2>1. d = NoMatch(t)
    BY <1>3, <1>7 DEF Verdict
  <2>2. Shown(t) = {}
    <3>1. Len(ranked) = n /\ Len(<<>>) = 0
      BY <1>2
    <3>2. n = 0
      BY <1>7, <3>1
    <3>3. QED
      BY <1>2, <3>2
  <2>3. QED
    BY <2>1, <2>2, NoMatchIs DEF d
<1>8. QED
  BY <1>5, <1>6, <1>7

\* What a detection offers instead of its type.
Offered == [type : CrashType, confidence : Nat, evidence : Seq(Entry)]

\* Facts about the order of the matches.
LEMMA RankedFacts ==
    ASSUME NEW t, LogsOK(t), NEW order, NEW ranked, RankedAs(order, ranked, t)
    PROVE  LET n == Cardinality(Shown(t))
           IN /\ n \in Nat
              /\ \A k \in 1..n : order[k] \in 1..8 /\ Count(t, order[k]) # 0
              /\ \A i \in 1..8 : Count(t, i) # 0 => \E k \in 1..n : order[k] = i
              /\ \A k \in 1..n : MatchOf(Matched(t)[order[k]], t, order[k])
              /\ \A j, k \in 1..n : j < k => Prior(Matched(t), order[j], order[k])
<1> DEFINE n == Cardinality(Shown(t))
<1>1. /\ n \in Nat /\ order \in [1..n -> Shown(t)]
      /\ \A i \in Shown(t) : \E k \in 1..n : order[k] = i
      /\ \A j, k \in 1..n : j < k => Prior(Matched(t), order[j], order[k])
  BY DEF RankedAs
<1> HIDE DEF n
<1>2. \A k \in 1..n : order[k] \in 1..8 /\ Count(t, order[k]) # 0
  BY <1>1 DEF Shown
<1>3. \A i \in 1..8 : Count(t, i) # 0 => \E k \in 1..n : order[k] = i
  BY <1>1 DEF Shown
<1>4. ASSUME NEW k \in 1..n PROVE MatchOf(Matched(t)[order[k]], t, order[k])
  BY <1>2, Matching
<1>5. QED
  BY <1>1, <1>2, <1>3, <1>4 DEF n

\* A match that comes later is not the more confident one.
LEMMA Outranked ==
    ASSUME NEW t, LogsOK(t), NEW i \in 1..8, NEW j \in 1..8,
           Prior(Matched(t), i, j)
    PROVE  Matched(t)[j].confidence <= Matched(t)[i].confidence
<1>1. MatchOf(Matched(t)[i], t, i) /\ MatchOf(Matched(t)[j], t, j)
  BY Matching
<1>2. Matched(t)[i].confidence \in Int /\ Matched(t)[j].confidence \in Int
  BY <1>1 DEF MatchOf
<1>3. QED
  BY <1>2 DEF Prior

LEMMA AlternativesFit ==
    ASSUME NEW t, LogsOK(t), NEW d, d = Detect(t)
    PROVE  /\ d.alternatives \in Seq(Offered)
           /\ \A k \in DOMAIN d.alternatives :
                 d.alternatives[k].confidence <= d.confidence
<1>1. CASE d.alternatives = <<>>
  BY <1>1
<1>2. CASE RankedDetection(d, t)
  <2> DEFINE n == Cardinality(Shown(t))
             M == Matched(t)
             alternative(m) == Alternative(m)
  <2>1. PICK order :
          /\ RankedAs(order, Ranked(Matched(t)), t)
          /\ n > 0
          /\ d.confidence = Matched(t)[order[1]].confidence
          /\ d.alternatives = [k \in 1..n - 1 |-> Alternative(M[order[k + 1]])]
    BY <1>2 DEF RankedDetection
  <2>2. /\ n \in Nat
        /\ \A k \in 1..n : order[k] \in 1..8
        /\ \A k \in 1..n : MatchOf(M[order[k]], t, order[k])
        /\ \A j, k \in 1..n : j < k => Prior(M, order[j], order[k])
    BY <2>1, RankedFacts
  <2>3. ASSUME NEW m, NEW i \in 1..8, MatchOf(m, t, i)
        PROVE  Alternative(m) \in Offered /\ Alternative(m).confidence = m.confidence
    <3>0. /\ m.type = Rules[i].type /\ m.confidence \in Int
          /\ m.confidence >= 500 /\ m.evidence \in Seq(Entry)
      BY <2>3 DEF MatchOf
    <3>a. Rules[i].type \in CrashType
      BY RuleFacts
    <3>b. \A c \in Int : c >= 500 => c \in Nat
      OBVIOUS
    <3>1. /\ m.type \in CrashType /\ m.confidence \in Nat
          /\ m.evidence \in Seq(Entry)
      BY <3>0, <3>a, <3>b
    <3>2. Least(3, Len(m.evidence)) \in 0..Len(m.evidence)
      BY <3>1 DEF Least
    <3>3. SubSeq(m.evidence, 1, Least(3, Len(m.evidence))) \in Seq(Entry)
      BY <3>1, <3>2
    <3>4. QED
      BY <3>1, <3>3 DEF Alternative, Offered
  <2> HIDE DEF n, M
  <2>4. ASSUME NEW k \in 1..n - 1
        PROVE  /\ k + 1 \in 1..n
               /\ Alternative(M[order[k + 1]]) \in Offered
               /\ Alternative(M[order[k + 1]]).confidence <= d.confidence
    <3>1. k + 1 \in 1..n /\ 1 \in 1..n /\ 1 < k + 1
      BY <2>2
    <3>2. /\ Alternative(M[order[k + 1]]) \in Offered
          /\ Alternative(M[order[k + 1]]).confidence = M[order[k + 1]].confidence
      BY <2>2, <2>3, <3>1
    <3>3. Prior(M, order[1], order[k + 1])
      BY <2>2, <3>1
    <3>4. M[order[k + 1]].confidence <= M[order[1]].confidence
      BY <2>2, <3>1, <3>3, Outranked DEF M
    <3>5. QED
      BY <2>1, <3>1, <3>2, <3>4 DEF M
  <2> DEFINE s == [k \in 1..n - 1 |-> Alternative(M[order[k + 1]])]
  <2>5. /\ s \in Seq(Offered) /\ DOMAIN s = 1..n - 1
        /\ \A k \in 1..n - 1 : s[k].confidence <= d.confidence
    BY <2>1, <2>2, <2>4
  <2>6. QED
    BY <2>1, <2>5
<1>3. QED
  BY <1>1, <1>2, DetectIs DEF CleanDetection, StopDetection, PlainDetection

LEMMA DetectTypes ==
    ASSUME NEW t, LogsOK(t), NEW d, d = Detect(t)
    PROVE  /\ d.type \in CrashType /\ d.severity \in DOMAIN Rank
           /\ d.confidence \in 0..950
           /\ Sourced(d)
<1>1. Sourced(d)
  BY DetectIs
<1>2. DOMAIN Rank = {"critical", "high", "medium", "low", "info"}
  BY DEF Rank
<1>3. /\ "clean_shutdown" \in CrashType /\ "power_loss" \in CrashType
      /\ "unknown" \in CrashType
  BY DEF CrashType
<1>4. CASE CleanDetection(d, t)
  BY <1>1, <1>2, <1>3, <1>4 DEF CleanDetection
<1>5. CASE RankedDetection(d, t)
  <2>1. PICK order :
          /\ RankedAs(order, Ranked(Matched(t)), t)
          /\ Cardinality(Shown(t)) > 0
          /\ d.type = Rules[order[1]].type
          /\ d.severity = Rules[order[1]].severity
          /\ d.confidence = Matched(t)[order[1]].confidence
    BY <1>5 DEF RankedDetection
  <2>2. order[1] \in 1..8 /\ MatchOf(Matched(t)[order[1]], t, order[1])
    BY <2>1, RankedFacts
  <2>3. d.confidence \in 0..950
    <3> DEFINE c == Matched(t)[order[1]].confidence
    <3>1. c \in Int /\ c >= 500 /\ c <= 950
      BY <2>2 DEF MatchOf
    <3> HIDE DEF c
    <3>2. c \in 0..950
      BY <3>1
    <3>3. QED
      BY <2>1, <3>2 DEF c
  <2>4. d.type \in CrashType /\ d.severity \in {"critical", "high"}
    BY <2>1, <2>2, RuleFacts
  <2>5. QED
    BY <1>1, <1>2, <2>3, <2>4
<1>6. CASE StopDetection(d, t)
  <2>1. PICK a : /\ d.type = "power_loss" /\ d.severity = "high"
                 /\ d.confidence = AbruptConfidence(a)
    BY <1>6 DEF StopDetection
  <2>2. AbruptConfidence(a) \in 0..950
    BY DEF AbruptConfidence, Least
  <2>3. QED
    BY <1>1, <1>2, <1>3, <2>1, <2>2
<1>7. CASE PlainDetection(d, t)
  BY <1>1, <1>2, <1>3, <1>7 DEF PlainDetection
<1>8. QED
  BY <1>4, <1>5, <1>6, <1>7, DetectIs

\* A panic's evidence is a match, and its line is no clean shutdown's.
LEMMA PanicShows ==
    ASSUME NEW t, LogsOK(t), NEW d, d = Detect(t),
           NEW e \in ToSet(Corpus(t)), Says(e, {"panic", "oops"})
    PROVE  \/ d.type = "kernel_panic"
           \/ \E k \in DOMAIN d.alternatives :
                 d.alternatives[k].type = "kernel_panic"
<1> DEFINE n == Cardinality(Shown(t))
           M == Matched(t)
<1>1. Count(t, 1) # 0
  <2>1. e \in Own(Corpus(t), Rules[1])
    BY RuleFacts DEF Own
  <2>2. IsFiniteSet(Own(Corpus(t), Rules[1]))
    BY CorpusOK, OwnHitsFound DEF OwnHitsOf
  <2>3. QED
    BY <2>1, <2>2, FS_EmptySet DEF Count
<1>2. HasPanic(Corpus(t))
  <2>1. PICK i \in DOMAIN Corpus(t) : e = Corpus(t)[i]
    BY DEF ToSet
  <2>2. Says(Corpus(t)[i], PanicMarkers)
    BY <2>1 DEF Says, PanicMarkers
  <2>3. QED
    BY <2>2 DEF HasPanic
<1>3. RankedDetection(d, t)
  <2>1. 1 \in Shown(t)
    BY <1>1 DEF Shown
  <2>2. QED
    BY <1>2, <2>1, DetectIs DEF CleanDetection
<1>4. PICK order :
        /\ RankedAs(order, Ranked(Matched(t)), t)
        /\ n > 0
        /\ d.type = Rules[order[1]].type
        /\ d.alternatives = [k \in 1..n - 1 |-> Alternative(M[order[k + 1]])]
  BY <1>3 DEF RankedDetection
<1>5. /\ n \in Nat
      /\ \E k \in 1..n : order[k] = 1
      /\ \A k \in 1..n : MatchOf(M[order[k]], t, order[k])
  BY <1>1, <1>4, RankedFacts
<1>6. PICK k \in 1..n : order[k] = 1
  BY <1>5
<1> HIDE DEF n, M
<1>7. M[order[k]].type = "kernel_panic" /\ Rules[order[k]].type = "kernel_panic"
  BY <1>5, <1>6, RuleFacts DEF MatchOf
<1>8. CASE k = 1
  BY <1>4, <1>7, <1>8
<1>9. CASE k # 1
  <2>1. k - 1 \in 1..n - 1 /\ (k - 1) + 1 = k
    BY <1>5, <1>9
  <2>2. d.alternatives[k - 1] = Alternative(M[order[k]])
    BY <1>4, <2>1
  <2>3. d.alternatives[k - 1].type = "kernel_panic"
    BY <1>7, <2>2 DEF Alternative
  <2>4. k - 1 \in DOMAIN d.alternatives
    BY <1>4, <2>1
  <2>5. QED
    BY <2>3, <2>4
<1>10. QED
  BY <1>8, <1>9

\* The first match has the most evidence, unless hardware or five lines settle it.
LEMMA WinnerCounts ==
    ASSUME NEW t, LogsOK(t), NEW d, d = Detect(t),
           NEW i \in 1..8, NEW j \in 1..8,
           d.type = Rules[i].type, j # i,
           ~HardwareSupports(t, d.type), ~(Count(t, i) >= 5)
    PROVE  /\ Count(t, i) >= Count(t, j)
           /\ Rules[j].severity = "critical" /\ Rules[i].severity = "high"
                 => Count(t, i) > Count(t, j)
<1> DEFINE n == Cardinality(Shown(t))
           M == Matched(t)
<1>1. RankedDetection(d, t)
  BY RuleFacts, DetectIs DEF CleanDetection, StopDetection, PlainDetection
<1>2. PICK order :
        /\ RankedAs(order, Ranked(Matched(t)), t)
        /\ n > 0
        /\ d.type = Rules[order[1]].type
  BY <1>1 DEF RankedDetection
<1>3. /\ n \in Nat
      /\ \A k \in 1..n : order[k] \in 1..8 /\ Count(t, order[k]) # 0
      /\ Count(t, j) # 0 => \E k \in 1..n : order[k] = j
      /\ \A l, k \in 1..n : l < k => Prior(M, order[l], order[k])
  BY <1>2, RankedFacts
<1> HIDE DEF n
<1>4. order[1] = i /\ Count(t, i) # 0
  <2>1. 1 \in 1..n
    BY <1>2, <1>3
  <2>2. order[1] \in 1..8 /\ Count(t, order[1]) # 0
    BY <1>3, <2>1
  <2>3. Rules[order[1]].type = Rules[i].type
    BY <1>2
  <2>4. order[1] = i
    BY <2>2, <2>3, RuleFacts
  <2>5. QED
    BY <2>2, <2>4
<1>5. Count(t, i) \in Nat /\ Count(t, j) \in Nat
  BY Matching
<1>6. CASE Count(t, j) = 0
  BY <1>4, <1>5, <1>6
<1>7. CASE Count(t, j) # 0
  <2>1. Prior(M, i, j)
    <3>1. PICK k \in 1..n : order[k] = j
      BY <1>3, <1>7
    <3>2. 1 \in 1..n /\ 1 < k
      BY <1>2, <1>3, <1>4, <3>1
    <3>3. QED
      BY <1>3, <1>4, <3>1, <3>2
  <2>2. MatchOf(M[i], t, i) /\ MatchOf(M[j], t, j)
    BY Matching
  <2> HIDE DEF M
  <2> DEFINE ci == Confidence(Count(t, i))
             cj == Confidence(Count(t, j))
  <2>3. /\ M[i].confidence = ci
        /\ M[j].confidence = Raised(cj) \/ M[j].confidence = cj
    BY <2>2 DEF MatchOf
  <2>4. /\ ci = 500 + 100 * Count(t, i) /\ Count(t, i) < 5
        /\ cj \in 500..950 /\ Raised(cj) \in cj..950
        /\ Count(t, j) < 5 => cj = 500 + 100 * Count(t, j)
        /\ Count(t, j) >= 5 => cj = 950
    BY <1>5, ConfidenceNumbers
  <2>5. /\ M[i].severity = Rules[i].severity /\ M[j].severity = Rules[j].severity
        /\ Rank["critical"] = 0 /\ Rank["high"] = 1
    BY <2>2 DEF MatchOf, Rank
  <2>6. /\ M[j].confidence <= M[i].confidence
        /\ Rules[j].severity = "critical" /\ Rules[i].severity = "high"
              => M[j].confidence < M[i].confidence
    <3> HIDE DEF ci, cj
    <3>1. M[i].confidence \in Int /\ M[j].confidence \in Int
      BY <2>2 DEF MatchOf
    <3>2. QED
      BY <2>1, <2>5, <3>1 DEF Prior
  <2>7. cj <= M[j].confidence
    <3> HIDE DEF ci, cj
    <3>1. QED
      BY <2>3, <2>4
  <2> HIDE DEF ci, cj
  <2>8. QED
    BY <1>5, <2>3, <2>4, <2>6, <2>7
<1>8. QED
  BY <1>6, <1>7

-----------------------------------------------------------------------------
(* A boot and its report: monitor.py, analyzer.py. *)

\* The logs, to which the facts are added when the boot has ended.
LogTypes ==
    /\ telemetry = [f \in DOMAIN telemetry |-> telemetry[f]]
    /\ {"journal", "dmesg", "xids"} \subseteq DOMAIN telemetry
    /\ telemetry.journal \in Seq([line : Line, at : Nat])
    /\ telemetry.dmesg \in Seq(Entry) /\ telemetry.xids \in Seq(Entry)
    /\ outcome \in {"none", "noted", "aborted"}

\* A report is as it was saved, or, when the boot is noted, completed with the
\* advice for the detection or with an answer of the model that has a severity.
Reported(r, row, d) ==
    \/ /\ r = Preliminary(telemetry, d)
       /\ row = [type |-> d.type, severity |-> d.severity]
    \/ /\ outcome = "noted"
       /\ row = [type |-> d.type, severity |-> d.severity]
       /\ \E error \in Failure \cup {"none"} :
             r = Updated(Preliminary(telemetry, d), HeuristicResult(d, error))
    \/ /\ outcome = "noted"
       /\ Completed(r) /\ r.ai = TRUE /\ r.alternatives # Null
       /\ row = [type |-> d.type, severity |-> r.severity] /\ r.severity # Null

\* A detection is that of the telemetry, and its report is of it.
Detected ==
    \A d \in detection :
       /\ d = Detect(telemetry) /\ detection = {d}
       /\ \/ report = {} /\ stored = {}
          \/ \E r \in report, row \in stored :
                report = {r} /\ stored = {row} /\ Reported(r, row, d)

Undetected == detection = {} => report = {} /\ stored = {}

\* The inductive invariant of a boot and its report.
CrashInv == LogTypes /\ Detected /\ Undetected

LEMMA LogsAreOK == ASSUME LogTypes PROVE LogsOK(telemetry)
<1>1. [line : Line, at : Nat] \subseteq Entry
  BY DEF Entry
<1>2. \A S, T : S \subseteq T => Seq(S) \subseteq Seq(T)
  OBVIOUS
<1>3. Seq([line : Line, at : Nat]) \subseteq Seq(Entry)
  BY <1>1, <1>2
<1>4. QED
  BY <1>3 DEF LogTypes, LogsOK

LEMMA InitCrash == Init => CrashInv
<1> SUFFICES ASSUME Init PROVE CrashInv
  OBVIOUS
<1>1. LogTypes
  <2>1. /\ telemetry = [journal |-> <<>>, dmesg |-> <<>>, xids |-> <<>>]
    BY DEF Init, Running
  <2>2. \A S : <<>> \in Seq(S)
    OBVIOUS
  <2>3. /\ DOMAIN telemetry = {"journal", "dmesg", "xids"}
        /\ telemetry.journal = <<>> /\ telemetry.dmesg = <<>> /\ telemetry.xids = <<>>
        /\ telemetry = [f \in DOMAIN telemetry |-> telemetry[f]]
    BY <2>1
  <2>4. outcome = "none"
    BY DEF Init
  <2>5. QED
    BY <2>2, <2>3, <2>4 DEF LogTypes
<1>2. Detected /\ Undetected
  BY DEF Init, Detected, Undetected
<1>3. QED
  BY <1>1, <1>2 DEF CrashInv

\* What is laid over a report, field by field.
LEMMA Laid ==
    ASSUME NEW report0, NEW result, NEW f \in DOMAIN result
    PROVE  /\ f \in DOMAIN Updated(report0, result)
           /\ Updated(report0, result)[f] = result[f]
BY DEF Updated

\* A report completed with the advice for its detection.
AsAdvised(r, d) ==
    /\ r.type = d.type /\ r.severity = d.severity
    /\ r.confidence = d.confidence /\ r.ai = FALSE
    /\ r.cause = Advice(d).cause /\ r.steps = Advice(d).steps
    /\ r.alternatives = RunnersUp(d)
    /\ Completed(r)

LEMMA HeuristicReport ==
    ASSUME NEW t, NEW d, NEW error
    PROVE  AsAdvised(Updated(Preliminary(t, d), HeuristicResult(d, error)), d)
<1> DEFINE h == HeuristicResult(d, error)
           r == Updated(Preliminary(t, d), h)
<1>1. DOMAIN h = {"type", "severity", "confidence", "cause", "steps", "evidence",
                  "alternatives", "timeline", "ai", "error"}
  BY DEF HeuristicResult
<1>2. AsAdvised(h, d)
  BY <1>1 DEF HeuristicResult, AsAdvised, Completed
<1> HIDE DEF h
<1>3. /\ r["type"] = h["type"] /\ r["severity"] = h["severity"]
      /\ r["confidence"] = h["confidence"] /\ r["ai"] = h["ai"]
      /\ r["cause"] = h["cause"] /\ r["steps"] = h["steps"]
      /\ r["alternatives"] = h["alternatives"]
      /\ "alternatives" \in DOMAIN r
  BY <1>1, Laid
<1> HIDE DEF r
<1>4. AsAdvised(r, d)
  BY <1>2, <1>3 DEF AsAdvised, Completed
<1>5. QED
  BY <1>4 DEF r, h

\* Whatever the model answers, the report lists alternatives.
LEMMA ModelReport ==
    ASSUME NEW t, NEW d, NEW answer, NEW r,
           r = Updated(Preliminary(t, d), ModelResult(d, answer))
    PROVE  /\ Completed(r) /\ r.ai = TRUE /\ r.alternatives # Null
           /\ r.severity = ModelResult(d, answer).severity
<1> DEFINE m == ModelResult(d, answer)
<1>1. /\ {"ai", "alternatives", "severity"} \subseteq DOMAIN m
      /\ m["ai"] = TRUE
      /\ m["alternatives"] = Filled(answer, "alternatives", <<>>)
  BY DEF ModelResult
<1>2. Filled(answer, "alternatives", <<>>) # Null
  <2>1. <<>> # Null
    <3>1. <<>> \in Seq([type : CrashType, confidence : Nat, evidence : Seq(Entry)])
      OBVIOUS
    <3>2. QED
      BY <3>1, CrashAnalysisAssumption
  <2>2. QED
    BY <2>1 DEF Filled
<1> HIDE DEF m
<1>3. /\ r["ai"] = m["ai"] /\ r["alternatives"] = m["alternatives"]
      /\ r["severity"] = m["severity"] /\ "alternatives" \in DOMAIN r
  BY <1>1, Laid DEF m
<1>4. QED
  BY <1>1, <1>2, <1>3 DEF Completed, m

\* A report is only completed as it was saved.
LEMMA OnceCompleted ==
    ASSUME CrashInv, NEW d \in detection, report # {}, outcome = "none"
    PROVE  /\ d = Detect(telemetry) /\ detection = {d}
           /\ report = {Preliminary(telemetry, d)}
           /\ stored = {[type |-> d.type, severity |-> d.severity]}
<1>1. PICK r \in report, row \in stored :
        /\ d = Detect(telemetry) /\ detection = {d}
        /\ report = {r} /\ stored = {row} /\ Reported(r, row, d)
  BY DEF CrashInv, Detected
<1>2. r = Preliminary(telemetry, d) /\ row = [type |-> d.type, severity |-> d.severity]
  BY <1>1 DEF Reported
<1>3. QED
  BY <1>1, <1>2

LEMMA LogStep ==
    ASSUME CrashInv, NEW f \in {"journal", "dmesg", "xids"}, NEW s,
           telemetry' = [telemetry EXCEPT ![f] = s],
           f = "journal" => s \in Seq([line : Line, at : Nat]),
           f # "journal" => s \in Seq(Entry),
           detection = {}, UNCHANGED <<detection, report, stored, outcome>>
    PROVE  CrashInv'
<1>1. /\ telemetry = [g \in DOMAIN telemetry |-> telemetry[g]]
      /\ {"journal", "dmesg", "xids"} \subseteq DOMAIN telemetry
  BY DEF CrashInv, LogTypes
<1>2. telemetry' = [g \in DOMAIN telemetry |-> IF g = f THEN s ELSE telemetry[g]]
  BY <1>1
<1>3. LogTypes'
  BY <1>1, <1>2 DEF CrashInv, LogTypes
<1>4. Detected' /\ Undetected'
  BY DEF CrashInv, Detected, Undetected
<1>5. QED
  BY <1>3, <1>4 DEF CrashInv

LEMMA LastOf == ASSUME NEW S, NEW s \in Seq(S), s # <<>> PROVE Last(s) \in S
BY DEF Last

\* The steps of a boot, one by one.
LEMMA LogLineCrash ==
    ASSUME CrashInv, NEW line \in Line, NEW gap \in 1..2, LogLine(line, gap)
    PROVE  CrashInv'
<1> DEFINE log == telemetry.journal
           now == IF log = <<>> THEN 0 ELSE Last(log).at
           e == [line |-> line, at |-> now + gap]
<1>1. log \in Seq([line : Line, at : Nat])
  BY DEF CrashInv, LogTypes
<1>2. now \in Nat
  <2>1. CASE log = <<>>
    BY <2>1
  <2>2. CASE log # <<>>
    <3>1. Last(log) \in [line : Line, at : Nat]
      BY <1>1, <2>2, LastOf
    <3>2. QED
      BY <2>2, <3>1
  <2>3. QED
    BY <2>1, <2>2
<1>3. e \in [line : Line, at : Nat]
  <2> HIDE DEF now
  <2>1. QED
    BY <1>2
<1>4. /\ telemetry' = [telemetry EXCEPT !["journal"] = Append(log, e)]
      /\ detection = {} /\ UNCHANGED <<detection, report, stored, outcome>>
  BY DEF LogLine
<1> HIDE DEF log, e
<1>5. Append(log, e) \in Seq([line : Line, at : Nat])
  BY <1>1, <1>3
<1>6. QED
  BY <1>4, <1>5, LogStep

LEMMA KernelLineCrash ==
    ASSUME CrashInv, NEW line \in Ringed, NEW collector \in {"dmesg", "xids"},
           KernelLine(line, collector)
    PROVE  CrashInv'
<1> DEFINE e == [line |-> line, at |-> NoStamp]
           log == telemetry[collector]
<1>1. e \in Entry
  BY AnalysesAssumption DEF Entry
<1>2. log \in Seq(Entry)
  BY DEF CrashInv, LogTypes
<1>3. telemetry' = [telemetry EXCEPT ![collector] = Append(log, e)]
      /\ detection = {} /\ UNCHANGED <<detection, report, stored, outcome>>
  <2>1. collector \in DOMAIN telemetry
    BY DEF CrashInv, LogTypes
  <2>2. QED
    BY <2>1 DEF KernelLine
<1> HIDE DEF e, log
<1>4. Append(log, e) \in Seq(Entry)
  BY <1>1, <1>2
<1>5. QED
  BY <1>3, <1>4, LogStep

LEMMA DetectCrashCrash ==
    ASSUME CrashInv, NEW facts \in Facts, DetectCrash(facts)
    PROVE  CrashInv'
<1> DEFINE all == [f \in DOMAIN telemetry \cup DOMAIN facts |->
                     IF f \in DOMAIN telemetry THEN telemetry[f] ELSE facts[f]]
           found == Detect(all)
<1>a. /\ telemetry' = all /\ detection' = {found}
      /\ \E x \in detection' :
            \E saved \in {{x}} \cup {y \in {{}} : x.type = "clean_shutdown"} :
               /\ report' = {Preliminary(all, y) : y \in saved}
               /\ stored' =
                     {[type |-> y.type, severity |-> y.severity] : y \in saved}
  BY Zenon DEF DetectCrash
<1>b. all = [f \in DOMAIN telemetry \cup DOMAIN facts |->
               IF f \in DOMAIN telemetry THEN telemetry[f] ELSE facts[f]]
  OBVIOUS
<1> HIDE DEF all
<1>c. found = Detect(all)
  OBVIOUS
<1> HIDE DEF found
<1>e. \/ report' = {} /\ stored' = {}
      \/ /\ report' = {Preliminary(all, found)}
         /\ stored' = {[type |-> found.type, severity |-> found.severity]}
  <2>1. PICK saved \in {{found}} \cup {y \in {{}} : found.type = "clean_shutdown"} :
          /\ report' = {Preliminary(all, y) : y \in saved}
          /\ stored' =
                {[type |-> y.type, severity |-> y.severity] : y \in saved}
    BY <1>a
  <2>2. saved = {found} \/ saved = {}
    BY <2>1
  <2>3. QED
    BY <2>1, <2>2
<1>f. PICK t, d : t = all /\ d = found
  OBVIOUS
<1>t. t = [f \in DOMAIN telemetry \cup DOMAIN facts |->
             IF f \in DOMAIN telemetry THEN telemetry[f] ELSE facts[f]]
  BY <1>b, <1>f
<1>d. d = Detect(t)
  BY <1>c, <1>f
<1>1. telemetry' = t /\ detection' = {d}
  BY <1>a, <1>f
<1>2. \/ report' = {} /\ stored' = {}
      \/ /\ report' = {Preliminary(t, d)}
         /\ stored' = {[type |-> d.type, severity |-> d.severity]}
  BY <1>e, <1>f
<1>3. LogTypes'
  <2>1. /\ {"journal", "dmesg", "xids"} \subseteq DOMAIN t
        /\ t = [f \in DOMAIN t |-> t[f]]
        /\ t.journal = telemetry.journal /\ t.dmesg = telemetry.dmesg
        /\ t.xids = telemetry.xids
    BY <1>t DEF CrashInv, LogTypes
  <2>2. outcome' = outcome
    BY DEF DetectCrash
  <2>3. QED
    BY <1>1, <2>1, <2>2 DEF CrashInv, LogTypes
<1>4. Detected'
  <2>1. CASE report' = {} /\ stored' = {}
    BY <1>d, <1>1, <2>1 DEF Detected
  <2>2. CASE /\ report' = {Preliminary(t, d)}
             /\ stored' = {[type |-> d.type, severity |-> d.severity]}
    <3>1. PICK r, row : /\ r = Preliminary(t, d)
                        /\ row = [type |-> d.type, severity |-> d.severity]
      OBVIOUS
    <3>2. Reported(r, row, d)'
      BY <1>1, <3>1 DEF Reported
    <3>3. report' = {r} /\ stored' = {row}
      BY <2>2, <3>1
    <3>4. QED
      BY <1>d, <1>1, <3>2, <3>3 DEF Detected
  <2>3. QED
    BY <1>2, <2>1, <2>2
<1>5. Undetected'
  BY <1>1 DEF Undetected
<1>6. QED
  BY <1>3, <1>4, <1>5 DEF CrashInv

LEMMA CompleteCrash ==
    ASSUME CrashInv, NEW d \in detection, NEW result, Complete(result),
           \/ \E error \in Failure \cup {"none"} : result = HeuristicResult(d, error)
           \/ \E answer : result = ModelResult(d, answer)
    PROVE  CrashInv'
<1>1. /\ report # {} /\ outcome = "none"
      /\ UNCHANGED <<telemetry, detection>>
      /\ outcome' \in {"noted", "aborted"}
  BY DEF Complete
<1>2. /\ d = Detect(telemetry) /\ detection = {d}
      /\ report = {Preliminary(telemetry, d)}
      /\ stored = {[type |-> d.type, severity |-> d.severity]}
  BY <1>1, OnceCompleted
<1>3. LogTypes'
  BY <1>1 DEF CrashInv, LogTypes
<1>4. Undetected'
  BY <1>1, <1>2 DEF Undetected
<1>5. \E r, row : /\ report' = {r} /\ stored' = {row}
                  /\ Reported(r, row, d)'
  <2>1. CASE result.severity = Null
    <3>1. /\ report' = {Preliminary(telemetry, d)}
          /\ stored' = {[type |-> d.type, severity |-> d.severity]}
      BY <1>2, <2>1 DEF Complete
    <3>2. PICK r, row : /\ r = Preliminary(telemetry, d)
                        /\ row = [type |-> d.type, severity |-> d.severity]
      OBVIOUS
    <3>3. Reported(r, row, d)'
      BY <1>1, <3>2 DEF Reported
    <3>4. QED
      BY <3>1, <3>2, <3>3
  <2>2. CASE result.severity # Null
    <3>1. /\ report' = {Updated(r, result) : r \in report}
          /\ stored' = {[row EXCEPT !.severity = result.severity] : row \in stored}
          /\ outcome' = "noted"
      BY <2>2 DEF Complete
    <3>2. PICK r, row : /\ r = Updated(Preliminary(telemetry, d), result)
                        /\ row = [type |-> d.type, severity |-> result.severity]
      OBVIOUS
    <3>3. report' = {r} /\ stored' = {row}
      BY <1>2, <3>1, <3>2
    <3>4. ASSUME NEW error \in Failure \cup {"none"},
                 result = HeuristicResult(d, error)
          PROVE  Reported(r, row, d)'
      <4>1. result.severity = d.severity
        BY <3>4 DEF HeuristicResult
      <4>2. telemetry' = telemetry
        BY <1>1
      <4>3. QED
        BY <3>1, <3>2, <3>4, <4>1, <4>2 DEF Reported
    <3>5. ASSUME NEW answer, result = ModelResult(d, answer)
          PROVE  Reported(r, row, d)'
      <4>1. /\ Completed(r) /\ r.ai = TRUE /\ r.alternatives # Null
            /\ r.severity = result.severity
        BY <3>2, <3>5, ModelReport
      <4>2. QED
        BY <2>2, <3>1, <3>2, <4>1 DEF Reported
    <3>6. QED
      BY <3>3, <3>4, <3>5
  <2>3. QED
    BY <2>1, <2>2
<1>6. Detected'
  <2>1. d = Detect(telemetry)' /\ detection' = {d}
    BY <1>1, <1>2
  <2>2. QED
    BY <1>5, <2>1 DEF Detected
<1>7. QED
  BY <1>3, <1>4, <1>6 DEF CrashInv

LEMMA TimeOutCrash == ASSUME CrashInv, TimeOut PROVE CrashInv'
<1>1. /\ outcome = "none" /\ outcome' = "noted"
      /\ UNCHANGED <<telemetry, detection, report, stored>>
  BY DEF TimeOut
<1>2. LogTypes' /\ Undetected'
  BY <1>1 DEF CrashInv, LogTypes, Undetected
<1>3. ASSUME NEW r, NEW row, NEW d, Reported(r, row, d)
      PROVE  Reported(r, row, d)'
  BY <1>1, <1>3 DEF Reported
<1>4. Detected'
  BY <1>1, <1>3 DEF CrashInv, Detected
<1>5. QED
  BY <1>2, <1>4 DEF CrashInv

LEMMA NextCrash == CrashInv /\ [Next]_vars => CrashInv'
<1> SUFFICES ASSUME CrashInv, [Next]_vars PROVE CrashInv'
  OBVIOUS
<1>1. CASE UNCHANGED crashVars
  BY <1>1 DEF crashVars, CrashInv, LogTypes, Detected, Undetected, Reported
<1>2. CASE \E line \in Line, gap \in 1..2 : LogLine(line, gap)
  BY <1>2, LogLineCrash
<1>3. CASE \E line \in Ringed, collector \in {"dmesg", "xids"} :
              KernelLine(line, collector)
  BY <1>3, KernelLineCrash
<1>4. CASE \E facts \in Facts : DetectCrash(facts)
  BY <1>4, DetectCrashCrash
<1>5. CASE \E error \in Failure \cup {"none"} : UseHeuristics(error)
  <2>1. PICK error \in Failure \cup {"none"}, d \in detection :
          Complete(HeuristicResult(d, error))
    BY <1>5 DEF UseHeuristics
  <2>2. QED
    BY <2>1, CompleteCrash
<1>6. CASE \E answer \in Answer : UseAnswer(answer)
  <2>1. PICK answer \in Answer, d \in detection : Complete(ModelResult(d, answer))
    BY <1>6 DEF UseAnswer
  <2>2. QED
    BY <2>1, CompleteCrash
<1>7. ASSUME NEW r \in Reading, NEW plan \in Plan, TakeReading(r, plan)
      PROVE  UNCHANGED crashVars
  BY <1>7 DEF TakeReading
<1>8. ASSUME \/ \E pid \in Pid : StartProcess(pid)
             \/ \E p \in processes : EndProcess(p)
             \/ \E p \in processes, rss \in 1..MaxMemory : Resize(p, rss)
             \/ RecordSnapshot
      PROVE  UNCHANGED crashVars
  BY <1>8 DEF StartProcess, EndProcess, Resize, RecordSnapshot, MemoryOnly
<1>9. ASSUME \/ \E ahead \in Ahead, stamped \in BOOLEAN : KernelLogs(ahead, stamped)
             \/ Pass
             \/ \E by \in Correction : SetClock(by)
             \/ \E iso, plain \in BOOLEAN : LiveBeat(iso, plain)
      PROVE  UNCHANGED crashVars
  BY <1>9 DEF KernelLogs, Pass, SetClock, LiveBeat, AlertsOnly
<1>10. CASE UNCHANGED vars
  BY <1>1, <1>10 DEF vars
<1>11. CASE TimeOut
  BY <1>11, TimeOutCrash
<1>12. QED
  BY <1>1, <1>2, <1>3, <1>4, <1>5, <1>6, <1>7, <1>8, <1>9, <1>10, <1>11 DEF Next

LEMMA DetectedIs ==
    ASSUME CrashInv, NEW d \in detection
    PROVE  LogsOK(telemetry) /\ d = Detect(telemetry) /\ detection = {d}
BY LogsAreOK DEF CrashInv, Detected

\* What follows from the invariant, property by property.
LEMMA CrashPanic == CrashInv => PanicIsReported
<1> SUFFICES ASSUME CrashInv, NEW d \in detection,
                    NEW e \in ToSet(Corpus(telemetry)), Says(e, {"panic", "oops"})
             PROVE  \/ d.type = "kernel_panic"
                    \/ \E i \in DOMAIN d.alternatives :
                          d.alternatives[i].type = "kernel_panic"
  BY DEF PanicIsReported
<1>1. LogsOK(telemetry) /\ d = Detect(telemetry)
  BY DetectedIs
<1>2. QED
  BY <1>1, PanicShows

LEMMA CrashWinner == CrashInv => WinnerHasMostEvidence
<1> DEFINE own(rule) == {e \in ToSet(Corpus(telemetry)) :
                           /\ Says(e, ToSet(rule.patterns))
                           /\ rule.type = "kernel_panic" \/ ~Says(e, {"panic"})}
           count(rule) == Cardinality(own(rule))
           Won(d, i, j) ==
             \/ d.type = "disk_error" /\ telemetry.disks
             \/ d.type = "thermal_shutdown" /\ telemetry.warned
             \/ count(Rules[i]) >= 5
             \/ /\ count(Rules[i]) >= count(Rules[j])
                /\ Rules[j].severity = "critical" /\ Rules[i].severity = "high"
                      => count(Rules[i]) > count(Rules[j])
<1>1. ASSUME CrashInv, NEW d \in detection, NEW i \in 1..8, NEW j \in 1..8,
             d.type = Rules[i].type, j # i
      PROVE  Won(d, i, j)
  <2>1. count(Rules[i]) = Count(telemetry, i) /\ count(Rules[j]) = Count(telemetry, j)
    BY DEF Count, Own
  <2>2. LogsOK(telemetry) /\ d = Detect(telemetry)
    BY <1>1, DetectedIs
  <2> HIDE DEF count
  <2>3. CASE HardwareSupports(telemetry, d.type)
    BY <2>3 DEF HardwareSupports
  <2>4. CASE Count(telemetry, i) >= 5
    BY <2>1, <2>4
  <2>5. CASE ~HardwareSupports(telemetry, d.type) /\ ~(Count(telemetry, i) >= 5)
    BY <1>1, <2>1, <2>2, <2>5, WinnerCounts
  <2>6. QED
    BY <2>3, <2>4, <2>5
<1> HIDE DEF Won
<1>2. WinnerHasMostEvidence <=>
        \A d \in detection, i \in DOMAIN Rules, j \in DOMAIN Rules :
           (d.type = Rules[i].type /\ j # i) => Won(d, i, j)
  BY DEF WinnerHasMostEvidence, Won
<1>3. DOMAIN Rules = 1..8
  BY RuleFacts
<1>4. QED
  BY <1>1, <1>2, <1>3

\* The first step of the advice for a sudden stop.
LEMMA FirstStep ==
    ASSUME NEW a
    PROVE  Suspects(a) # {} <=>
              Head(SuddenStopAdvice(a).steps) \in {"cap_the_GPU", "less_load_at_once"}
<1> DEFINE rest == <<"rate_the_supply", "reseat", "read_the_BMC">>
           endings == IF Recurring(a) THEN <<"compare_the_endings">> ELSE <<>>
           gpu == \E h \in Suspects(a) : "gpu_load" \in Matches[h.job]
           load == IF gpu THEN <<"cap_the_GPU", a.vendor>>
                   ELSE IF Suspects(a) # {} THEN <<"less_load_at_once">>
                   ELSE <<>>
           steps == load \o rest \o endings \o <<"test_the_memory">>
<1>1. SuddenStopAdvice(a).steps = steps
  BY DEF SuddenStopAdvice
<1>2. ASSUME NEW x, NEW y, NEW e, e = <<>> \/ \E z : e = <<z>>
      PROVE  /\ Head(<<x, y>> \o rest \o e \o <<"test_the_memory">>) = x
             /\ Head(<<x>> \o rest \o e \o <<"test_the_memory">>) = x
             /\ Head(<<>> \o rest \o e \o <<"test_the_memory">>) = "rate_the_supply"
  BY <1>2
<1>3. endings = <<>> \/ \E z : endings = <<z>>
  OBVIOUS
<1> HIDE DEF endings, rest
<1>4. CASE gpu
  <2>1. Suspects(a) # {}
    BY <1>4
  <2>2. load = <<"cap_the_GPU", a.vendor>>
    BY <1>4
  <2>3. Head(steps) = "cap_the_GPU"
    BY <1>2, <1>3, <2>2
  <2>4. QED
    BY <1>1, <2>1, <2>3
<1>5. CASE ~gpu /\ Suspects(a) # {}
  <2>1. load = <<"less_load_at_once">>
    BY <1>5
  <2>2. Head(steps) = "less_load_at_once"
    BY <1>2, <1>3, <2>1
  <2>3. QED
    BY <1>1, <1>5, <2>2
<1>6. CASE Suspects(a) = {}
  <2>1. load = <<>>
    BY <1>6
  <2>2. Head(steps) = "rate_the_supply"
    BY <1>2, <1>3, <2>1
  <2>3. QED
    BY <1>1, <1>6, <2>2
<1>7. QED
  BY <1>4, <1>5, <1>6

LEMMA CrashSuddenStop == CrashInv => SuddenStopAgrees
<1> SUFFICES ASSUME CrashInv, NEW d \in detection, NEW r \in report,
                    d.abrupt # {}, ~r.ai, "cause" \in DOMAIN r
             PROVE  LET says(what) == \E i \in DOMAIN d.evidence : d.evidence[i] = what
                    IN /\ says("heavy_job") <=> "heavy_job" \in r.cause
                       /\ says("heavy_job") <=>
                             Head(r.steps) \in {"cap_the_GPU", "less_load_at_once"}
                       /\ says("not_the_first_time") <=>
                             "not_the_first_time" \in r.cause
                       /\ r.confidence = 550 <=>
                             ~says("heavy_job") /\ ~says("not_the_first_time")
  BY DEF SuddenStopAgrees
<1>1. LogsOK(telemetry) /\ d = Detect(telemetry) /\ detection = {d}
  BY DetectedIs
<1>2. StopDetection(d, telemetry)
  BY <1>1, DetectIs DEF CleanDetection, RankedDetection, PlainDetection
<1>3. PICK a : /\ d.type = "power_loss"
               /\ d.confidence = AbruptConfidence(a) /\ d.abrupt = {a}
               /\ \A w : (\E i \in DOMAIN d.evidence : d.evidence[i] = w)
                            <=> w \in Described(a)
  BY <1>2 DEF StopDetection
<1>4. AsAdvised(r, d)
  <2>1. PICK row \in stored : Reported(r, row, d)
    BY DEF CrashInv, Detected
  <2>2. r # Preliminary(telemetry, d)
    BY DEF Preliminary
  <2>3. QED
    BY <2>1, <2>2, HeuristicReport DEF Reported
<1>5. Advice(d) = SuddenStopAdvice(a)
  <2>1. (CHOOSE x \in d.abrupt : TRUE) = a
    BY <1>3
  <2>2. QED
    BY <1>3, <2>1 DEF Advice
<1>6. /\ "heavy_job" \in Described(a) <=> Suspects(a) # {}
      /\ "not_the_first_time" \in Described(a) <=> Recurring(a)
  BY DEF Described, Suspects
<1>7. /\ "heavy_job" \in r.cause <=> Suspects(a) # {}
      /\ "not_the_first_time" \in r.cause <=> Recurring(a)
  <2>1. r.cause = SuddenStopAdvice(a).cause
    BY <1>4, <1>5 DEF AsAdvised
  <2>2. QED
    BY <2>1 DEF SuddenStopAdvice
<1>8. Head(r.steps) \in {"cap_the_GPU", "less_load_at_once"} <=> Suspects(a) # {}
  <2>1. r.steps = SuddenStopAdvice(a).steps
    BY <1>4, <1>5 DEF AsAdvised
  <2>2. QED
    BY <2>1, FirstStep
<1>9. r.confidence = 550 <=> Suspects(a) = {} /\ ~Recurring(a)
  <2>1. r.confidence = AbruptConfidence(a)
    BY <1>3, <1>4 DEF AsAdvised
  <2>2. QED
    BY <2>1 DEF AbruptConfidence, Suspects, Least
<1>10. QED
  BY <1>3, <1>6, <1>7, <1>8, <1>9

LEMMA CrashUsable == CrashInv => ReportIsUsable
<1> SUFFICES ASSUME CrashInv, NEW d \in detection, NEW r \in report, NEW row \in stored
             PROVE  /\ row.type = d.type /\ row.severity # Null
                    /\ Completed(r) =>
                          r.alternatives # Null /\ r.severity = row.severity
                    /\ Completed(r) /\ ~r.ai =>
                          /\ <<r.type, r.severity, r.confidence>>
                                = <<d.type, d.severity, d.confidence>>
                          /\ \A i \in DOMAIN r.alternatives :
                                r.alternatives[i].confidence <= d.confidence
                    /\ ~Completed(r) =>
                          /\ row.severity = d.severity
                          /\ r.heuristic.type = d.type
                          /\ r.heuristic.confidence = d.confidence
  BY DEF ReportIsUsable
<1>1. LogsOK(telemetry) /\ d = Detect(telemetry) /\ detection = {d}
  BY DetectedIs
<1>2. Reported(r, row, d)
  BY DEF CrashInv, Detected
<1>3. \A s \in Seq(Offered) : s # Null
  BY CrashAnalysisAssumption DEF Offered
<1>4. /\ d.alternatives \in Seq(Offered)
      /\ \A k \in DOMAIN d.alternatives :
            d.alternatives[k].confidence <= d.confidence
  BY <1>1, AlternativesFit
<1>s. d.severity # Null
  BY <1>1, DetectTypes, CrashAnalysisAssumption
<1>5. CASE /\ r = Preliminary(telemetry, d)
           /\ row = [type |-> d.type, severity |-> d.severity]
  <2>1. /\ DOMAIN r = {"heuristic", "timeline", "ai"}
        /\ r.heuristic.type = d.type /\ r.heuristic.confidence = d.confidence
    BY <1>5 DEF Preliminary
  <2>2. ~Completed(r)
    BY <2>1 DEF Completed
  <2>3. QED
    BY <1>5, <1>s, <2>1, <2>2
<1>6. ASSUME NEW error \in Failure \cup {"none"},
             r = Updated(Preliminary(telemetry, d), HeuristicResult(d, error)),
             row = [type |-> d.type, severity |-> d.severity]
      PROVE  /\ Completed(r) /\ r.alternatives # Null
             /\ <<r.type, r.severity, r.confidence>>
                   = <<d.type, d.severity, d.confidence>>
             /\ \A i \in DOMAIN r.alternatives :
                   r.alternatives[i].confidence <= d.confidence
  <2>1. AsAdvised(r, d)
    BY <1>6, HeuristicReport
  <2>2. /\ r.type = d.type /\ r.severity = d.severity
        /\ r.confidence = d.confidence /\ r.alternatives = RunnersUp(d)
        /\ Completed(r)
    BY <2>1 DEF AsAdvised
  <2> DEFINE s == d.alternatives
             n == Least(3, Len(s))
  <2>3. n \in 0..Len(s)
    BY <1>4 DEF Least
  <2>4. RunnersUp(d) = <<>> \/ RunnersUp(d) = SubSeq(s, 1, n)
    BY DEF RunnersUp
  <2> HIDE DEF s, n
  <2>5. /\ <<>> \in Seq(Offered)
        /\ SubSeq(s, 1, n) \in Seq(Offered)
        /\ \A i \in DOMAIN SubSeq(s, 1, n) :
              i \in DOMAIN s /\ SubSeq(s, 1, n)[i] = s[i]
    BY <1>4, <2>3 DEF s
  <2>6. RunnersUp(d) \in Seq(Offered)
    BY <2>4, <2>5
  <2>7. \A i \in DOMAIN RunnersUp(d) : RunnersUp(d)[i].confidence <= d.confidence
    <3>1. CASE RunnersUp(d) = <<>>
      BY <3>1
    <3>2. CASE RunnersUp(d) = SubSeq(s, 1, n)
      BY <1>4, <2>5, <3>2 DEF s
    <3>3. QED
      BY <2>4, <3>1, <3>2
  <2>8. QED
    BY <1>3, <2>2, <2>6, <2>7
<1>7. CASE /\ Completed(r) /\ r.ai = TRUE /\ r.alternatives # Null
           /\ row = [type |-> d.type, severity |-> r.severity] /\ r.severity # Null
  BY <1>7
<1>8. CASE /\ row = [type |-> d.type, severity |-> d.severity]
           /\ \E error \in Failure \cup {"none"} :
                r = Updated(Preliminary(telemetry, d), HeuristicResult(d, error))
  BY <1>6, <1>8, <1>s
<1>9. QED
  BY <1>2, <1>5, <1>7, <1>8 DEF Reported

\* The part of the type invariant that is about a boot.
CrashTypes ==
    /\ \A d \in detection :
          /\ d.type \in CrashType
          /\ d.severity \in DOMAIN Rank
          /\ d.confidence \in Confident
          /\ Len(d.sources) = Len(d.evidence)
          /\ d.evidence # <<>>
    /\ Cardinality(report) <= 1 /\ Cardinality(detection) <= 1
    /\ \A row \in stored : row.type \in CrashType
    /\ outcome \in {"none", "noted", "aborted"}

LEMMA CrashTyped == CrashInv => CrashTypes
<1> SUFFICES ASSUME CrashInv PROVE CrashTypes
  OBVIOUS
<1>1. ASSUME NEW d \in detection
      PROVE  /\ d.type \in CrashType
             /\ d.severity \in DOMAIN Rank
             /\ d.confidence \in Confident
             /\ Len(d.sources) = Len(d.evidence)
             /\ d.evidence # <<>>
  <2>1. LogsOK(telemetry) /\ d = Detect(telemetry)
    BY DetectedIs
  <2>2. /\ d.type \in CrashType /\ d.severity \in DOMAIN Rank
        /\ d.confidence \in 0..950 /\ Sourced(d)
    BY <2>1, DetectTypes
  <2>3. QED
    BY <2>2 DEF Confident, Sourced
<1>2. \A S : S = {} \/ (\E x : S = {x}) => Cardinality(S) <= 1
  <2>1. Cardinality({}) = 0 /\ \A x : Cardinality({x}) = 1
    BY FS_EmptySet, FS_Singleton
  <2>2. \A x : Cardinality({}) <= 1 /\ Cardinality({x}) <= 1
    BY <2>1
  <2>3. QED
    BY <2>2
<1>3. detection = {} \/ \E d \in detection : detection = {d}
  BY DEF CrashInv, Detected
<1>4. report = {} \/ \E r : report = {r}
  BY <1>3 DEF CrashInv, Detected, Undetected
<1>5. Cardinality(report) <= 1 /\ Cardinality(detection) <= 1
  BY <1>2, <1>3, <1>4
<1>6. ASSUME NEW row \in stored PROVE row.type \in CrashType
  <2>1. PICK d \in detection : \E r : Reported(r, row, d)
    BY <1>3 DEF CrashInv, Detected, Undetected
  <2>2. row.type = d.type
    BY <2>1 DEF Reported
  <2>3. QED
    BY <1>1, <2>2
<1>7. outcome \in {"none", "noted", "aborted"}
  BY DEF CrashInv, LogTypes
<1>8. QED
  BY <1>1, <1>5, <1>6, <1>7 DEF CrashTypes

-----------------------------------------------------------------------------
(* The processes and their growth: flight_recorder.py. *)

\* A sorted sequence has no element twice.
LEMMA SortedOnce ==
    ASSUME NEW S, NEW R, StrictOrder(S, R), NEW s, SortedAs(s, S, R)
    PROVE  \A j, k \in 1..Cardinality(S) : s[j] = s[k] => j = k
<1> DEFINE n == Cardinality(S)
<1>1. n \in Nat /\ s \in [1..n -> S]
  BY DEF SortedAs
<1>2. ASSUME NEW j \in 1..n, NEW k \in 1..n, j < k PROVE s[j] # s[k]
  <2>1. <<s[j], s[k]>> \in R /\ s[j] \in S
    BY <1>1, <1>2 DEF SortedAs
  <2>2. QED
    BY <2>1 DEF StrictOrder
<1> HIDE DEF n
<1>3. \A j, k \in 1..n : s[j] = s[k] => j = k
  BY <1>1, <1>2
<1>4. QED
  BY <1>3 DEF n

\* A process as the table of processes has it.
Process == [pid : Pid, started : Nat, exe : {"exe"}, rss : 1..MaxMemory]

LEMMA ProcessNumbers ==
    ASSUME NEW p \in Process
    PROVE  p.rss \in Int /\ p.pid \in Int
<1>1. p.rss \in 1..MaxMemory /\ p.pid \in Pid
  BY DEF Process
<1>2. /\ \A c \in 1..MaxMemory : c \in Int
      /\ \A c \in Pid : c \in Int
  BY AnalysesAssumption
<1>3. QED
  BY <1>1, <1>2

LEMMA SnapshotRows ==
    ASSUME NEW s \in Seq([at : Nat, top : Seq(Process)])
    PROVE  /\ Len(s) \in Nat /\ DOMAIN s = 1..Len(s)
           /\ \A i \in 1..Len(s) : s[i].top \in Seq(Process)
<1> DEFINE S == [at : Nat, top : Seq(Process)]
<1>1. \A x \in S : x.top \in Seq(Process)
  OBVIOUS
<1> HIDE DEF S
<1>2. s \in Seq(S)
  BY DEF S
<1>3. /\ Len(s) \in Nat /\ DOMAIN s = 1..Len(s)
      /\ \A i \in 1..Len(s) : s[i] \in S
  BY <1>2
<1>4. QED
  BY <1>1, <1>3

\* No two rows have the same process number.
PidOnce(rows) == \A j, k \in 1..Len(rows) : rows[j].pid = rows[k].pid => j = k

\* The inductive invariant of the processes and the stored snapshots.
MemoryInv ==
    /\ processes \subseteq Process /\ IsFiniteSet(processes)
    /\ \A p, q \in processes : p.pid = q.pid => p = q
    /\ started \in Nat
    /\ snapshots \in Seq([at : Nat, top : Seq(Process)])
    /\ Len(snapshots) <= MaxSnapshots
    /\ \A i \in 1..Len(snapshots) :
          PidOnce(snapshots[i].top) /\ Len(snapshots[i].top) <= TopSize

\* The order of the rows of a snapshot.
Larger(p, q) == \/ p.rss > q.rss
                \/ p.rss = q.rss /\ p.pid < q.pid

LEMMA LargerOrder ==
    ASSUME NEW S, S \subseteq Process, \A p, q \in S : p.pid = q.pid => p = q
    PROVE  StrictOrder(S, {p \in S \X S : Larger(p[1], p[2])})
<1> DEFINE R == {p \in S \X S : Larger(p[1], p[2])}
<1>1. \A p, q \in S : <<p, q>> \in R <=> Larger(p, q)
  BY Zenon
<1>2. \A p \in S : p.rss \in Int /\ p.pid \in Int
  BY ProcessNumbers
<1> HIDE DEF R
<1>3. \A p \in S : ~Larger(p, p)
  BY <1>2 DEF Larger
<1>4. \A p, q, r \in S : Larger(p, q) /\ Larger(q, r) => Larger(p, r)
  BY <1>2 DEF Larger
<1>5. \A p, q \in S : p # q => Larger(p, q) \/ Larger(q, p)
  BY <1>2 DEF Larger
<1>6. StrictOrder(S, R)
  BY <1>1, <1>3, <1>4, <1>5 DEF StrictOrder
<1>7. QED
  BY <1>6 DEF R

LEMMA TopRows ==
    ASSUME NEW S, S \subseteq Process, IsFiniteSet(S),
           \A p, q \in S : p.pid = q.pid => p = q
    PROVE  /\ TopProcesses(S) \in Seq(Process)
           /\ PidOnce(TopProcesses(S)) /\ Len(TopProcesses(S)) <= TopSize
<1> DEFINE R == {p \in S \X S : Larger(p[1], p[2])}
           sorted == InOrder(S, R)
           n == Cardinality(S)
           kept == IF Len(sorted) < TopSize THEN Len(sorted) ELSE TopSize
           top == SubSeq(sorted, 1, kept)
<1>1. TopProcesses(S) = top
  BY DEF TopProcesses, Sorted, Larger
<1>2. StrictOrder(S, R)
  BY LargerOrder
<1> HIDE DEF R
<1>3. SortedAs(sorted, S, R)
  BY <1>2, InOrderSorts
<1> HIDE DEF sorted
<1>4. n \in Nat /\ sorted \in [1..n -> S]
  BY <1>3 DEF SortedAs
<1>5. \A j, k \in 1..n : sorted[j] = sorted[k] => j = k
  BY <1>2, <1>3, SortedOnce
<1> HIDE DEF n
<1>6. TopSize \in Nat
  BY FlightRecorderAssumption
<1>7. sorted \in Seq(Process) /\ Len(sorted) = n
  <2>1. sorted \in Seq(S) /\ Len(sorted) = n
    BY <1>4
  <2>2. QED
    BY <2>1
<1>8. kept \in 0..n /\ kept <= TopSize
  BY <1>4, <1>6, <1>7
<1> HIDE DEF kept
<1>9. /\ top \in Seq(Process) /\ Len(top) = kept
      /\ \A k \in 1..kept : k \in 1..n /\ top[k] = sorted[k]
  BY <1>4, <1>7, <1>8
<1> HIDE DEF top
<1>10. PidOnce(top)
  BY <1>4, <1>5, <1>9 DEF PidOnce
<1>11. QED
  BY <1>1, <1>6, <1>8, <1>9, <1>10

LEMMA InitMemory == Init => MemoryInv
<1> SUFFICES ASSUME Init PROVE MemoryInv
  OBVIOUS
<1>1. processes = {} /\ IsFiniteSet({}) /\ started = 0
  BY FS_EmptySet DEF Init
<1>2. snapshots = <<>> /\ <<>> \in Seq([at : Nat, top : Seq(Process)]) /\ Len(<<>>) = 0
  BY DEF Init
<1>3. MaxSnapshots \in Nat
  BY AnalysesAssumption
<1>4. QED
  BY <1>1, <1>2, <1>3 DEF MemoryInv

LEMMA NextMemory == MemoryInv /\ [Next]_vars => MemoryInv'
<1> SUFFICES ASSUME MemoryInv, [Next]_vars PROVE MemoryInv'
  OBVIOUS
<1>n. MaxSnapshots \in Nat /\ MaxMemory \in Nat \ {0}
  BY AnalysesAssumption
<1>1. CASE UNCHANGED memoryVars
  BY <1>1 DEF memoryVars, MemoryInv
<1>2. ASSUME NEW pid \in Pid, StartProcess(pid) PROVE MemoryInv'
  <2>1. PICK p : p = [pid |-> pid, started |-> started, exe |-> "exe", rss |-> 1]
    OBVIOUS
  <2>2. /\ \A q \in processes : q.pid # pid
        /\ processes' = processes \cup {p}
        /\ started' = started + 1 /\ snapshots' = snapshots
    BY <1>2, <2>1 DEF StartProcess
  <2>3. p \in Process /\ p.pid = pid
    BY <1>n, <2>1 DEF MemoryInv, Process
  <2>4. IsFiniteSet(processes')
    BY <2>2, FS_AddElement DEF MemoryInv
  <2>5. QED
    BY <2>2, <2>3, <2>4 DEF MemoryInv
<1>3. ASSUME NEW p \in processes, EndProcess(p) PROVE MemoryInv'
  <2>1. /\ processes' = processes \ {p} /\ UNCHANGED <<started, snapshots>>
    BY <1>3 DEF EndProcess
  <2>2. IsFiniteSet(processes')
    BY <2>1, FS_RemoveElement DEF MemoryInv
  <2>3. QED
    BY <2>1, <2>2 DEF MemoryInv
<1>4. ASSUME NEW p \in processes, NEW rss \in 1..MaxMemory, Resize(p, rss)
      PROVE  MemoryInv'
  <2>1. PICK q : q = [p EXCEPT !.rss = rss]
    OBVIOUS
  <2>2. /\ processes' = (processes \ {p}) \cup {q} /\ UNCHANGED <<started, snapshots>>
    BY <1>4, <2>1 DEF Resize
  <2>3. q \in Process /\ q.pid = p.pid
    BY <2>1 DEF MemoryInv, Process
  <2>4. IsFiniteSet(processes')
    <3>1. IsFiniteSet(processes \ {p})
      BY FS_RemoveElement DEF MemoryInv
    <3>2. QED
      BY <2>2, <3>1, FS_AddElement
  <2>5. QED
    BY <2>2, <2>3, <2>4 DEF MemoryInv
<1>5. ASSUME RecordSnapshot PROVE MemoryInv'
  <2>1. PICK s : s = [at |-> Len(snapshots), top |-> TopProcesses(processes)]
    OBVIOUS
  <2>2. /\ Len(snapshots) < MaxSnapshots /\ snapshots' = Append(snapshots, s)
        /\ UNCHANGED <<processes, started>>
    BY <1>5, <2>1 DEF RecordSnapshot
  <2>3. /\ TopProcesses(processes) \in Seq(Process)
        /\ PidOnce(TopProcesses(processes))
        /\ Len(TopProcesses(processes)) <= TopSize
    BY TopRows DEF MemoryInv
  <2>4. snapshots \in Seq([at : Nat, top : Seq(Process)])
    BY DEF MemoryInv
  <2>5. /\ s \in [at : Nat, top : Seq(Process)]
        /\ PidOnce(s.top) /\ Len(s.top) <= TopSize
    BY <2>1, <2>3, <2>4
  <2>6. /\ snapshots' \in Seq([at : Nat, top : Seq(Process)])
        /\ Len(snapshots') = Len(snapshots) + 1
        /\ \A i \in 1..Len(snapshots) : snapshots'[i] = snapshots[i]
        /\ snapshots'[Len(snapshots) + 1] = s
    <3> DEFINE S == [at : Nat, top : Seq(Process)]
    <3>1. s \in S /\ snapshots \in Seq(S)
      BY <2>4, <2>5
    <3> HIDE DEF S
    <3>2. /\ snapshots' \in Seq(S)
          /\ Len(snapshots') = Len(snapshots) + 1
          /\ \A i \in 1..Len(snapshots) : snapshots'[i] = snapshots[i]
          /\ snapshots'[Len(snapshots) + 1] = s
      BY <2>2, <3>1
    <3>3. QED
      BY <3>2 DEF S
  <2>7. Len(snapshots') <= MaxSnapshots
    BY <1>n, <2>2, <2>4, <2>6
  <2>8. ASSUME NEW i \in 1..Len(snapshots')
        PROVE  PidOnce(snapshots'[i].top) /\ Len(snapshots'[i].top) <= TopSize
    <3>1. i \in 1..Len(snapshots) \/ i = Len(snapshots) + 1
      BY <2>4, <2>6
    <3>2. CASE i \in 1..Len(snapshots)
      BY <2>6, <3>2 DEF MemoryInv
    <3>3. CASE i = Len(snapshots) + 1
      BY <2>5, <2>6, <3>3
    <3>4. QED
      BY <3>1, <3>2, <3>3
  <2>9. QED
    BY <2>2, <2>6, <2>7, <2>8 DEF MemoryInv, PidOnce
<1>6. ASSUME \/ \E line \in Line, gap \in 1..2 : LogLine(line, gap)
             \/ \E line \in Ringed, collector \in {"dmesg", "xids"} :
                   KernelLine(line, collector)
             \/ \E facts \in Facts : DetectCrash(facts)
             \/ \E error \in Failure \cup {"none"} : UseHeuristics(error)
             \/ \E answer \in Answer : UseAnswer(answer)
           \/ TimeOut
             \/ TimeOut
      PROVE  UNCHANGED memoryVars
  BY <1>6 DEF LogLine, KernelLine, DetectCrash, UseHeuristics, UseAnswer,
              Complete, TimeOut, CrashOnly
<1>7. ASSUME NEW r \in Reading, NEW plan \in Plan, TakeReading(r, plan)
      PROVE  UNCHANGED memoryVars
  BY <1>7 DEF TakeReading
<1>8. ASSUME \/ \E ahead \in Ahead, stamped \in BOOLEAN : KernelLogs(ahead, stamped)
             \/ Pass
             \/ \E by \in Correction : SetClock(by)
             \/ \E iso, plain \in BOOLEAN : LiveBeat(iso, plain)
      PROVE  UNCHANGED memoryVars
  BY <1>8 DEF KernelLogs, Pass, SetClock, LiveBeat, AlertsOnly
<1>9. CASE UNCHANGED vars
  BY <1>1, <1>9 DEF vars
<1>10. QED
  BY <1>1, <1>2, <1>3, <1>4, <1>5, <1>6, <1>7, <1>8, <1>9 DEF Next

\* The first number of a set, or 0.
First(I) == IF I # {} THEN Min(I) ELSE 0

LEMMA FirstIs ==
    ASSUME NEW n \in Nat, NEW I \in SUBSET (1..n)
    PROVE  /\ First(I) # 0 <=> I # {}
           /\ I # {} => First(I) \in I
           /\ \A i \in I : First(I) <= i
<1>1. CASE I = {}
  BY <1>1 DEF First
<1>2. CASE I # {}
  <2>1. PICK m \in I : \A i \in I : m <= i
    BY <1>2, LeastNumber
  <2>2. First(I) \in I /\ \A i \in I : First(I) <= i
    BY <1>2, <2>1 DEF First, Min
  <2>3. QED
    BY <2>2
<1>3. QED
  BY <1>1, <1>2

\* The places of the rows of a process in a snapshot.
Places(s, identity) == {j \in 1..Len(s.top) : Identity(s.top[j]) = identity}

\* The snapshots that list a process.
Listing(shots, identity) ==
    {i \in 1..Len(shots) : First(Places(shots[i], identity)) # 0}

\* The earliest row of a process is its first in the first snapshot that lists it.
LEMMA EarliestIs ==
    ASSUME NEW shots, NEW identity
    PROVE  Earliest(shots, identity) =
             LET s == shots[First(Listing(shots, identity))]
             IN s.top[First(Places(s, identity))]
BY DEF Earliest, SelectInSeq, First, Places, Listing

\* What is said of a process, of those that grew, and in which order.
Grown(shots, row) ==
    [pid |-> row.pid, started |-> row.started, rss |-> row.rss,
     growth |-> row.rss - Earliest(shots, Identity(row)).rss]

Found(shots) ==
    {g \in {Grown(shots, row) : row \in ToSet(Last(shots).top)} :
       g.growth > MinGrowth}

More(g, h) == \/ g.growth > h.growth
              \/ /\ g.growth = h.growth
                 /\ \/ g.rss > h.rss
                    \/ g.rss = h.rss /\ g.pid < h.pid

\* Snapshots whose rows are of different processes.
SamplesOK(shots) ==
    /\ shots \in Seq([at : Nat, top : Seq(Process)])
    /\ \A i \in 1..Len(shots) : PidOnce(shots[i].top)

\* Where a row that is listed is listed first.
LEMMA FirstListed ==
    ASSUME NEW shots, SamplesOK(shots), NEW i \in 1..Len(shots),
           NEW row \in ToSet(shots[i].top)
    PROVE  \E k \in 1..i :
              /\ Earliest(shots, Identity(row)) \in ToSet(shots[k].top)
              /\ Identity(Earliest(shots, Identity(row))) = Identity(row)
              /\ \A l \in 1..k - 1 : Places(shots[l], Identity(row)) = {}
<1> DEFINE identity == Identity(row)
           place(l) == First(Places(shots[l], identity))
           k == First(Listing(shots, identity))
<1>1. Len(shots) \in Nat /\ \A l \in 1..Len(shots) : shots[l].top \in Seq(Process)
  BY SnapshotRows DEF SamplesOK
<1>2. ASSUME NEW l \in 1..Len(shots)
      PROVE  /\ place(l) # 0 <=> Places(shots[l], identity) # {}
             /\ place(l) # 0 => place(l) \in Places(shots[l], identity)
  <2>1. Len(shots[l].top) \in Nat
    BY <1>1
  <2>2. Places(shots[l], identity) \in SUBSET (1..Len(shots[l].top))
    BY DEF Places
  <2> HIDE DEF identity
  <2>3. QED
    BY <2>1, <2>2, FirstIs
<1>3. i \in Listing(shots, identity)
  <2>1. PICK j \in DOMAIN shots[i].top : row = shots[i].top[j]
    BY DEF ToSet
  <2>2. j \in Places(shots[i], identity)
    BY <1>1, <2>1 DEF Places
  <2>3. QED
    BY <1>2, <2>2 DEF Listing
<1>4. /\ k \in Listing(shots, identity)
      /\ \A l \in Listing(shots, identity) : k <= l
  <2>1. Listing(shots, identity) \in SUBSET (1..Len(shots))
    BY DEF Listing
  <2>2. QED
    BY <1>1, <1>3, <2>1, FirstIs
<1>5. Earliest(shots, identity) = shots[k].top[place(k)]
  BY EarliestIs
<1> HIDE DEF k, identity
<1>6. k \in 1..i /\ k \in 1..Len(shots) /\ place(k) # 0
  BY <1>3, <1>4 DEF Listing
<1>7. place(k) \in Places(shots[k], identity)
  BY <1>2, <1>6
<1> HIDE DEF place
<1>8. place(k) \in 1..Len(shots[k].top) /\ Identity(shots[k].top[place(k)]) = identity
  BY <1>7 DEF Places
<1>9. Earliest(shots, identity) \in ToSet(shots[k].top)
  BY <1>1, <1>5, <1>6, <1>8 DEF ToSet
<1>10. ASSUME NEW l \in 1..k - 1 PROVE Places(shots[l], identity) = {}
  <2>1. l \in 1..Len(shots) /\ ~(k <= l)
    BY <1>6
  <2>2. l \notin Listing(shots, identity)
    BY <1>4, <2>1
  <2>3. QED
    BY <1>2, <2>1, <2>2 DEF Listing, place
<1>11. QED
  BY <1>5, <1>6, <1>8, <1>9, <1>10 DEF identity

LEMMA IdentityIs ==
    ASSUME NEW row \in Process, NEW other \in Process
    PROVE  Identity(row) = Identity(other) <=>
             row.pid = other.pid /\ row.started = other.started
BY DEF Identity, Process

LEMMA GrowthIs ==
    ASSUME NEW shots, SamplesOK(shots), shots # <<>>
    PROVE  ToSet(MemoryGrowth(shots)) \subseteq Found(shots)
<1> DEFINE S == Found(shots)
           rows == Last(shots).top
           R == {p \in S \X S : More(p[1], p[2])}
           sorted == InOrder(S, R)
           n == Cardinality(S)
           kept == IF Len(sorted) < MaxReported THEN Len(sorted) ELSE MaxReported
           top == SubSeq(sorted, 1, kept)
<1>1. MemoryGrowth(shots) = top
  BY DEF MemoryGrowth, Sorted, Grown, Found, More
<1>2. /\ Len(shots) \in 1..Len(shots) /\ rows = shots[Len(shots)].top
      /\ rows \in Seq(Process) /\ PidOnce(rows)
  <2>1. Len(shots) \in 1..Len(shots)
    BY DEF SamplesOK
  <2>2. rows = shots[Len(shots)].top
    BY DEF Last
  <2> HIDE DEF rows
  <2>3. QED
    BY <2>1, <2>2, SnapshotRows DEF SamplesOK
<1>3. IsFiniteSet(S)
  <2> DEFINE f == [j \in 1..Len(rows) |-> Grown(shots, rows[j])]
             T == {Grown(shots, row) : row \in ToSet(rows)}
  <2>1. IsFiniteSet(1..Len(rows))
    BY <1>2, UpTo
  <2>2. f \in Surjection(1..Len(rows), T)
    <3>1. ToSet(rows) = {rows[j] : j \in 1..Len(rows)}
      BY <1>2 DEF ToSet
    <3> HIDE DEF rows
    <3>2. QED
      BY <3>1 DEF Surjection
  <2> HIDE DEF f
  <2>3. IsFiniteSet(T)
    BY <2>1, <2>2, FS_Surjection
  <2>4. S \in SUBSET T
    BY DEF Found
  <2> HIDE DEF S, T
  <2>5. QED
    BY <2>3, <2>4, FS_Subset
<1>4. \A g \in S : \E row \in ToSet(rows) : g = Grown(shots, row)
  BY DEF Found
<1>5. ASSUME NEW g \in S, NEW h \in S, g.pid = h.pid PROVE g = h
  <2>1. PICK a \in ToSet(rows), b \in ToSet(rows) :
          g = Grown(shots, a) /\ h = Grown(shots, b)
    BY <1>4
  <2>2. a.pid = b.pid
    BY <1>5, <2>1 DEF Grown
  <2>3. PICK j \in 1..Len(rows), k \in 1..Len(rows) : a = rows[j] /\ b = rows[k]
    BY <1>2 DEF ToSet
  <2> HIDE DEF rows
  <2>4. j = k
    BY <1>2, <2>2, <2>3 DEF PidOnce
  <2>5. QED
    BY <2>1, <2>3, <2>4
<1>6. ASSUME NEW g \in S PROVE g.growth \in Int /\ g.rss \in Int /\ g.pid \in Int
  <2>1. PICK row \in ToSet(rows) : g = Grown(shots, row)
    BY <1>4
  <2>2. row \in Process
    BY <1>2 DEF ToSet
  <2>3. Earliest(shots, Identity(row)) \in Process
    <3>1. PICK k \in 1..Len(shots) :
             Earliest(shots, Identity(row)) \in ToSet(shots[k].top)
      BY <1>2, FirstListed
    <3>2. shots[k].top \in Seq(Process)
      BY SnapshotRows DEF SamplesOK
    <3>3. QED
      BY <3>1, <3>2 DEF ToSet
  <2>4. /\ row.rss \in Int /\ row.pid \in Int
        /\ Earliest(shots, Identity(row)).rss \in Int
    BY <2>2, <2>3, ProcessNumbers
  <2>5. QED
    BY <2>1, <2>4 DEF Grown
<1> HIDE DEF S
<1>7. StrictOrder(S, R)
  <2>1. \A g, h \in S : <<g, h>> \in R <=> More(g, h)
    BY Zenon
  <2> HIDE DEF R
  <2>2. \A g \in S : ~More(g, g)
    BY <1>6 DEF More
  <2>3. \A g, h, i \in S : More(g, h) /\ More(h, i) => More(g, i)
    BY <1>6 DEF More
  <2>4. \A g, h \in S : g # h => More(g, h) \/ More(h, g)
    BY <1>5, <1>6 DEF More
  <2>5. QED
    BY <2>1, <2>2, <2>3, <2>4 DEF StrictOrder
<1> HIDE DEF R
<1>8. SortedAs(sorted, S, R)
  BY <1>3, <1>7, InOrderSorts
<1> HIDE DEF sorted
<1>9. n \in Nat /\ sorted \in [1..n -> S]
  BY <1>8 DEF SortedAs
<1>10. MaxReported \in Nat
  BY FlightRecorderAssumption
<1> HIDE DEF n
<1>11. sorted \in Seq(S) /\ Len(sorted) = n
  BY <1>9
<1>12. kept \in 0..n
  BY <1>9, <1>10, <1>11
<1> HIDE DEF kept
<1>13. top \in Seq(S)
  BY <1>9, <1>11, <1>12
<1> HIDE DEF top
<1>14. ToSet(top) \subseteq S
  BY <1>13 DEF ToSet
<1>15. QED
  BY <1>1, <1>14 DEF S

LEMMA MemoryGrowthIsOwn == MemoryInv => GrowthIsOwn
<1> DEFINE listed(i, g) == {row \in ToSet(snapshots[i].top) :
                              row.pid = g.pid /\ row.started = g.started}
<1> SUFFICES ASSUME MemoryInv, NEW g \in ToSet(MemoryGrowth(snapshots))
             PROVE  \E i \in DOMAIN snapshots :
                       /\ \E row \in listed(i, g) : row.rss = g.rss - g.growth
                       /\ \A k \in 1..i - 1 : listed(k, g) = {}
  BY DEF GrowthIsOwn
<1>1. SamplesOK(snapshots)
  BY DEF MemoryInv, SamplesOK
<1>2. snapshots # <<>>
  <2>1. ToSet(<<>>) = {}
    BY DEF ToSet
  <2>2. QED
    BY <2>1 DEF MemoryGrowth
<1> DEFINE n == Len(snapshots)
<1>3. /\ n \in 1..n /\ DOMAIN snapshots = 1..n /\ Last(snapshots) = snapshots[n]
      /\ \A i \in 1..n : \A row \in ToSet(snapshots[i].top) : row \in Process
  <2>1. \A i \in 1..n : snapshots[i].top \in Seq(Process)
    BY <1>1, SnapshotRows DEF SamplesOK
  <2>2. n \in 1..n /\ DOMAIN snapshots = 1..n /\ Last(snapshots) = snapshots[n]
    BY <1>1, <1>2 DEF SamplesOK, Last
  <2> HIDE DEF n
  <2>3. QED
    BY <2>1, <2>2 DEF ToSet
<1>4. PICK row \in ToSet(snapshots[n].top) : g = Grown(snapshots, row)
  <2>1. g \in Found(snapshots)
    BY <1>1, <1>2, GrowthIs
  <2>2. QED
    BY <1>3, <2>1 DEF Found
<1> DEFINE first == Earliest(snapshots, Identity(row))
<1>5. PICK k \in 1..n :
        /\ first \in ToSet(snapshots[k].top) /\ Identity(first) = Identity(row)
        /\ \A l \in 1..k - 1 : Places(snapshots[l], Identity(row)) = {}
  BY <1>1, <1>3, FirstListed
<1> HIDE DEF n, first
<1>6. row \in Process /\ first \in Process
  BY <1>3, <1>4, <1>5
<1>7. /\ g.pid = row.pid /\ g.started = row.started
      /\ g.rss = row.rss /\ g.growth = row.rss - first.rss
  BY <1>4 DEF Grown, first
<1>8. first \in listed(k, g)
  BY <1>5, <1>6, <1>7, IdentityIs
<1>9. first.rss = g.rss - g.growth
  <2>1. row.rss \in Int /\ first.rss \in Int
    BY <1>6, ProcessNumbers
  <2>2. QED
    BY <1>7, <2>1
<1>10. ASSUME NEW l \in 1..k - 1 PROVE listed(l, g) = {}
  <2>1. l \in 1..n
    BY <1>3, <1>5
  <2>2. SUFFICES ASSUME NEW p \in listed(l, g) PROVE FALSE
    OBVIOUS
  <2>3. p \in Process /\ Identity(p) = Identity(row)
    BY <1>3, <1>6, <1>7, <2>1, <2>2, IdentityIs
  <2>4. PICK j \in DOMAIN snapshots[l].top : p = snapshots[l].top[j]
    BY <2>2 DEF ToSet
  <2>5. j \in 1..Len(snapshots[l].top)
    <3>1. snapshots[l].top \in Seq(Process)
      BY <1>1, <2>1, SnapshotRows DEF SamplesOK, n
    <3>2. QED
      BY <2>4, <3>1
  <2>6. j \in Places(snapshots[l], Identity(row))
    BY <2>3, <2>4, <2>5 DEF Places
  <2>7. QED
    BY <1>5, <2>6
<1>11. k \in DOMAIN snapshots
  BY <1>3, <1>5
<1>12. QED
  BY <1>8, <1>9, <1>10, <1>11

-----------------------------------------------------------------------------
(* The connection: network_health.py. *)

\* Nothing adds up to 0.
LEMMA NothingTotal == Total(<<>>, LAMBDA row : row.dt) = 0
<1> DEFINE f == CHOOSE f : f = [s \in SUBSET (DOMAIN <<>>) |->
                  IF s = {} THEN 0
                  ELSE LET x == Max(s) IN f[s \ {x}] + (<<>>)[x].dt]
<1>1. Total(<<>>, LAMBDA row : row.dt) = f[DOMAIN <<>>]
  BY Zenon DEF Total, FoldLeft, MapThenFoldSet
<1>2. DOMAIN <<>> = {}
  OBVIOUS
<1>3. \E g : g = [s \in SUBSET (DOMAIN <<>>) |->
                    IF s = {} THEN 0
                    ELSE LET x == Max(s) IN g[s \ {x}] + (<<>>)[x].dt]
  <2> DEFINE g == [s \in SUBSET (DOMAIN <<>>) |-> 0]
  <2>1. \A s \in SUBSET (DOMAIN <<>>) : s = {}
    BY <1>2
  <2>2. g = [s \in SUBSET (DOMAIN <<>>) |->
               IF s = {} THEN 0
               ELSE LET x == Max(s) IN g[s \ {x}] + (<<>>)[x].dt]
    BY <2>1
  <2>3. QED
    BY <2>2
<1>4. f = [s \in SUBSET (DOMAIN <<>>) |->
             IF s = {} THEN 0
             ELSE LET x == Max(s) IN f[s \ {x}] + (<<>>)[x].dt]
  BY <1>3
<1> HIDE DEF f
<1>5. f[{}] = 0
  BY <1>2, <1>4
<1>6. QED
  BY <1>1, <1>2, <1>5

\* The loop's states until n.
StatesTo(f, n, rows, key, threshold) ==
    f = [k \in 0..n |->
           IF k = 0 THEN NoEpisode
           ELSE AfterRow(f[k - 1], rows[k], Slow(rows[k], key, threshold))]

\* The states of the loop over the intervals, one after the other.
LEMMA LoopStates ==
    ASSUME NEW rows, NEW key, NEW threshold, Len(rows) \in Nat
    PROVE  LET s == LoopState(rows, key, threshold)
           IN /\ s[0] = NoEpisode
              /\ \A n \in 1..Len(rows) :
                    s[n] = AfterRow(s[n - 1], rows[n], Slow(rows[n], key, threshold))
<1> DEFINE N == Len(rows)
           s == LoopState(rows, key, threshold)
           States(f, n) == StatesTo(f, n, rows, key, threshold)
           Missing == {n \in 0..N : ~\E f : States(f, n)}
<1>1. ASSUME NEW n \in 0..N, n > 0, NEW f, States(f, n - 1)
      PROVE  \E g : States(g, n)
  <2> DEFINE after(k) == AfterRow(f[k - 1], rows[k], Slow(rows[k], key, threshold))
             g == [k \in 0..n |-> IF k = n THEN after(n) ELSE f[k]]
  <2>1. \A k \in 0..n - 1 : f[k] = IF k = 0 THEN NoEpisode ELSE after(k)
    BY <1>1 DEF StatesTo
  <2> HIDE DEF after
  <2>2. \A k \in 0..n : g[k] = IF k = 0 THEN NoEpisode ELSE after(k)
    BY <1>1, <2>1
  <2>3. \A k \in 0..n : k # 0 => g[k - 1] = f[k - 1]
    BY <1>1
  <2>4. \A k \in 0..n : k # 0 =>
          after(k) = AfterRow(g[k - 1], rows[k], Slow(rows[k], key, threshold))
    BY <2>3 DEF after
  <2>5. DOMAIN g = 0..n /\ g = [k \in 0..n |-> g[k]]
    OBVIOUS
  <2> HIDE DEF g
  <2>6. States(g, n)
    BY <2>2, <2>4, <2>5 DEF StatesTo
  <2>7. QED
    BY <2>6
<1>2. \E f : States(f, 0)
  <2>1. States([k \in 0..0 |-> NoEpisode], 0)
    BY DEF StatesTo
  <2>2. QED
    BY <2>1
<1>3. Missing = {}
  <2>1. SUFFICES ASSUME Missing # {} PROVE FALSE
    OBVIOUS
  <2> HIDE DEF States
  <2>2. Missing \in SUBSET Nat
    OBVIOUS
  <2>3. PICK m \in Missing : \A n \in Missing : m <= n
    <3> HIDE DEF Missing
    <3>1. QED
      BY <2>1, <2>2, LeastNumber
  <2>4. m \in 0..N /\ m > 0
    BY <1>2
  <2>5. m - 1 \notin Missing /\ m - 1 \in 0..N
    BY <2>3, <2>4
  <2>6. \E f : States(f, m - 1)
    BY <2>5
  <2>7. QED
    BY <1>1, <2>4, <2>6
<1>4. N \in 0..N
  OBVIOUS
<1>5. \E f : States(f, N)
  BY <1>3, <1>4
<1>6. s = CHOOSE f : States(f, N)
  BY DEF LoopState, StatesTo
<1>7. States(s, N)
  BY <1>5, <1>6
<1> HIDE DEF s
<1>8. \A k \in 0..N : s[k] = IF k = 0 THEN NoEpisode
                     ELSE AfterRow(s[k - 1], rows[k], Slow(rows[k], key, threshold))
  BY <1>7 DEF StatesTo
<1>9. QED
  BY <1>4, <1>8 DEF s

\* Readings a to b are slow, each soon after the one before it.
Lasts(slow, soon, a, b) == a..b \subseteq slow /\ a + 1..b \subseteq soon

\* The readings that are part of a slowdown which lasts, up to n.
Sustained(slow, soon, n) ==
    {i \in 1..n : \E a \in 1..i, b \in i..n :
                     b - a + 1 >= Limit.readings /\ Lasts(slow, soon, a, b)}

\* The run of slow readings began at p and cannot be extended before it.
RunFrom(p, n, slow, soon) ==
    /\ p \in 1..n + 1
    /\ Lasts(slow, soon, p, n)
    /\ p <= n /\ p > 1 => ~(p - 1 \in slow /\ p \in soon)
    /\ p = n + 1 /\ n > 0 => n \notin slow

\* The invariant of the loop: the run of slow readings that still goes on began
\* at p, and what was sustained before it has been kept.
LoopInv(s, n, rows, slow, soon) ==
    \E p \in 1..n + 1 :
       /\ RunFrom(p, n, slow, soon)
       /\ s.run \in Seq(ToSet(rows)) /\ Len(s.run) = n + 1 - p
       /\ \A k \in 1..n + 1 - p : s.run[k] = rows[p + k - 1]
       /\ s.inside \in Seq(ToSet(rows))
       /\ ToSet(s.inside) = {rows[i] : i \in Sustained(slow, soon, p - 1)}
       /\ n > 0 => s.previous = rows[n].ts

\* What was sustained before the run, and the run when it is long enough.
LEMMA SustainedByRun ==
    ASSUME NEW n \in Nat, NEW slow, NEW soon, NEW p, RunFrom(p, n, slow, soon)
    PROVE  Sustained(slow, soon, n) =
             Sustained(slow, soon, p - 1)
               \cup (IF n + 1 - p >= Limit.readings THEN p..n ELSE {})
<1>0. Limit.readings \in Nat /\ p \in 1..n + 1
  BY NetworkHealthAssumption DEF RunFrom
<1>1. ASSUME NEW i \in Sustained(slow, soon, n), i \notin Sustained(slow, soon, p - 1)
      PROVE  n + 1 - p >= Limit.readings /\ i \in p..n
  <2>1. PICK a \in 1..i, b \in i..n :
          b - a + 1 >= Limit.readings /\ Lasts(slow, soon, a, b)
    BY DEF Sustained
  <2>2. i \in 1..n
    BY DEF Sustained
  <2>3. ~(b <= p - 1)
    <3>1. SUFFICES ASSUME b <= p - 1 PROVE FALSE
      OBVIOUS
    <3>2. i \in 1..p - 1 /\ b \in i..p - 1
      BY <1>0, <2>2, <3>1
    <3>3. QED
      BY <1>1, <2>1, <3>2 DEF Sustained
  <2>4. ~(a < p)
    <3>1. SUFFICES ASSUME a < p PROVE FALSE
      OBVIOUS
    <3>2. p - 1 \in a..b /\ p \in a + 1..b /\ p <= n /\ p > 1
      BY <1>0, <2>2, <2>3, <3>1
    <3>3. QED
      BY <2>1, <3>2 DEF Lasts, RunFrom
  <2>5. QED
    BY <1>0, <2>1, <2>2, <2>4
<1>2. Sustained(slow, soon, p - 1) \subseteq Sustained(slow, soon, n)
  <2>1. ASSUME NEW i \in Sustained(slow, soon, p - 1)
        PROVE  i \in Sustained(slow, soon, n)
    <3>1. PICK a \in 1..i, b \in i..p - 1 :
            b - a + 1 >= Limit.readings /\ Lasts(slow, soon, a, b)
      BY DEF Sustained
    <3>2. i \in 1..n /\ b \in i..n
      BY <1>0 DEF Sustained
    <3>3. QED
      BY <3>1, <3>2 DEF Sustained
  <2>2. QED
    BY <2>1
<1>3. ASSUME n + 1 - p >= Limit.readings, NEW i \in p..n
      PROVE  i \in Sustained(slow, soon, n)
  <2>1. p \in 1..i /\ n \in i..n /\ i \in 1..n /\ n - p + 1 >= Limit.readings
    BY <1>0, <1>3
  <2>2. Lasts(slow, soon, p, n)
    BY DEF RunFrom
  <2>3. QED
    BY <2>1, <2>2 DEF Sustained
<1>4. QED
  BY <1>1, <1>2, <1>3

LEMMA JoinedSet ==
    ASSUME NEW T, NEW a \in Seq(T), NEW b \in Seq(T)
    PROVE  a \o b \in Seq(T) /\ ToSet(a \o b) = ToSet(a) \cup ToSet(b)
<1>1. /\ a \o b \in Seq(T) /\ Len(a) \in Nat /\ Len(b) \in Nat
      /\ DOMAIN a = 1..Len(a) /\ DOMAIN b = 1..Len(b)
      /\ DOMAIN (a \o b) = 1..Len(a) + Len(b)
      /\ \A i \in 1..Len(a) : (a \o b)[i] = a[i]
      /\ \A i \in 1..Len(b) : (a \o b)[Len(a) + i] = b[i]
  OBVIOUS
<1>2. ASSUME NEW i \in DOMAIN (a \o b) PROVE (a \o b)[i] \in ToSet(a) \cup ToSet(b)
  <2>1. CASE i <= Len(a)
    BY <1>1, <2>1 DEF ToSet
  <2>2. CASE ~(i <= Len(a))
    <3>1. i - Len(a) \in 1..Len(b) /\ i = Len(a) + (i - Len(a))
      BY <1>1, <2>2
    <3>2. (a \o b)[i] = b[i - Len(a)]
      BY <1>1, <3>1
    <3>3. QED
      BY <1>1, <3>1, <3>2 DEF ToSet
  <2>3. QED
    BY <2>1, <2>2
<1>3. ASSUME NEW i \in DOMAIN a PROVE i \in DOMAIN (a \o b) /\ (a \o b)[i] = a[i]
  BY <1>1
<1>4. ASSUME NEW i \in DOMAIN b
      PROVE  Len(a) + i \in DOMAIN (a \o b) /\ (a \o b)[Len(a) + i] = b[i]
  BY <1>1
<1>5. ToSet(a \o b) \subseteq ToSet(a) \cup ToSet(b)
  BY <1>2 DEF ToSet
<1>6. ToSet(a) \subseteq ToSet(a \o b)
  BY <1>3 DEF ToSet
<1>7. ToSet(b) \subseteq ToSet(a \o b)
  BY <1>4 DEF ToSet
<1>8. QED
  BY <1>1, <1>5, <1>6, <1>7

LEMMA RunIs ==
    ASSUME NEW rows, NEW r \in Seq(ToSet(rows)), NEW p \in Int, NEW n \in Int,
           Len(r) = n + 1 - p, p <= n + 1,
           \A k \in 1..n + 1 - p : r[k] = rows[p + k - 1]
    PROVE  ToSet(r) = {rows[i] : i \in p..n}
<1>1. DOMAIN r = 1..n + 1 - p
  OBVIOUS
<1>2. \A i \in p..n : i - p + 1 \in 1..n + 1 - p /\ r[i - p + 1] = rows[i]
  OBVIOUS
<1>3. \A k \in 1..n + 1 - p : p + k - 1 \in p..n
  OBVIOUS
<1>4. {rows[i] : i \in p..n} \subseteq ToSet(r)
  BY <1>1, <1>2 DEF ToSet
<1>5. ToSet(r) \subseteq {rows[i] : i \in p..n}
  BY <1>1, <1>3 DEF ToSet
<1>6. QED
  BY <1>4, <1>5

\* What has been kept once the run is flushed.
LEMMA FlushedIs ==
    ASSUME NEW n \in Nat, NEW s, NEW rows, NEW slow, NEW soon,
           LoopInv(s, n, rows, slow, soon)
    PROVE  /\ Flushed(s) \in Seq(ToSet(rows))
           /\ ToSet(Flushed(s)) = {rows[i] : i \in Sustained(slow, soon, n)}
<1>1. PICK p \in 1..n + 1 :
       /\ RunFrom(p, n, slow, soon)
       /\ s.run \in Seq(ToSet(rows)) /\ Len(s.run) = n + 1 - p
       /\ \A k \in 1..n + 1 - p : s.run[k] = rows[p + k - 1]
       /\ s.inside \in Seq(ToSet(rows))
       /\ ToSet(s.inside) = {rows[i] : i \in Sustained(slow, soon, p - 1)}
  BY DEF LoopInv
<1>2. Sustained(slow, soon, n) =
         Sustained(slow, soon, p - 1)
           \cup (IF n + 1 - p >= Limit.readings THEN p..n ELSE {})
  BY <1>1, SustainedByRun
<1>3. ToSet(s.run) = {rows[i] : i \in p..n}
  <2>1. p \in Int /\ n \in Int /\ p <= n + 1
    OBVIOUS
  <2>2. PICK r : r = s.run
    OBVIOUS
  <2>3. /\ r \in Seq(ToSet(rows)) /\ Len(r) = n + 1 - p
        /\ \A k \in 1..n + 1 - p : r[k] = rows[p + k - 1]
    BY <1>1, <2>2
  <2>4. ToSet(r) = {rows[i] : i \in p..n}
    BY <2>1, <2>3, RunIs
  <2>5. QED
    BY <2>2, <2>4
<1>4. CASE n + 1 - p >= Limit.readings
  <2>1. Flushed(s) = s.inside \o s.run
    BY <1>1, <1>4 DEF Flushed
  <2>2. ToSet(Flushed(s)) = ToSet(s.inside) \cup ToSet(s.run)
        /\ Flushed(s) \in Seq(ToSet(rows))
    BY <1>1, <2>1, JoinedSet
  <2>3. QED
    BY <1>1, <1>2, <1>3, <1>4, <2>2
<1>5. CASE ~(n + 1 - p >= Limit.readings)
  <2>1. Flushed(s) = s.inside
    BY <1>1, <1>5 DEF Flushed
  <2>2. QED
    BY <1>1, <1>2, <1>5, <2>1
<1>6. QED
  BY <1>4, <1>5

LEMMA SustainedSlow ==
    ASSUME NEW n \in Nat, NEW slow, NEW soon, n + 1 \notin slow
    PROVE  Sustained(slow, soon, n + 1) = Sustained(slow, soon, n)
<1>1. ASSUME NEW i \in Sustained(slow, soon, n + 1)
      PROVE  i \in Sustained(slow, soon, n)
  <2>1. PICK a \in 1..i, b \in i..n + 1 :
          b - a + 1 >= Limit.readings /\ Lasts(slow, soon, a, b)
    BY DEF Sustained
  <2>2. i \in 1..n + 1
    BY DEF Sustained
  <2>3. b # n + 1
    BY <2>1, <2>2 DEF Lasts
  <2>4. b \in i..n /\ i \in 1..n
    BY <2>2, <2>3
  <2>5. QED
    BY <2>1, <2>4 DEF Sustained
<1>2. ASSUME NEW i \in Sustained(slow, soon, n)
      PROVE  i \in Sustained(slow, soon, n + 1)
  <2>1. PICK a \in 1..i, b \in i..n :
          b - a + 1 >= Limit.readings /\ Lasts(slow, soon, a, b)
    BY DEF Sustained
  <2>2. b \in i..n + 1 /\ i \in 1..n + 1
    BY DEF Sustained
  <2>3. QED
    BY <2>1, <2>2 DEF Sustained
<1>3. QED
  BY <1>1, <1>2

\* An interval keeps the invariant, whether it joins the run, begins a run or ends it.
LEMMA LoopStep ==
    ASSUME NEW rows, rows \in Seq(ToSet(rows)), NEW slow, NEW soon,
           NEW n \in Nat, n + 1 <= Len(rows), NEW s,
           LoopInv(s, n, rows, slow, soon),
           NEW now \in BOOLEAN, now <=> n + 1 \in slow,
           n > 0 => (n + 1 \in soon <=>
                       rows[n + 1].ts - rows[n].ts <= Limit.max_interval)
    PROVE  LoopInv(AfterRow(s, rows[n + 1], now), n + 1, rows, slow, soon)
<1> DEFINE row == rows[n + 1]
           R == ToSet(rows)
<1>0. PICK t : t = AfterRow(s, row, now)
  OBVIOUS
<1>1. PICK p \in 1..n + 1 :
       /\ RunFrom(p, n, slow, soon)
       /\ s.run \in Seq(R) /\ Len(s.run) = n + 1 - p
       /\ \A k \in 1..n + 1 - p : s.run[k] = rows[p + k - 1]
       /\ s.inside \in Seq(R)
       /\ ToSet(s.inside) = {rows[i] : i \in Sustained(slow, soon, p - 1)}
       /\ n > 0 => s.previous = rows[n].ts
  BY DEF LoopInv
<1>2. row \in R
  BY DEF ToSet
<1>3. s.run = <<>> <=> p = n + 1
  BY <1>1
<1>4. /\ Flushed(s) \in Seq(R)
      /\ ToSet(Flushed(s)) = {rows[i] : i \in Sustained(slow, soon, n)}
  BY FlushedIs
<1>5. t.previous = row.ts
  BY <1>0 DEF AfterRow
<1>6. ASSUME now /\ (s.run = <<>> \/ row.ts - s.previous <= Limit.max_interval)
      PROVE  LoopInv(t, n + 1, rows, slow, soon)
  <2>1. t.inside = s.inside /\ t.run = Append(s.run, row)
    BY <1>0, <1>6 DEF AfterRow
  <2>2. RunFrom(p, n + 1, slow, soon)
    <3>1. Lasts(slow, soon, p, n)
      BY <1>1 DEF RunFrom
    <3>2. n + 1 \in slow
      BY <1>6
    <3>3. p <= n => n + 1 \in soon
      BY <1>1, <1>3, <1>6
    <3>4. Lasts(slow, soon, p, n + 1)
      BY <3>1, <3>2, <3>3 DEF Lasts
    <3>5. p <= n + 1 /\ p > 1 => ~(p - 1 \in slow /\ p \in soon)
      BY <1>1 DEF RunFrom
    <3>6. p \in 1..(n + 1) + 1 /\ p # (n + 1) + 1
      OBVIOUS
    <3>7. QED
      BY <3>4, <3>5, <3>6 DEF RunFrom
  <2>3. /\ t.run \in Seq(R) /\ Len(t.run) = (n + 1) + 1 - p
        /\ \A k \in 1..(n + 1) + 1 - p : t.run[k] = rows[p + k - 1]
    <3> HIDE DEF R
    <3>1. /\ t.run \in Seq(R) /\ Len(t.run) = Len(s.run) + 1
          /\ \A k \in 1..Len(s.run) : t.run[k] = s.run[k]
          /\ t.run[Len(s.run) + 1] = row
      BY <1>1, <1>2, <2>1
    <3>2. ASSUME NEW k \in 1..(n + 1) + 1 - p PROVE t.run[k] = rows[p + k - 1]
      <4>1. CASE k \in 1..Len(s.run)
        BY <1>1, <3>1, <4>1
      <4>2. CASE k = Len(s.run) + 1
        <5>1. p + k - 1 = n + 1
          BY <1>1, <4>2
        <5>2. QED
          BY <3>1, <4>2, <5>1
      <4>3. QED
        BY <1>1, <4>1, <4>2
    <3>3. Len(t.run) = (n + 1) + 1 - p
      BY <1>1, <3>1
    <3>4. QED
      BY <3>1, <3>2, <3>3
  <2>4. p \in 1..(n + 1) + 1
    OBVIOUS
  <2>5. QED
    BY <1>1, <1>5, <2>1, <2>2, <2>3, <2>4 DEF LoopInv
<1>7. ASSUME now /\ ~(s.run = <<>> \/ row.ts - s.previous <= Limit.max_interval)
      PROVE  LoopInv(t, n + 1, rows, slow, soon)
  <2>1. t.inside = Flushed(s) /\ t.run = <<row>>
    BY <1>0, <1>7 DEF AfterRow
  <2>2. RunFrom(n + 1, n + 1, slow, soon)
    <3>1. n + 1 \in slow /\ p <= n /\ n > 0
      BY <1>1, <1>3, <1>7
    <3>2. n + 1 \notin soon
      BY <1>1, <1>7, <3>1
    <3>3. Lasts(slow, soon, n + 1, n + 1)
      BY <3>1 DEF Lasts
    <3>4. QED
      BY <3>2, <3>3 DEF RunFrom
  <2>3. /\ t.run \in Seq(R) /\ Len(t.run) = (n + 1) + 1 - (n + 1)
        /\ \A k \in 1..(n + 1) + 1 - (n + 1) : t.run[k] = rows[(n + 1) + k - 1]
    <3> HIDE DEF R, row
    <3>1. t.run \in Seq(R) /\ Len(t.run) = 1 /\ t.run[1] = row
      BY <1>2, <2>1
    <3>2. \A k \in 1..(n + 1) + 1 - (n + 1) : k = 1 /\ (n + 1) + k - 1 = n + 1
      OBVIOUS
    <3>3. QED
      BY <3>1, <3>2 DEF row
  <2>4. n + 1 \in 1..(n + 1) + 1 /\ (n + 1) - 1 = n
    OBVIOUS
  <2>5. QED
    BY <1>4, <1>5, <2>1, <2>2, <2>3, <2>4 DEF LoopInv
<1>8. ASSUME ~now
      PROVE  LoopInv(t, n + 1, rows, slow, soon)
  <2>1. t.inside = Flushed(s) /\ t.run = <<>>
    BY <1>0, <1>8 DEF AfterRow
  <2>2. n + 1 \notin slow
    BY <1>8
  <2>3. RunFrom(n + 2, n + 1, slow, soon)
    <3>1. Lasts(slow, soon, n + 2, n + 1)
      BY DEF Lasts
    <3>2. QED
      BY <2>2, <3>1 DEF RunFrom
  <2>4. Sustained(slow, soon, (n + 2) - 1) = Sustained(slow, soon, n)
    BY <2>2, SustainedSlow
  <2>5. /\ t.run \in Seq(R) /\ Len(t.run) = (n + 1) + 1 - (n + 2)
        /\ \A k \in 1..(n + 1) + 1 - (n + 2) : t.run[k] = rows[(n + 2) + k - 1]
    BY <2>1
  <2>6. n + 2 \in 1..(n + 1) + 1
    OBVIOUS
  <2>7. QED
    BY <1>4, <1>5, <2>1, <2>3, <2>4, <2>5, <2>6 DEF LoopInv
<1>9. LoopInv(t, n + 1, rows, slow, soon)
  BY <1>6, <1>7, <1>8
<1>10. QED
  BY <1>0, <1>9

\* The places of slow readings, and of readings soon after the one before.
SlowOf(rows, key, threshold) == {i \in 1..Len(rows) : Slow(rows[i], key, threshold)}

SoonOf(rows) == {i \in 2..Len(rows) : rows[i].ts - rows[i - 1].ts <= Limit.max_interval}

LEMMA LoopHolds ==
    ASSUME NEW rows, rows \in Seq(ToSet(rows)), NEW key, NEW threshold
    PROVE  LoopInv(LoopState(rows, key, threshold)[Len(rows)], Len(rows), rows,
                   SlowOf(rows, key, threshold), SoonOf(rows))
<1> DEFINE N == Len(rows)
           s == LoopState(rows, key, threshold)
           slow == SlowOf(rows, key, threshold)
           soon == SoonOf(rows)
           Holds(n) == LoopInv(s[n], n, rows, slow, soon)
           Broken == {n \in 0..N : ~Holds(n)}
<1>1. N \in Nat
  OBVIOUS
<1>2. /\ s[0] = NoEpisode
      /\ \A n \in 1..N : s[n] = AfterRow(s[n - 1], rows[n], Slow(rows[n], key, threshold))
  BY <1>1, LoopStates
<1> HIDE DEF s
<1>3. Holds(0)
  <2>1. RunFrom(1, 0, slow, soon)
    BY DEF RunFrom, Lasts
  <2>2. Sustained(slow, soon, 1 - 1) = {}
    BY DEF Sustained
  <2>3. s[0].run = <<>> /\ s[0].inside = <<>>
    BY <1>2 DEF NoEpisode
  <2>4. ToSet(s[0].inside) = {}
    BY <2>3 DEF ToSet
  <2>5. 1 \in 1..0 + 1 /\ 0 + 1 - 1 = 0
    OBVIOUS
  <2> HIDE DEF s, slow, soon
  <2>6. /\ s[0].run \in Seq(ToSet(rows)) /\ Len(s[0].run) = 0 + 1 - 1
        /\ \A k \in 1..0 + 1 - 1 : s[0].run[k] = rows[1 + k - 1]
        /\ s[0].inside \in Seq(ToSet(rows))
    BY <2>3
  <2>7. ToSet(s[0].inside) = {rows[i] : i \in Sustained(slow, soon, 1 - 1)}
    BY <2>2, <2>4
  <2>8. QED
    BY <2>1, <2>5, <2>6, <2>7 DEF LoopInv
<1>4. ASSUME NEW n \in 0..N, n + 1 <= N, Holds(n) PROVE Holds(n + 1)
  <2>1. PICK now : now = Slow(rows[n + 1], key, threshold)
    OBVIOUS
  <2>2. now \in BOOLEAN
    BY <2>1 DEF Slow
  <2>3. s[n + 1] = AfterRow(s[n], rows[n + 1], now)
    <3>1. n + 1 \in 1..N /\ (n + 1) - 1 = n
      BY <1>1, <1>4
    <3>2. QED
      BY <1>2, <2>1, <3>1
  <2>4. now <=> n + 1 \in slow
    BY <1>1, <1>4, <2>1 DEF SlowOf
  <2>5. n > 0 => (n + 1 \in soon <=>
                    rows[n + 1].ts - rows[n].ts <= Limit.max_interval)
    BY <1>1, <1>4 DEF SoonOf
  <2> HIDE DEF slow, soon
  <2>6. LoopInv(AfterRow(s[n], rows[n + 1], now), n + 1, rows, slow, soon)
    BY <1>4, <2>2, <2>4, <2>5, LoopStep
  <2>7. QED
    BY <2>3, <2>6
<1> HIDE DEF Holds
<1>5. Broken = {}
  <2>1. SUFFICES ASSUME Broken # {} PROVE FALSE
    OBVIOUS
  <2>2. Broken \in SUBSET Nat
    BY <1>1
  <2>3. PICK m \in Broken : \A n \in Broken : m <= n
    <3> HIDE DEF Broken
    <3>1. QED
      BY <2>1, <2>2, LeastNumber
  <2>4. m \in 0..N /\ m > 0
    BY <1>3
  <2>5. m - 1 \notin Broken /\ m - 1 \in 0..N
    BY <2>3, <2>4
  <2>6. Holds(m - 1)
    BY <2>5
  <2>7. Holds((m - 1) + 1)
    BY <1>4, <2>4, <2>5, <2>6
  <2>8. (m - 1) + 1 = m
    BY <2>4
  <2>9. QED
    BY <2>7, <2>8
<1>6. Holds(N)
  BY <1>1, <1>5
<1>7. QED
  BY <1>6 DEF Holds, s

\* The slowdowns found are those that were sustained.
LEMMA EpisodesAre ==
    ASSUME NEW rows, rows \in Seq(ToSet(rows)), NEW key, NEW rise
    PROVE  /\ Episodes(rows, key, rise) \in Seq(ToSet(rows))
           /\ ToSet(Episodes(rows, key, rise)) =
                {rows[i] : i \in Sustained(SlowOf(rows, key, Threshold(rows, key, rise)),
                                           SoonOf(rows), Len(rows))}
<1>1. PICK threshold : threshold = Threshold(rows, key, rise)
  OBVIOUS
<1>2. LoopInv(LoopState(rows, key, threshold)[Len(rows)], Len(rows), rows,
              SlowOf(rows, key, threshold), SoonOf(rows))
  BY LoopHolds
<1>3. Len(rows) \in Nat
  OBVIOUS
<1>4. Episodes(rows, key, rise) = Flushed(LoopState(rows, key, threshold)[Len(rows)])
  BY <1>1 DEF Episodes
<1>5. QED
  BY <1>1, <1>2, <1>3, <1>4, FlushedIs

\* No interval is longer than the longest there may be.
LEMMA IntervalsAre ==
    ASSUME NEW S, NEW s \in Seq(S)
    PROVE  /\ Intervals(s) \in Seq(ToSet(Intervals(s)))
           /\ \A i \in 1..Len(Intervals(s)) : Intervals(s)[i].dt <= Limit.max_interval
<1> DEFINE pairs == 1..Len(s) - 1
           all == [i \in pairs |-> Interval(s[i], s[i + 1])]
           T == {all[i] : i \in pairs}
           I == {i \in pairs : Usable(s[i], s[i + 1])}
           rows == Intervals(s)
<1>1. all \in Seq(T) /\ I \in SUBSET (1..Len(all))
  <2>1. PICK n \in Nat : pairs = 1..n
    <3>1. Len(s) \in Nat
      OBVIOUS
    <3>2. CASE Len(s) = 0
      <4>1. pairs = 1..0
        BY <3>2
      <4>2. QED
        BY <4>1
    <3>3. CASE Len(s) > 0
      <4>1. Len(s) - 1 \in Nat
        BY <3>1, <3>3
      <4>2. QED
        BY <4>1
    <3>4. QED
      BY <3>1, <3>2, <3>3
  <2>2. all \in [1..n -> T]
    BY <2>1
  <2> HIDE DEF all, T
  <2>3. all \in Seq(T) /\ Len(all) = n
    BY <2>2
  <2>4. QED
    BY <2>1, <2>3
<1>2. rows = Picked(all, I)
  BY DEF Intervals
<1> HIDE DEF rows, all
<1>3. /\ Cardinality(I) \in Nat
      /\ rows \in [1..Cardinality(I) -> T] /\ rows \in Seq(T)
      /\ Len(rows) = Cardinality(I)
      /\ ToSet(rows) = {all[i] : i \in I}
  <2> HIDE DEF I, T
  <2>1. QED
    BY <1>1, <1>2, PickedIs
<1>4. rows \in Seq(ToSet(rows))
  <2> HIDE DEF T, I
  <2>1. DOMAIN rows = 1..Len(rows) /\ Len(rows) \in Nat
    BY <1>3
  <2>2. \A i \in 1..Len(rows) : rows[i] \in ToSet(rows)
    BY <2>1 DEF ToSet
  <2>3. rows \in [1..Len(rows) -> ToSet(rows)]
    BY <1>3, <2>2
  <2>4. QED
    BY <2>1, <2>3
<1>5. ASSUME NEW k \in 1..Len(rows) PROVE rows[k].dt <= Limit.max_interval
  <2>1. rows[k] \in ToSet(rows)
    BY <1>3 DEF ToSet
  <2>2. PICK i \in I : rows[k] = all[i]
    <3> HIDE DEF I
    <3>1. QED
      BY <1>3, <2>1
  <2>3. i \in pairs /\ Usable(s[i], s[i + 1])
    OBVIOUS
  <2>4. all[i] = Interval(s[i], s[i + 1])
    BY <2>3 DEF all
  <2>5. all[i].dt = s[i + 1].ts - s[i].ts
    BY <2>4 DEF Interval
  <2>6. s[i + 1].ts - s[i].ts <= Limit.max_interval
    BY <2>3, NetworkHealthAssumption DEF Usable
  <2>7. QED
    BY <2>2, <2>5, <2>6
<1>6. QED
  BY <1>4, <1>5 DEF rows

\* The verdicts on a connection.
NetworkVerdict == {"learning", "ok", "link_slow", "lossy", "congested", "saturated"}

\* The verdict is the one on the readings there are.
NetworkInv ==
    /\ samples \in Seq(ToSet(samples)) /\ Len(samples) <= MaxReadings
    /\ \/ samples = <<>> /\ verdict = "learning"
       \/ \E plan : verdict = Assess(samples, plan, [down |-> 0, up |-> 0])

\* A connection is blamed for slowness only when slowdowns lasted long enough.
LEMMA Assessed ==
    ASSUME NEW s, NEW plan, NEW test
    PROVE  /\ Assess(s, plan, test) \in NetworkVerdict
           /\ Assess(s, plan, test) \in {"congested", "saturated"} =>
                 Total(Episodes(Intervals(s), "inet", Limit.inet_rise),
                       LAMBDA row : row.dt) >= Limit.episode
<1>1. Assess(s, plan, test) \in NetworkVerdict
  BY DEF Assess, NetworkVerdict
<1>2. Assess(s, plan, test) \in {"congested", "saturated"} =>
         Total(Episodes(Intervals(s), "inet", Limit.inet_rise),
               LAMBDA row : row.dt) >= Limit.episode
  BY DEF Assess
<1>3. QED
  BY <1>1, <1>2

LEMMA OverItself ==
    ASSUME NEW S, NEW s \in Seq(S)
    PROVE  s \in Seq(ToSet(s))
<1>1. s \in [1..Len(s) -> S] /\ Len(s) \in Nat /\ DOMAIN s = 1..Len(s)
  BY LenProperties
<1>2. \A i \in 1..Len(s) : s[i] \in ToSet(s)
  BY <1>1 DEF ToSet
<1>3. s \in [1..Len(s) -> ToSet(s)]
  BY <1>1, <1>2
<1>4. QED
  BY <1>1, <1>3

LEMMA Lengthened ==
    ASSUME NEW s, s \in Seq(ToSet(s)), NEW x, NEW t, t = Append(s, x)
    PROVE  t \in Seq(ToSet(t)) /\ Len(t) = Len(s) + 1
<1> DEFINE S == ToSet(s) \cup {x}
<1>1. s \in Seq(S)
  <2>1. ToSet(s) \subseteq S
    OBVIOUS
  <2> HIDE DEF S
  <2>2. QED
    BY <2>1
<1>2. x \in S
  OBVIOUS
<1> HIDE DEF S
<1>3. t \in Seq(S) /\ Len(t) = Len(s) + 1
  BY <1>1, <1>2
<1>4. QED
  BY <1>3, OverItself

LEMMA InitNetwork == Init => NetworkInv
<1> SUFFICES ASSUME Init PROVE NetworkInv
  OBVIOUS
<1>1. samples = <<>> /\ verdict = "learning" /\ Len(<<>>) = 0
  BY DEF Init
<1>2. <<>> \in Seq(ToSet(<<>>))
  OBVIOUS
<1>3. MaxReadings \in Nat
  BY AnalysesAssumption
<1>4. QED
  BY <1>1, <1>2, <1>3 DEF NetworkInv

LEMMA NextNetwork == NetworkInv /\ [Next]_vars => NetworkInv'
<1> SUFFICES ASSUME NetworkInv, [Next]_vars PROVE NetworkInv'
  OBVIOUS
<1>1. ASSUME UNCHANGED networkVars PROVE NetworkInv'
  BY <1>1 DEF networkVars, NetworkInv
<1>2. ASSUME NEW r \in Reading, NEW plan \in Plan, TakeReading(r, plan)
      PROVE  NetworkInv'
  <2>1. PICK x : samples' = Append(samples, x)
    BY <1>2 DEF TakeReading
  <2>2. /\ Len(samples) < MaxReadings
        /\ verdict' = Assess(samples', plan, [down |-> 0, up |-> 0])
    BY <1>2 DEF TakeReading
  <2>3. PICK s, t : s = samples /\ t = samples'
    OBVIOUS
  <2>4. s \in Seq(ToSet(s)) /\ t = Append(s, x)
    BY <2>1, <2>3 DEF NetworkInv
  <2>5. t \in Seq(ToSet(t)) /\ Len(t) = Len(s) + 1
    BY <2>4, Lengthened
  <2>6. Len(t) <= MaxReadings
    BY <2>2, <2>3, <2>4, <2>5, AnalysesAssumption
  <2>7. QED
    BY <2>2, <2>3, <2>5, <2>6 DEF NetworkInv
<1>3. ASSUME \/ \E line \in Line, gap \in 1..2 : LogLine(line, gap)
             \/ \E line \in Ringed, collector \in {"dmesg", "xids"} :
                   KernelLine(line, collector)
             \/ \E facts \in Facts : DetectCrash(facts)
             \/ \E error \in Failure \cup {"none"} : UseHeuristics(error)
             \/ \E answer \in Answer : UseAnswer(answer)
           \/ TimeOut
             \/ TimeOut
      PROVE  UNCHANGED networkVars
  BY <1>3 DEF LogLine, KernelLine, DetectCrash, UseHeuristics, UseAnswer,
              Complete, TimeOut, CrashOnly
<1>4. ASSUME \/ \E pid \in Pid : StartProcess(pid)
             \/ \E p \in processes : EndProcess(p)
             \/ \E p \in processes, rss \in 1..MaxMemory : Resize(p, rss)
             \/ RecordSnapshot
      PROVE  UNCHANGED networkVars
  BY <1>4 DEF StartProcess, EndProcess, Resize, RecordSnapshot, MemoryOnly
<1>5. ASSUME \/ \E ahead \in Ahead, stamped \in BOOLEAN : KernelLogs(ahead, stamped)
             \/ Pass
             \/ \E by \in Correction : SetClock(by)
             \/ \E iso, plain \in BOOLEAN : LiveBeat(iso, plain)
      PROVE  UNCHANGED networkVars
  BY <1>5 DEF KernelLogs, Pass, SetClock, LiveBeat, AlertsOnly
<1>6. CASE UNCHANGED vars
  BY <1>1, <1>6 DEF vars
<1>7. QED
  BY <1>1, <1>2, <1>3, <1>4, <1>5, <1>6 DEF Next

LEMMA NetworkSustained == NetworkInv => SlowdownsAreSustained
<1> SUFFICES ASSUME NetworkInv PROVE SlowdownsAreSustained
  OBVIOUS
<1> DEFINE rows == Intervals(samples)
           slow(i) == Slow(rows[i], "inet", Threshold(rows, "inet", Limit.inet_rise))
           lasts(a, b) == SlowFrom(rows, a, b)
           sustained == Sustaining(rows)
           S == SlowOf(rows, "inet", Threshold(rows, "inet", Limit.inet_rise))
           C == SoonOf(rows)
           found == Episodes(rows, "inet", Limit.inet_rise)
<1>1. samples \in Seq(ToSet(samples))
  BY DEF NetworkInv
<1>2. /\ rows \in Seq(ToSet(rows))
      /\ \A i \in 1..Len(rows) : rows[i].dt <= Limit.max_interval
  BY <1>1, IntervalsAre
<1> HIDE DEF rows
<1>3. DOMAIN rows = 1..Len(rows) /\ Len(rows) \in Nat
  BY <1>2
<1>4. /\ found \in Seq(ToSet(rows))
      /\ ToSet(found) = {rows[i] : i \in Sustained(S, C, Len(rows))}
  BY <1>2, EpisodesAre
<1>5. \A a \in 1..Len(rows), b \in 1..Len(rows) : Lasts(S, C, a, b) <=> lasts(a, b)
  <2>1. ASSUME NEW a \in 1..Len(rows), NEW b \in 1..Len(rows)
        PROVE  /\ a..b \subseteq S <=> \A i \in a..b : slow(i)
               /\ a + 1..b \subseteq C <=>
                    \A i \in a + 1..b :
                       rows[i].ts - rows[i - 1].ts <= Limit.max_interval
    <3>1. a..b \subseteq 1..Len(rows) /\ a + 1..b \subseteq 2..Len(rows)
      BY <1>3
    <3>2. a..b \subseteq S <=> \A i \in a..b : slow(i)
      BY <3>1 DEF SlowOf
    <3>3. a + 1..b \subseteq C <=>
             \A i \in a + 1..b :
                rows[i].ts - rows[i - 1].ts <= Limit.max_interval
      BY <3>1 DEF SoonOf
    <3>4. QED
      BY <3>2, <3>3
  <2>2. QED
    BY <2>1 DEF Lasts, SlowFrom
<1> HIDE DEF S, C, lasts
<1>6. sustained = Sustained(S, C, Len(rows))
  <2>1. ASSUME NEW i \in 1..Len(rows), NEW a \in 1..i, NEW b \in i..Len(rows)
        PROVE  a \in 1..Len(rows) /\ b \in 1..Len(rows)
    BY <1>3
  <2>2. \A i \in 1..Len(rows) : \A a \in 1..i, b \in i..Len(rows) :
           Lasts(S, C, a, b) <=> lasts(a, b)
    BY <1>5, <2>1
  <2>3. sustained = {i \in 1..Len(rows) :
                       \E a \in 1..i, b \in i..Len(rows) :
                          b - a + 1 >= Limit.readings /\ lasts(a, b)}
    BY <1>3 DEF Sustaining, lasts
  <2> HIDE DEF sustained
  <2>4. QED
    BY <2>2, <2>3 DEF Sustained
<1> HIDE DEF sustained
<1>7. ToSet(found) = {rows[i] : i \in sustained}
  BY <1>4, <1>6
<1>8. ASSUME verdict \in {"congested", "saturated"}
      PROVE  sustained # {} /\ Total(found, LAMBDA row : row.dt) >= Limit.episode
  <2>1. PICK plan : verdict = Assess(samples, plan, [down |-> 0, up |-> 0])
    BY <1>8 DEF NetworkInv
  <2>2. Total(found, LAMBDA row : row.dt) >= Limit.episode
    BY <1>8, <2>1, Assessed DEF rows
  <2>3. ASSUME sustained = {} PROVE FALSE
    <3>1. ToSet(found) = {}
      BY <1>7, <2>3
    <3>2. found = <<>>
      <4> HIDE DEF found
      <4>1. DOMAIN found = 1..Len(found) /\ Len(found) \in Nat
        BY <1>4
      <4>2. \A i \in 1..Len(found) : found[i] \in ToSet(found)
        BY <4>1 DEF ToSet
      <4>3. Len(found) = 0
        BY <3>1, <4>1, <4>2
      <4>4. QED
        BY <1>4, <4>3
    <3> HIDE DEF found
    <3>3. Total(found, LAMBDA row : row.dt) = 0
      BY <3>2, NothingTotal
    <3>4. Limit.episode \in Nat /\ Limit.episode > 0
      BY NetworkHealthAssumption
    <3>5. QED
      BY <2>2, <3>3, <3>4
  <2>4. QED
    BY <2>2, <2>3
<1>9. QED
  BY <1>2, <1>3, <1>7, <1>8, Zenon DEF SlowdownsAreSustained, rows, found, sustained

-----------------------------------------------------------------------------
(* The kernel's lines: cloud_push.py. *)

RingRecord == [id : Nat, critical : BOOLEAN,
               date : Int \cup {Unread}, up : Nat \cup {Unread}]
KernelRecord == [id : Nat, at : Int \cup {Unread}, critical : BOOLEAN]
CacheRecord == [at : Nat, section : [counted : SUBSET KernelRecord,
                                     available : BOOLEAN]]
RaisedRecord == [id : Nat, at : Int \cup {Unread}, sent : Nat]

AlertTypes ==
    /\ clock \in Nat /\ uptime \in Nat
    /\ ring \in Seq(RingRecord)
    /\ cache \subseteq CacheRecord
    /\ sent \subseteq Nat
    /\ raised \subseteq RaisedRecord

\* A line is known by its place in the ring.
Numbered == \A i \in 1..Len(ring) : ring[i].id = i

\* A reading counts lines of the ring, and of those with a stamp the ones that
\* were recent when it was made.
CountedWereRecent(counted, at) ==
    \A line \in counted :
        /\ line.id \in 1..Len(ring)
        /\ line.at # Unread =>
              line.at >= at - AlertWindow /\ line.at <= at + ClockSkew

CacheWasRecent ==
    \A c \in cache : CountedWereRecent(c.section.counted, c.at)

\* A stamped line that counted was sent near the time of its stamp.
RaisedNear ==
    \A x \in raised :
        /\ x.id \in 1..Len(ring)
        /\ x.at # Unread =>
              x.sent >= x.at - ClockSkew /\ x.sent <= x.at + AlertWindow + CacheTtl

\* Since the clock was corrected sections were sent one after the other, an
\* interval apart.
SentApart ==
    /\ raised # {} => sent # {}
    /\ \A x \in raised : \A t \in sent : x.sent <= t /\ t <= clock
    /\ \A x, y \in raised :
          x.sent < y.sent => x.sent + DmesgInterval <= y.sent

AlertInv == AlertTypes /\ Numbered /\ CacheWasRecent /\ RaisedNear /\ SentApart

LEMMA AlertNumbers ==
    /\ AlertWindow \in Nat /\ ClockSkew \in Nat /\ CacheTtl \in Nat
    /\ DmesgInterval \in Nat /\ MaxKernel \in Nat /\ Unread \notin Int
    /\ AlertWindow + ClockSkew + CacheTtl < 2 * DmesgInterval
BY KernelAlertsAssumption, AnalysesAssumption

LEMMA InitAlerts == Init => AlertInv
<1> SUFFICES ASSUME Init PROVE AlertInv
  OBVIOUS
<1>1. AlertTypes /\ Numbered
  BY AlertNumbers DEF Init, AlertTypes, Numbered
<1>2. CacheWasRecent /\ RaisedNear /\ SentApart
  BY DEF Init, CacheWasRecent, RaisedNear, SentApart
<1>3. QED
  BY <1>1, <1>2 DEF AlertInv

\* The lines a reading counts are of the given ones, the stamped ones recent.
CountsRecent(section, lines, now) ==
    \E counted \in SUBSET lines, available \in BOOLEAN :
       /\ section = [counted |-> counted, available |-> available]
       /\ \A line \in counted : line.at # Unread => Recent(line, now)

\* Whichever form of dmesg is read, and whatever lines have stamps.
LEMMA SectionCounts ==
    ASSUME NEW dated, NEW since, NEW iso \in BOOLEAN, NEW plain \in BOOLEAN,
           NEW now
    PROVE  CountsRecent(Section([ok |-> iso, lines |-> dated],
                                [ok |-> plain, lines |-> since], now),
                        dated \cup since, now)
<1> DEFINE read == IF iso /\ dated # {} THEN dated
                   ELSE IF plain THEN since ELSE {}
           critical == {line \in read : line.critical}
           stamped == {line \in critical : line.at # Unread}
           counted == RecentCritical(critical, now)
<1>1. Section([ok |-> iso, lines |-> dated], [ok |-> plain, lines |-> since], now)
        = [counted |-> counted, available |-> iso \/ plain]
  BY DEF Section
<1>2. critical \subseteq dated \cup since
  OBVIOUS
<1> HIDE DEF critical
<1>3. counted \subseteq critical
      /\ \A line \in counted : line.at # Unread => Recent(line, now)
  <2>1. CASE critical = {} \/ stamped # {}
    BY <2>1 DEF RecentCritical
  <2>2. CASE ~(critical = {} \/ stamped # {})
    BY <2>2 DEF RecentCritical
  <2>3. QED
    BY <2>1, <2>2
<1> HIDE DEF counted
<1>4. QED
  BY <1>1, <1>2, <1>3 DEF CountsRecent

\* The lines as dmesg prints them.
LEMMA Printed ==
    ASSUME AlertTypes, Numbered, NEW line \in ToSet(ring)
    PROVE  /\ Dated(line) \in KernelRecord
           /\ SinceBoot(line, clock - uptime) \in KernelRecord
           /\ Dated(line).id \in 1..Len(ring)
           /\ SinceBoot(line, clock - uptime).id \in 1..Len(ring)
<1>1. clock \in Nat /\ uptime \in Nat /\ ring \in Seq(RingRecord)
  BY DEF AlertTypes
<1>2. PICK i \in 1..Len(ring) : line = ring[i]
  BY <1>1 DEF ToSet
<1>3. line \in RingRecord /\ line.id = i
  BY <1>1, <1>2 DEF Numbered
<1>4. /\ line.id \in Nat /\ line.critical \in BOOLEAN
      /\ line.date \in Int \cup {Unread} /\ line.up \in Nat \cup {Unread}
  BY <1>3 DEF RingRecord
<1>5. Dated(line) \in KernelRecord /\ Dated(line).id = i
  BY <1>3, <1>4 DEF Dated, KernelRecord
<1>6. (IF line.up = Unread THEN Unread ELSE (clock - uptime) + line.up)
         \in Int \cup {Unread}
  BY <1>1, <1>4
<1>7. SinceBoot(line, clock - uptime) \in KernelRecord
      /\ SinceBoot(line, clock - uptime).id = i
  BY <1>3, <1>4, <1>6 DEF SinceBoot, KernelRecord
<1>8. QED
  BY <1>5, <1>7

\* A heartbeat with live metrics.
LEMMA BeatAlerts ==
    ASSUME AlertInv, NEW iso \in BOOLEAN, NEW plain \in BOOLEAN,
           LiveBeat(iso, plain)
    PROVE  AlertInv'
<1> DEFINE dated == {Dated(line) : line \in ToSet(ring)}
           since == {SinceBoot(line, clock - uptime) : line \in ToSet(ring)}
           fresh == Cached(cache, clock)
           section == IF fresh # {} THEN (CHOOSE c \in fresh : TRUE).section
                      ELSE Section([ok |-> iso, lines |-> dated],
                                   [ok |-> plain, lines |-> since], clock)
           raising == {[id |-> line.id, at |-> line.at, sent |-> clock] :
                         line \in {counted \in section.counted : Due}}
<1>0. AlertTypes /\ Numbered /\ CacheWasRecent /\ RaisedNear /\ SentApart
  BY DEF AlertInv
<1>1. /\ cache' = IF fresh # {} THEN cache
                  ELSE {[at |-> clock, section |-> section]}
      /\ sent' = IF Due THEN {clock} ELSE sent
      /\ raised' = raised \cup raising
      /\ UNCHANGED <<clock, uptime, ring>>
  BY DEF LiveBeat
<1>2. /\ clock \in Nat /\ uptime \in Nat /\ ring \in Seq(RingRecord)
      /\ sent \subseteq Nat /\ raised \subseteq RaisedRecord
      /\ cache \subseteq CacheRecord
  BY <1>0 DEF AlertTypes
<1>n. /\ clock \in Int /\ AlertWindow \in Int /\ ClockSkew \in Int
      /\ CacheTtl \in Int /\ DmesgInterval \in Int /\ DmesgInterval >= 0
  BY <1>2, AlertNumbers
<1>3. \A line \in dated \cup since :
         line \in KernelRecord /\ line.id \in 1..Len(ring)
  BY <1>0, Printed
\* What the section counts was recent at a time not long ago.
<1>4. PICK read \in Nat :
         /\ read <= clock /\ clock <= read + CacheTtl
         /\ section \in [counted : SUBSET KernelRecord, available : BOOLEAN]
         /\ CountedWereRecent(section.counted, read)
         /\ fresh = {} => read = clock
  <2>1. CASE fresh # {}
    <3>1. PICK c \in fresh : section = c.section
      BY <2>1
    <3>2. c \in cache /\ clock - c.at \in 0..CacheTtl - 1
      BY <3>1 DEF Cached, Fresh
    <3>3. c.at \in Nat /\ c.section \in [counted : SUBSET KernelRecord,
                                         available : BOOLEAN]
      BY <1>2, <3>2 DEF CacheRecord
    <3>4. c.at <= clock /\ clock <= c.at + CacheTtl
      BY <1>2, <3>2, <3>3, AlertNumbers
    <3>5. CountedWereRecent(section.counted, c.at)
      BY <1>0, <3>1, <3>2 DEF CacheWasRecent
    <3> HIDE DEF fresh, section
    <3>6. QED
      BY <2>1, <3>1, <3>3, <3>4, <3>5
  <2>2. CASE fresh = {}
    <3>1. section = Section([ok |-> iso, lines |-> dated],
                            [ok |-> plain, lines |-> since], clock)
      BY <2>2
    <3> HIDE DEF fresh, section, dated, since
    <3>2. CountsRecent(section, dated \cup since, clock)
      BY <3>1, SectionCounts
    <3>3. PICK counted \in SUBSET (dated \cup since), available \in BOOLEAN :
             /\ section = [counted |-> counted, available |-> available]
             /\ \A line \in counted : line.at # Unread => Recent(line, clock)
      BY <3>2 DEF CountsRecent
    <3>4. section \in [counted : SUBSET KernelRecord, available : BOOLEAN]
      BY <1>3, <3>3
    <3>5. CountedWereRecent(section.counted, clock)
      BY <1>3, <3>3 DEF CountedWereRecent, Recent
    <3>6. QED
      BY <1>2, <2>2, <3>4, <3>5, AlertNumbers
  <2> HIDE DEF section, fresh
  <2>3. QED
    BY <2>1, <2>2
<1> HIDE DEF section, fresh, dated, since
<1>5. \A line \in section.counted : line \in KernelRecord
  BY <1>4
\* What the heartbeat raises.
<1>6. \A x \in raising :
         /\ Due /\ x \in RaisedRecord /\ x.sent = clock /\ x.id \in 1..Len(ring)
         /\ x.at # Unread =>
               x.sent >= x.at - ClockSkew /\ x.sent <= x.at + AlertWindow + CacheTtl
  <2>1. ASSUME NEW line \in section.counted, Due,
               NEW x, x = [id |-> line.id, at |-> line.at, sent |-> clock]
        PROVE  /\ x \in RaisedRecord /\ x.sent = clock /\ x.id \in 1..Len(ring)
               /\ x.at # Unread =>
                     /\ x.sent >= x.at - ClockSkew
                     /\ x.sent <= x.at + AlertWindow + CacheTtl
    <3>1. line.id \in Nat /\ line.at \in Int \cup {Unread}
      BY <1>5 DEF KernelRecord
    <3>2. /\ line.id \in 1..Len(ring)
          /\ line.at # Unread =>
                line.at >= read - AlertWindow /\ line.at <= read + ClockSkew
      BY <1>4 DEF CountedWereRecent
    <3>3. x \in RaisedRecord
      BY <1>2, <2>1, <3>1 DEF RaisedRecord
    <3>4. x.id = line.id /\ x.at = line.at /\ x.sent = clock
      BY <2>1
    <3>5. read \in Int /\ read <= clock /\ clock <= read + CacheTtl
      BY <1>4
    <3>6. ASSUME line.at # Unread
          PROVE  /\ clock >= line.at - ClockSkew
                 /\ clock <= line.at + AlertWindow + CacheTtl
      <4>1. /\ line.at \in Int
            /\ line.at >= read - AlertWindow /\ line.at <= read + ClockSkew
        BY <3>1, <3>2, <3>6
      <4>2. QED
        BY <1>n, <3>5, <4>1
    <3>7. QED
      BY <3>2, <3>3, <3>4, <3>6
  <2>2. QED
    BY <2>1
<1> HIDE DEF raising
<1>7. AlertTypes'
  <2>1. cache' \subseteq CacheRecord
    BY <1>1, <1>2, <1>4 DEF CacheRecord
  <2>2. sent' \subseteq Nat
    BY <1>1, <1>2
  <2>3. raised' \subseteq RaisedRecord
    BY <1>1, <1>2, <1>6
  <2>4. QED
    BY <1>1, <1>2, <2>1, <2>2, <2>3 DEF AlertTypes
<1>8. Numbered'
  BY <1>0, <1>1 DEF Numbered
<1>9. CacheWasRecent'
  <2>1. CASE fresh # {}
    BY <1>0, <1>1, <2>1 DEF CacheWasRecent, CountedWereRecent
  <2>2. CASE fresh = {}
    <3>1. CountedWereRecent(section.counted, clock)
      BY <1>4, <2>2
    <3>2. cache' = {[at |-> clock, section |-> section]}
      BY <1>1, <2>2
    <3>3. QED
      BY <1>1, <3>1, <3>2 DEF CacheWasRecent, CountedWereRecent
  <2>3. QED
    BY <2>1, <2>2
<1>10. RaisedNear'
  BY <1>0, <1>1, <1>6 DEF RaisedNear
<1>11. SentApart'
  <2>1. CASE ~Due
    <3>1. raising = {}
      BY <1>6, <2>1
    <3>2. QED
      BY <1>0, <1>1, <2>1, <3>1 DEF SentApart
  <2>2. CASE Due
    <3>1. sent' = {clock} /\ clock' = clock /\ raised' = raised \cup raising
      BY <1>1, <2>2
    <3>2. ASSUME NEW x \in raised
          PROVE  x.sent \in Nat /\ x.sent + DmesgInterval <= clock
      <4>1. x.sent \in Nat
        BY <1>2 DEF RaisedRecord
      <4>2. PICK t \in sent : x.sent <= t /\ t <= clock
        BY <1>0 DEF SentApart
      <4>3. t \in Nat /\ ~(clock - t \in 0..DmesgInterval - 1)
        BY <1>2, <2>2 DEF Due, Fresh
      <4>4. QED
        BY <1>n, <4>1, <4>2, <4>3
    <3>3. \A x \in raised' : x.sent \in Nat /\ x.sent <= clock
      BY <1>2, <1>n, <1>6, <3>1, <3>2
    <3>4. ASSUME NEW x \in raised', NEW y \in raised', x.sent < y.sent
          PROVE  x.sent + DmesgInterval <= y.sent
      <4>1. CASE x \in raised /\ y \in raised
        BY <1>0, <3>4, <4>1 DEF SentApart
      <4>2. CASE x \in raised /\ y \in raising
        BY <1>6, <3>2, <4>2
      <4>3. CASE x \in raising
        BY <1>2, <1>6, <3>3, <3>4, <4>3
      <4>4. QED
        BY <3>1, <4>1, <4>2, <4>3
    <3>5. QED
      BY <1>2, <3>1, <3>3, <3>4 DEF SentApart
  <2>3. QED
    BY <2>1, <2>2
<1>12. QED
  BY <1>7, <1>8, <1>9, <1>10, <1>11 DEF AlertInv

LEMMA NextAlerts == ASSUME AlertInv, [Next]_vars PROVE AlertInv'
<1>0. AlertTypes /\ Numbered /\ CacheWasRecent /\ RaisedNear /\ SentApart
  BY DEF AlertInv
<1>1. ASSUME UNCHANGED alertVars PROVE AlertInv'
  BY <1>0, <1>1
     DEF AlertInv, alertVars, AlertTypes, Numbered, CacheWasRecent,
         CountedWereRecent, RaisedNear, SentApart
<1>2. ASSUME NEW ahead \in Ahead, NEW stamped \in BOOLEAN,
             KernelLogs(ahead, stamped)
      PROVE  AlertInv'
  <2> DEFINE line == [id |-> Len(ring) + 1, critical |-> TRUE,
                      date |-> IF stamped THEN clock + ahead ELSE Unread,
                      up |-> IF stamped THEN uptime ELSE Unread]
  <2>1. /\ ring' = Append(ring, line)
        /\ UNCHANGED <<clock, uptime, cache, sent, raised>>
    BY <1>2 DEF KernelLogs
  <2>2. ring \in Seq(RingRecord) /\ line \in RingRecord
    <3>1. clock \in Nat /\ uptime \in Nat /\ ring \in Seq(RingRecord)
      BY <1>0 DEF AlertTypes
    <3>2. ahead \in Int
      BY AnalysesAssumption
    <3>3. /\ (IF stamped THEN clock + ahead ELSE Unread) \in Int \cup {Unread}
          /\ (IF stamped THEN uptime ELSE Unread) \in Nat \cup {Unread}
      BY <3>1, <3>2
    <3>4. QED
      BY <3>1, <3>3 DEF RingRecord
  <2>3. /\ ring' \in Seq(RingRecord) /\ Len(ring') = Len(ring) + 1
        /\ \A i \in 1..Len(ring) : ring'[i] = ring[i]
        /\ ring'[Len(ring) + 1] = line
        /\ Len(ring) \in Nat
    <3> HIDE DEF line
    <3>1. QED
      BY <2>1, <2>2
  <2>4. 1..Len(ring) \subseteq 1..Len(ring')
    BY <2>3
  <2>5. Numbered'
    BY <1>0, <2>2, <2>3 DEF Numbered
  <2>6. CacheWasRecent' /\ RaisedNear'
    BY <1>0, <2>1, <2>4 DEF CacheWasRecent, CountedWereRecent, RaisedNear
  <2>7. AlertTypes' /\ SentApart'
    BY <1>0, <2>1, <2>3 DEF AlertTypes, SentApart
  <2>8. QED
    BY <2>5, <2>6, <2>7 DEF AlertInv
<1>3. CASE Pass
  <2>1. /\ clock' = clock + 1 /\ uptime' = uptime + 1
        /\ UNCHANGED <<ring, cache, sent, raised>>
    BY <1>3 DEF Pass
  <2>2. clock \in Nat /\ uptime \in Nat /\ sent \subseteq Nat
    BY <1>0 DEF AlertTypes
  <2>3. SentApart'
    BY <1>0, <2>1, <2>2 DEF SentApart
  <2>4. AlertTypes' /\ Numbered' /\ CacheWasRecent' /\ RaisedNear'
    BY <1>0, <2>1
       DEF AlertTypes, Numbered, CacheWasRecent, CountedWereRecent, RaisedNear
  <2>5. QED
    BY <2>3, <2>4 DEF AlertInv
<1>4. CASE \E iso, plain \in BOOLEAN : LiveBeat(iso, plain)
  BY <1>4, BeatAlerts
\* A correction of the clock starts the count anew.
<1>5. ASSUME NEW by \in Correction, SetClock(by) PROVE AlertInv'
  <2>1. /\ clock' \in 0..MaxClock /\ raised' = {}
        /\ UNCHANGED <<uptime, ring, cache, sent>>
    BY <1>5 DEF SetClock
  <2>2. RaisedNear' /\ SentApart'
    BY <2>1 DEF RaisedNear, SentApart
  <2>3. AlertTypes' /\ Numbered' /\ CacheWasRecent'
    BY <1>0, <2>1
       DEF AlertTypes, Numbered, CacheWasRecent, CountedWereRecent
  <2>4. QED
    BY <2>2, <2>3 DEF AlertInv
<1>6. CASE \/ \E line \in Line, gap \in 1..2 : LogLine(line, gap)
           \/ \E line \in Ringed, collector \in {"dmesg", "xids"} :
                 KernelLine(line, collector)
           \/ \E facts \in Facts : DetectCrash(facts)
           \/ \E error \in Failure \cup {"none"} : UseHeuristics(error)
           \/ \E answer \in Answer : UseAnswer(answer)
           \/ TimeOut
  <2>1. CrashOnly
    BY <1>6 DEF LogLine, KernelLine, DetectCrash, UseHeuristics, UseAnswer,
                Complete, TimeOut
  <2>2. QED
    BY <1>1, <2>1 DEF CrashOnly
<1>7. CASE \E r \in Reading, plan \in Plan : TakeReading(r, plan)
  <2>1. UNCHANGED alertVars
    BY <1>7 DEF TakeReading
  <2>2. QED
    BY <1>1, <2>1
<1>8. CASE \/ \E pid \in Pid : StartProcess(pid)
           \/ \E p \in processes : EndProcess(p)
           \/ \E p \in processes, rss \in 1..MaxMemory : Resize(p, rss)
           \/ RecordSnapshot
  <2>1. MemoryOnly
    BY <1>8 DEF StartProcess, EndProcess, Resize, RecordSnapshot
  <2>2. QED
    BY <1>1, <2>1 DEF MemoryOnly
<1>9. CASE UNCHANGED vars
  BY <1>1, <1>9 DEF vars
<1>10. QED
  BY <1>2, <1>3, <1>4, <1>5, <1>6, <1>7, <1>8, <1>9 DEF Next

LEMMA AtMostTwo ==
    ASSUME NEW a, NEW b PROVE Cardinality({a, b}) <= 2
<1>1. IsFiniteSet({a}) /\ Cardinality({a}) = 1
  BY FS_Singleton
<1>2. {a, b} = {a} \cup {b}
  OBVIOUS
<1>3. Cardinality({a, b}) = IF b \in {a} THEN 1 ELSE 2
  BY <1>1, <1>2, FS_AddElement
<1>4. QED
  BY <1>3

\* Three sections sent at different times are two intervals apart, and the
\* stamp of one line is not near the first and the last of them.
LEMMA TwiceRaised == AlertInv => RaisedAtMostTwice
<1> SUFFICES ASSUME AlertInv,
                    NEW x \in raised, NEW y \in raised, NEW z \in raised,
                    x.at # Unread, y.at = x.at, z.at = x.at
             PROVE  Cardinality({x.sent, y.sent, z.sent}) <= 2
  BY DEF RaisedAtMostTwice
<1>1. RaisedNear /\ SentApart /\ raised \subseteq RaisedRecord
  BY DEF AlertInv, AlertTypes
<1>2. /\ x.sent \in Nat /\ y.sent \in Nat /\ z.sent \in Nat
      /\ x.at \in Int
  BY <1>1 DEF RaisedRecord
<1>3. \A u \in {x, y, z} :
         u.sent >= x.at - ClockSkew /\ u.sent <= x.at + AlertWindow + CacheTtl
  BY <1>1 DEF RaisedNear
<1>4. \A u, v \in {x, y, z} : u.sent < v.sent => u.sent + DmesgInterval <= v.sent
  BY <1>1 DEF SentApart
<1>5. x.sent = y.sent \/ x.sent = z.sent \/ y.sent = z.sent
  <2>1. \A a, b, c \in Nat :
           /\ \A u \in {a, b, c} :
                 u >= x.at - ClockSkew /\ u <= x.at + AlertWindow + CacheTtl
           /\ \A u, v \in {a, b, c} : u < v => u + DmesgInterval <= v
           => a = b \/ a = c \/ b = c
    <3>1. SUFFICES ASSUME NEW a \in Nat, NEW b \in Nat, NEW c \in Nat,
                          a >= x.at - ClockSkew, c <= x.at + AlertWindow + CacheTtl,
                          a + DmesgInterval <= b, b + DmesgInterval <= c
                   PROVE  FALSE
      OBVIOUS
    <3>2. QED
      BY <1>2, <3>1, AlertNumbers
  <2>2. QED
    BY <1>2, <1>3, <1>4, <2>1
<1>6. \E a, b : {x.sent, y.sent, z.sent} = {a, b}
  BY <1>5
<1>7. QED
  BY <1>6, AtMostTwo

-----------------------------------------------------------------------------
(* The type invariant. *)

\* The bounds of the kernel's part, which the types above do not say.
Bounded ==
    /\ subject \in {"crash", "network", "memory", "alerts"}
    /\ clock \in 0..MaxClock /\ uptime \in 0..MaxClock
    /\ Len(ring) <= MaxKernel

LEMMA InitBounded == Init => Bounded
<1> SUFFICES ASSUME Init PROVE Bounded
  OBVIOUS
<1>1. MaxClock \in Nat /\ MaxKernel \in Nat
  BY AnalysesAssumption
<1>2. clock = 0 /\ uptime = 0 /\ ring = <<>> /\ Len(<<>>) = 0
      /\ subject \in {"crash", "network", "memory", "alerts"}
  BY DEF Init
<1>3. QED
  BY <1>1, <1>2 DEF Bounded

LEMMA NextBounded == AlertInv /\ Bounded /\ [Next]_vars => Bounded'
<1> SUFFICES ASSUME AlertInv, Bounded, [Next]_vars PROVE Bounded'
  OBVIOUS
<1>n. MaxClock \in Nat /\ MaxKernel \in Nat
  BY AnalysesAssumption
<1>1. ASSUME UNCHANGED <<subject, clock, uptime, ring>> PROVE Bounded'
  BY <1>1 DEF Bounded
<1>2. ASSUME NEW ahead \in Ahead, NEW stamped \in BOOLEAN,
             KernelLogs(ahead, stamped)
      PROVE  Bounded'
  <2>1. PICK line : ring' = Append(ring, line)
    BY <1>2 DEF KernelLogs
  <2>2. /\ UNCHANGED clock /\ UNCHANGED uptime /\ UNCHANGED subject
        /\ Len(ring) < MaxKernel
    BY <1>2 DEF KernelLogs, AlertsOnly
  <2>3. ring \in Seq(RingRecord)
    BY DEF AlertInv, AlertTypes
  <2>4. Len(ring') = Len(ring) + 1 /\ Len(ring) \in Nat
    BY <2>1, <2>3
  <2>5. QED
    BY <1>n, <2>2, <2>4 DEF Bounded
<1>3. ASSUME Pass PROVE Bounded'
  <2>1. /\ clock < MaxClock /\ clock' = clock + 1
        /\ uptime < MaxClock /\ uptime' = uptime + 1
        /\ UNCHANGED ring /\ UNCHANGED subject
    BY <1>3 DEF Pass, AlertsOnly
  <2>2. QED
    BY <1>n, <2>1 DEF Bounded
<1>4. ASSUME \E iso, plain \in BOOLEAN : LiveBeat(iso, plain) PROVE Bounded'
  BY <1>1, <1>4 DEF LiveBeat, AlertsOnly
<1>5. ASSUME \/ \E line \in Line, gap \in 1..2 : LogLine(line, gap)
             \/ \E line \in Ringed, collector \in {"dmesg", "xids"} :
                   KernelLine(line, collector)
             \/ \E facts \in Facts : DetectCrash(facts)
             \/ \E error \in Failure \cup {"none"} : UseHeuristics(error)
             \/ \E answer \in Answer : UseAnswer(answer)
           \/ TimeOut
             \/ TimeOut
      PROVE  UNCHANGED <<subject, clock, uptime, ring>>
  BY <1>5 DEF LogLine, KernelLine, DetectCrash, UseHeuristics, UseAnswer,
              Complete, TimeOut, CrashOnly, alertVars
<1>6. ASSUME NEW r \in Reading, NEW plan \in Plan, TakeReading(r, plan)
      PROVE  UNCHANGED <<subject, clock, uptime, ring>>
  BY <1>6 DEF TakeReading, alertVars
<1>7. ASSUME \/ \E pid \in Pid : StartProcess(pid)
             \/ \E p \in processes : EndProcess(p)
             \/ \E p \in processes, rss \in 1..MaxMemory : Resize(p, rss)
             \/ RecordSnapshot
      PROVE  UNCHANGED <<subject, clock, uptime, ring>>
  BY <1>7 DEF StartProcess, EndProcess, Resize, RecordSnapshot, MemoryOnly,
              alertVars
<1>8. CASE UNCHANGED vars
  BY <1>1, <1>8 DEF vars, alertVars
<1>9. ASSUME NEW by \in Correction, SetClock(by) PROVE Bounded'
  <2>1. /\ clock' \in 0..MaxClock
        /\ UNCHANGED ring /\ UNCHANGED subject /\ UNCHANGED uptime
    BY <1>9 DEF SetClock, AlertsOnly
  <2>2. QED
    BY <2>1 DEF Bounded
<1>10. QED
  BY <1>1, <1>2, <1>3, <1>4, <1>5, <1>6, <1>7, <1>8, <1>9 DEF Next

LEMMA Verdicts == NetworkInv => verdict \in NetworkVerdict
<1>1. ASSUME NetworkInv PROVE verdict \in NetworkVerdict
  <2>1. CASE verdict = "learning"
    BY <2>1 DEF NetworkVerdict
  <2>2. CASE \E plan : verdict = Assess(samples, plan, [down |-> 0, up |-> 0])
    BY <2>2, Assessed
  <2>3. QED
    BY <1>1, <2>1, <2>2 DEF NetworkInv
<1>2. QED
  BY <1>1

LEMMA Typed ==
    CrashTypes /\ NetworkInv /\ MemoryInv /\ AlertInv /\ Bounded => TypeOK
<1> SUFFICES ASSUME CrashTypes, NetworkInv, MemoryInv, AlertInv, Bounded
             PROVE  TypeOK
  OBVIOUS
<1>1. verdict \in {"learning", "ok", "link_slow", "lossy", "congested",
                   "saturated"}
  BY Verdicts DEF NetworkVerdict
<1>2. Len(samples) <= MaxReadings
  BY DEF NetworkInv
<1>3. \A p \in processes : p.rss \in 1..MaxMemory /\ p.pid \in Pid
  BY DEF MemoryInv, Process
<1>4. Len(snapshots) <= MaxSnapshots
  BY DEF MemoryInv
<1>5. \A i \in DOMAIN snapshots : Len(snapshots[i].top) <= TopSize
  <2>1. DOMAIN snapshots = 1..Len(snapshots)
    BY SnapshotRows DEF MemoryInv
  <2>2. QED
    BY <2>1 DEF MemoryInv
<1>6. /\ subject \in {"crash", "network", "memory", "alerts"}
      /\ clock \in 0..MaxClock /\ uptime \in 0..MaxClock
      /\ Len(ring) <= MaxKernel
  BY DEF Bounded
<1>7. ASSUME NEW x \in raised
      PROVE  x.id \in 1..MaxKernel /\ x.sent \in 0..MaxClock
  <2>1. ring \in Seq(RingRecord) /\ sent \subseteq Nat /\ x.sent \in Nat
    BY DEF AlertInv, AlertTypes, RaisedRecord
  <2>2. x.id \in 1..Len(ring)
    BY DEF AlertInv, RaisedNear
  <2>3. PICK t \in sent : x.sent <= t /\ t <= clock
    BY DEF AlertInv, SentApart
  <2>4. MaxKernel \in Nat /\ MaxClock \in Nat
    BY AnalysesAssumption
  <2>5. QED
    BY <1>6, <2>1, <2>2, <2>3, <2>4
<1>8. QED
  BY <1>1, <1>2, <1>3, <1>4, <1>5, <1>6, <1>7, Zenon DEF TypeOK, CrashTypes

-----------------------------------------------------------------------------
(* The theorems. *)

\* A detection is what detect_crash_type returns for the logs, and the report
\* is of that detection.
LEMMA CrashInvariant == Spec => []CrashInv
BY InitCrash, NextCrash, PTL DEF Spec

\* In every state the verdict is the one on the readings stored.
THEOREM NetworkInvariant == Spec => []NetworkInv
BY InitNetwork, NextNetwork, PTL DEF Spec

\* In every state a snapshot lists no process number twice.
THEOREM MemoryInvariant == Spec => []MemoryInv
BY InitMemory, NextMemory, PTL DEF Spec

\* In every state the kernel's part is as AlertInv says, within its bounds.
THEOREM AlertInvariant == Spec => [](AlertInv /\ Bounded)
<1>1. Init => AlertInv /\ Bounded
  BY InitAlerts, InitBounded
<1>2. (AlertInv /\ Bounded) /\ [Next]_vars => (AlertInv /\ Bounded)'
  BY NextAlerts, NextBounded
<1>3. QED
  BY <1>1, <1>2, PTL DEF Spec

\* Every analysis works on and produces what it should: a detection has a type,
\* a severity and a confidence of at most 950, and a source for each item of its
\* evidence, of which there is one at least; a verdict is one of six.
THEOREM TypeCorrect == Spec => []TypeOK
BY CrashInvariant, CrashTyped, NetworkInvariant, MemoryInvariant,
   AlertInvariant, Typed, PTL

\* A boot with a line of kernel panic evidence is never reported as a normal
\* shutdown, and the panic is the detection or one of its alternatives, for any
\* logs and any hardware facts.
THEOREM PanicReported == Spec => []PanicIsReported
BY CrashInvariant, CrashPanic, PTL

\* The detected type has the most evidence of its own, unless the hardware's own
\* signal or five lines settle it, and a more severe type has less, for any logs.
THEOREM WinnerSupported == Spec => []WinnerHasMostEvidence
BY CrashInvariant, CrashWinner, PTL

\* The description, cause, first step and confidence of a sudden stop tell of
\* the same heavy job and the same repetition, for any logs and facts.
THEOREM StopAgrees == Spec => []SuddenStopAgrees
BY CrashInvariant, CrashSuddenStop, PTL

\* Whatever the model answers, or if it does not in time, a report's row keeps
\* the detected type and has a severity; a completed report has a list of
\* alternatives, one the model did not write keeps its detection's type,
\* severity and confidence and offers nothing above it, and one that was not
\* completed still says what was detected.
THEOREM ReportsUsable == Spec => []ReportIsUsable
BY CrashInvariant, CrashUsable, PTL

\* A slowdown is found exactly where enough readings in a row were slow, and a
\* connection is blamed for slowness only when there was one and all of them
\* together lasted long enough, for any readings, plans and limits.
THEOREM SlowdownsSustained == Spec => []SlowdownsAreSustained
BY NetworkInvariant, NetworkSustained, PTL

\* The growth of a process is measured from the first snapshot that lists this
\* very process, for any processes, process numbers and snapshots.
THEOREM GrowthOwn == Spec => []GrowthIsOwn
BY MemoryInvariant, MemoryGrowthIsOwn, PTL

\* Between two corrections of the clock a line of the kernel raises an alert by
\* the same stamp in two sections at most, and a stamp ahead of the clock is no
\* exception, for any clock, corrections and intervals for which the window, the
\* skew and the cache's age together are shorter than two intervals.
THEOREM RaisedTwice == Spec => []RaisedAtMostTwice
BY TwiceRaised, AlertInvariant, PTL

=============================================================================
