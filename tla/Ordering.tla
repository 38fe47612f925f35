------------------------------ MODULE Ordering ------------------------------
(***************************************************************************)
(* Sorting and filtering as Python's list.sort and comprehensions do.      *)
(*                                                                         *)
(* An element's place is told by how many come before it, so that what is  *)
(* claimed of a sorted sequence can be proved; SetToSortSeq and SelectSeq  *)
(* rest on operators the proof system cannot expand.                       *)
(***************************************************************************)
EXTENDS Integers, FiniteSets, Sequences

\* The elements of S that come before x.
Below(S, R, x) == {y \in S : <<y, x>> \in R}

\* The elements of S in the order R, a set of pairs.
InOrder(S, R) ==
    [k \in 1..Cardinality(S) |->
        CHOOSE x \in S : Cardinality(Below(S, R, x)) = k - 1]

\* sorted(S).
Sorted(S, before(_, _)) ==
    InOrder(S, {p \in S \X S : before(p[1], p[2])})

\* The pairs of numbers of which the first is smaller.
Ascending(S) == {p \in S \X S : p[1] < p[2]}

\* The elements of s at the places in I, in the order they have there.
Picked(s, I) ==
    LET order == InOrder(I, Ascending(I))
    IN [k \in DOMAIN order |-> s[order[k]]]
=============================================================================
