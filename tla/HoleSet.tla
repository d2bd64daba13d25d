------------------------------ MODULE HoleSet -------------------------------
(* The operations of gap_set as functions on the set of missing sequence     *)
(* numbers, which is what the array of ranges stands for.                    *)
EXTENDS FiniteSets, Gap

CONSTANT MaxOutstandingGaps     \* kMaxOutstandingGaps

ASSUME HoleSetAssumption == MaxOutstandingGaps \in Nat \ {0}

\* How many separate holes a set of numbers is made of, and whether the array
\* has room for them.
Holes(s) == Cardinality({n \in s : n - 1 \notin s})
Describable(s) == Holes(s) <= MaxOutstandingGaps

Opened(s, hole) == s \cup Numbers(hole)
Filled(s, arrived) == s \ Numbers(arrived)
From(s, sequence) == {n \in s : n >= sequence}
Below(s, sequence) == {n \in s : n < sequence}
=============================================================================
