-------------------------------- MODULE Gap ---------------------------------
(* recovery/gap.hpp: half-open ranges of sequence numbers.                   *)
EXTENDS Integers

SequenceRange(f, e) == [first |-> f, end |-> e]
NoRange == SequenceRange(0, 0)

Empty(r) == r.first >= r.end
Count(r) == IF Empty(r) THEN 0 ELSE r.end - r.first
Numbers(r) == r.first .. r.end - 1      \* the sequence numbers r stands for

Lesser(a, b) == IF a < b THEN a ELSE b
Greater(a, b) == IF a > b THEN a ELSE b

Overlaps(r, o) ==
    ~Empty(r) /\ ~Empty(o) /\ r.first < o.end /\ o.first < r.end

AdjacentTo(r, o) ==
    ~Empty(r) /\ ~Empty(o) /\ (r.end = o.first \/ o.end = r.first)

Touches(r, o) == Overlaps(r, o) \/ AdjacentTo(r, o)

\* The union of two ranges that touch; the code asserts that they do.
Merge(a, b) ==
    IF Empty(a) THEN b
    ELSE IF Empty(b) THEN a
    ELSE SequenceRange(Lesser(a.first, b.first), Greater(a.end, b.end))

\* What removing `filled' leaves of `hole', on either side of it.
Subtract(hole, filled) ==
    IF ~Overlaps(hole, filled)
    THEN [before |-> hole, after |-> NoRange]
    ELSE [before |-> IF filled.first > hole.first
                     THEN SequenceRange(hole.first, filled.first) ELSE NoRange,
          after  |-> IF filled.end < hole.end
                     THEN SequenceRange(filled.end, hole.end) ELSE NoRange]
=============================================================================
