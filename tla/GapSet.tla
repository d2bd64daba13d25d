------------------------------- MODULE GapSet -------------------------------
(* recovery/gap_set.hpp: the outstanding holes of a stream as a sorted array *)
(* of ranges that neither touch nor overlap, at most MaxOutstandingGaps.     *)
EXTENDS HoleSet, Sequences, SequencesExt

CONSTANT LastHole           \* bound: sequence numbers are below it

ASSUME GapSetAssumption == LastHole \in Nat

VARIABLES
    ranges,                 \* ranges_[0 .. count_ - 1]
    call,                   \* history: the last operation called
    result                  \* what it returned

gapSetVars == <<ranges, call, result>>

Inputs == [first : 0 .. LastHole, end : 0 .. LastHole]

Called(op, range) == [op |-> op, range |-> range]

\* A result<void>, a result<uint64_t> and a gap_set returned by value.
Ok == [error |-> "ok", count |-> 0, part |-> <<>>]
Refusal == [Ok EXCEPT !.error = "capacity_exceeded"]
Counted(n) == [Ok EXCEPT !.count = n]

\* ranges().total_missing()
TotalMissing(rs) == FoldLeft(LAMBDA sum, r : sum + Count(r), 0, rs)

-----------------------------------------------------------------------------
GapSetInit == ranges = <<>> /\ call = Called("none", NoRange) /\ result = Ok

\* One pass over the array: whatever touches the hole, as grown so far, is
\* absorbed into it; the rest is copied down.
Absorb(acc, existing) ==
    IF Touches(existing, acc.merged)
    THEN [acc EXCEPT !.merged = Merge(acc.merged, existing)]
    ELSE [acc EXCEPT !.kept = Append(acc.kept, existing)]

Scan(rs, hole) == FoldLeft(Absorb, [merged |-> hole, kept |-> <<>>], rs)

\* insert_sorted(): before the first range that does not start below the value.
InsertSorted(rs, value) ==
    LET at == Min({i \in 1 .. Len(rs) + 1 :
                      i \in DOMAIN rs => ~(rs[i].first < value.first)})
    IN  InsertAt(rs, at, value)

Open(hole) ==
    LET scan == Scan(ranges, hole)
    IN  /\ call' = Called("open", hole)
        /\ IF Empty(hole)
           THEN result' = Ok /\ UNCHANGED ranges
           ELSE IF Len(scan.kept) >= MaxOutstandingGaps
           THEN result' = Refusal /\ ranges' = scan.kept
           ELSE result' = Ok /\ ranges' = InsertSorted(scan.kept, scan.merged)

\* The loops of fill, discard_below and intersect write what each hole leaves,
\* one or more ranges or none, after what the holes before it have left.
IfAny(r) == IF Empty(r) THEN <<>> ELSE <<r>>

\* The non-empty sides of what `filled' leaves of a hole, in order.
Sides(hole, filled) ==
    LET left == Subtract(hole, filled)
    IN  IfAny(left.before) \o IfAny(left.after)

Fill(arrived) ==
    LET rest == FlattenSeq([i \in DOMAIN ranges |-> Sides(ranges[i], arrived)])
    IN  /\ call' = Called("fill", arrived)
        /\ IF Empty(arrived) \/ ranges = <<>>
           THEN result' = Counted(0) /\ UNCHANGED ranges
           ELSE IF Len(rest) > MaxOutstandingGaps
           THEN result' = Refusal /\ UNCHANGED ranges
           ELSE /\ result' = Counted(TotalMissing(ranges) - TotalMissing(rest))
                /\ ranges' = rest

\* Mutant: a hole that straddles the sequence goes whole.
KeptFromWhole(hole, sequence) == IF hole.first < sequence THEN <<>> ELSE <<hole>>

\* A hole that ends at or below the sequence goes, one that straddles it is
\* cut, one above it stays.
KeptFrom(hole, sequence) ==
    IF hole.end <= sequence THEN <<>>
    ELSE <<[hole EXCEPT !.first = Greater(@, sequence)]>>

DiscardBelow(sequence) ==
    LET rest == FlattenSeq([i \in DOMAIN ranges |-> KeptFrom(ranges[i], sequence)])
    IN  /\ call' = Called("discard_below", SequenceRange(0, sequence))
        /\ ranges' = rest
        /\ result' = Counted(TotalMissing(ranges) - TotalMissing(rest))

Clear == ranges' = <<>> /\ call' = Called("clear", NoRange) /\ result' = Ok

\* The part of a hole that has arrived.
Clip(hole, arrived) ==
    IF ~Overlaps(hole, arrived) THEN <<>>
    ELSE <<SequenceRange(Greater(hole.first, arrived.first), Lesser(hole.end, arrived.end))>>

Intersect(arrived) ==
    /\ call' = Called("intersect", arrived)
    /\ result' = [Ok EXCEPT !.part =
                      FlattenSeq([i \in DOMAIN ranges |-> Clip(ranges[i], arrived)])]
    /\ UNCHANGED ranges

GapSetNext ==
    \/ \E r \in Inputs : Open(r) \/ Fill(r) \/ Intersect(r)
    \/ \E s \in 0 .. LastHole : DiscardBelow(s)
    \/ Clear

GapSetSpec == GapSetInit /\ [][GapSetNext]_gapSetVars

-----------------------------------------------------------------------------
(* Properties                                                                *)

NumbersOf(rs) == UNION {Numbers(rs[i]) : i \in DOMAIN rs}

\* The array is the set of missing numbers: every operation changes the set
\* as MissingSet says, returns the counts it says and refuses exactly when
\* the answer would need more separate holes than the array can hold.
Abstract == INSTANCE MissingSet WITH
                missing <- NumbersOf(ranges),
                reply <- [error |-> result.error, count |-> result.count,
                          part |-> NumbersOf(result.part)]
ImplementsMissingSet == Abstract!MissingSpec

\* Whatever is opened, filled and discarded in whatever order, the ranges stay
\* sorted and non-empty, no two overlap or touch, and there is room for them:
\* is_canonical(), which the code asserts in paranoid builds only.
Canonical(rs) ==
    /\ \A i \in DOMAIN rs : ~Empty(rs[i])
    /\ \A i, j \in DOMAIN rs : i < j => rs[i].end < rs[j].first

StaysCanonical == Canonical(ranges) /\ Len(ranges) <= MaxOutstandingGaps
=============================================================================
