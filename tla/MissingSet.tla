----------------------------- MODULE MissingSet -----------------------------
(* What gap_set stands for: the set of sequence numbers still missing, able  *)
(* to describe at most MaxOutstandingGaps separate holes.  GapSet, the       *)
(* sorted array of ranges, is shown to implement it; the tracker and the     *)
(* client are written over the same operators.                               *)
EXTENDS HoleSet

CONSTANT LastHole           \* bound: sequence numbers are below it

VARIABLES
    missing,                \* the missing sequence numbers
    call,                   \* the last operation called
    reply                   \* what it returned

missingVars == <<missing, call, reply>>

Called(op, range) == [op |-> op, range |-> range]

\* A result<void>, a count, and a set of numbers returned by value.
Ok == [error |-> "ok", count |-> 0, part |-> {}]
Refusal == [Ok EXCEPT !.error = "capacity_exceeded"]
Counted(s) == [Ok EXCEPT !.count = Cardinality(s)]

Ranges == [first : 0 .. LastHole, end : 0 .. LastHole]

-----------------------------------------------------------------------------
MissingInit == missing = {} /\ call = Called("none", NoRange) /\ reply = Ok

Open(hole) ==
    /\ call' = Called("open", hole)
    /\ IF Describable(Opened(missing, hole))
       THEN missing' = Opened(missing, hole) /\ reply' = Ok
       ELSE UNCHANGED missing /\ reply' = Refusal

Fill(arrived) ==
    /\ call' = Called("fill", arrived)
    /\ IF Describable(Filled(missing, arrived))
       THEN /\ missing' = Filled(missing, arrived)
            /\ reply' = Counted(missing \cap Numbers(arrived))
       ELSE UNCHANGED missing /\ reply' = Refusal

DiscardBelow(sequence) ==
    /\ call' = Called("discard_below", SequenceRange(0, sequence))
    /\ missing' = From(missing, sequence)
    /\ reply' = Counted(Below(missing, sequence))

Clear == missing' = {} /\ call' = Called("clear", NoRange) /\ reply' = Ok

Intersect(arrived) ==
    /\ call' = Called("intersect", arrived)
    /\ reply' = [Ok EXCEPT !.part = missing \cap Numbers(arrived)]
    /\ UNCHANGED missing

MissingNext ==
    \/ \E r \in Ranges : Open(r) \/ Fill(r) \/ Intersect(r)
    \/ \E s \in 0 .. LastHole : DiscardBelow(s)
    \/ Clear

MissingSpec == MissingInit /\ [][MissingNext]_missingVars
=============================================================================
