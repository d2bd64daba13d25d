----------------------------- MODULE BoundedFifo -----------------------------
(* What the hand-off ring promises its two threads: a queue that holds at    *)
(* most Capacity records, refuses rather than overwrites, and gives records  *)
(* back in the order they were accepted, each exactly once.                  *)
EXTENDS Naturals, Sequences

CONSTANTS Capacity, Value

VARIABLES
    queue,      \* accepted and not yet taken
    taken       \* every record handed to the consumer, oldest first

fifoVars == <<queue, taken>>

FifoInit == queue = <<>> /\ taken = <<>>

Accept(v) ==
    /\ Len(queue) < Capacity
    /\ queue' = Append(queue, v)
    /\ UNCHANGED taken

Take(n) ==
    /\ taken' = taken \o SubSeq(queue, 1, n)
    /\ queue' = SubSeq(queue, n + 1, Len(queue))

FifoNext ==
    \/ \E v \in Value : Accept(v)
    \/ \E n \in 1 .. Len(queue) : Take(n)

FifoSpec == FifoInit /\ [][FifoNext]_fifoVars

=============================================================================
