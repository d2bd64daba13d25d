------------------------------ MODULE ReplayOps -----------------------------
(* recovery/replay_buffer.hpp and recovery/snapshot.hpp.  What is buffered   *)
(* is a contiguous run of messages, so its range stands for it; capacity is  *)
(* counted in messages (the arena's byte limit refuses the same way).        *)
EXTENDS Gap

CONSTANT BufferMessages         \* the Messages parameter of replay_buffer

ASSUME BufferAssumption == BufferMessages \in Nat \ {0}

\* append, once for each message of `accepted', in order, until one is refused.
\* A message below the end of the buffer is ignored, one beyond it is a hole.
Appended(held, accepted) ==
    LET start == IF Empty(held) THEN accepted.first ELSE held.first
        room == Lesser(accepted.end, start + BufferMessages)
        end == IF Empty(held) THEN room ELSE Greater(held.end, room)
    IN  IF Empty(accepted)
        THEN [held |-> held, error |-> "ok"]
        ELSE IF ~Empty(held) /\ accepted.first > held.end
        THEN [held |-> held, error |-> "sequence_gap"]
        ELSE [held |-> SequenceRange(start, end),
              error |-> IF accepted.end > end THEN "recovery_buffer_overflow" ELSE "ok"]

DropBelow(held, sequence) ==
    IF Empty(held) \/ sequence <= held.first THEN held
    ELSE IF sequence >= held.end THEN NoRange
    ELSE SequenceRange(sequence, held.end)

\* plan_snapshot: `next' is the first message after the snapshot's state.
Plan(verdict, replay, resume) ==
    [verdict |-> verdict, replay |-> replay, resume |-> resume]

PlanSnapshot(next, held, delivered) ==
    IF next <= delivered THEN Plan("stale", NoRange, delivered)
    ELSE IF Empty(held) THEN Plan("usable", NoRange, next)
    ELSE IF next < held.first THEN Plan("behind_buffer", NoRange, 0)
    ELSE IF next >= held.end THEN Plan("usable", NoRange, next)
    ELSE Plan("usable", SequenceRange(next, held.end), held.end)
=============================================================================
