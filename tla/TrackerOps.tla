----------------------------- MODULE TrackerOps -----------------------------
(* recovery/gap_tracker.hpp: one channel's account of what has arrived and   *)
(* what is missing, as functions of the channel's state.  Channels share     *)
(* nothing, so one stands for all.  GapTracker is the state machine.         *)
EXTENDS HoleSet

Established(session, expected) ==
    [missing |-> {}, expected |-> expected, session |-> session, started |-> TRUE]

\* Zero-initialised until the first packet or snapshot sets it.
Fresh == [missing |-> {}, expected |-> 0, session |-> 0, started |-> FALSE]

\* What observe returns, with the tracker it leaves behind.
Observation(t, outcome, range, recovered) ==
    [tracker |-> t, outcome |-> outcome, range |-> range, recovered |-> recovered]

-----------------------------------------------------------------------------
(* observe                                                                   *)

\* Mutant: the expectation moves over a hole there was no room for.
OpenGapMovesOn(t, arrived) ==
    LET hole == SequenceRange(t.expected, arrived.first)
        after == Opened(t.missing, hole)
        u == [t EXCEPT !.expected = arrived.end]
    IN  IF Describable(after)
        THEN Observation([u EXCEPT !.missing = after], "gap_opened", hole, 0)
        ELSE Observation(u, "capacity_exceeded", NoRange, 0)

\* Out of room to describe the hole: the packet is not accepted and the
\* expectation stays where it is.
OpenGap(t, arrived) ==
    LET hole == SequenceRange(t.expected, arrived.first)
        after == Opened(t.missing, hole)
    IN  IF Describable(after)
        THEN Observation([t EXCEPT !.missing = after, !.expected = arrived.end],
                         "gap_opened", hole, 0)
        ELSE Observation(t, "capacity_exceeded", NoRange, 0)

\* Mutant: the end of a late packet becomes the expectation.
HandleBehindMovesBack(t, arrived) ==
    LET after == Filled(t.missing, arrived)
        recovered == Cardinality(t.missing \cap Numbers(arrived))
        u == [t EXCEPT !.missing = after, !.expected = arrived.end]
    IN  IF recovered = 0
        THEN Observation(u, "duplicate", NoRange, 0)
        ELSE Observation(u, "gap_filled", arrived, recovered)

\* Mutant: the whole packet counts as recovered.
HandleBehindCountsAll(t, arrived) ==
    LET after == Filled(t.missing, arrived)
        u == [t EXCEPT !.missing = after,
                       !.expected = Greater(t.expected, arrived.end)]
    IN  IF ~Describable(after)
        THEN Observation(t, "capacity_exceeded", NoRange, 0)
        ELSE Observation(u, "gap_filled", arrived, Count(arrived))

HandleBehind(t, arrived) ==
    LET after == Filled(t.missing, arrived)
        recovered == Cardinality(t.missing \cap Numbers(arrived))
        u == [t EXCEPT !.missing = after,
                       !.expected = Greater(t.expected, arrived.end)]
    IN  IF ~Describable(after)
        THEN Observation(t, "capacity_exceeded", NoRange, 0)
        ELSE IF recovered = 0
        THEN Observation(u, "duplicate", NoRange, 0)
        ELSE Observation(u, "gap_filled", arrived, recovered)

Observe(t, session, arrived) ==
    IF ~t.started
    THEN Observation(Established(session, arrived.end), "established", NoRange, 0)
    ELSE IF session # t.session
    THEN Observation(Established(session, arrived.end), "session_reset", NoRange, 0)
    ELSE IF arrived.first = t.expected
    THEN Observation([t EXCEPT !.expected = arrived.end], "in_order", NoRange, 0)
    ELSE IF arrived.first > t.expected
    THEN OpenGap(t, arrived)
    ELSE HandleBehind(t, arrived)

-----------------------------------------------------------------------------
(* snapshot_at                                                               *)

\* Mutant: the account of the old session is carried into the new one.
SnapshotAtAnySession(t, session, sequence) ==
    [missing |-> From(t.missing, sequence),
     expected |-> Greater(sequence, t.expected),
     session |-> session, started |-> TRUE]

SnapshotAt(t, session, sequence) ==
    IF t.started /\ session # t.session
    THEN Established(session, sequence)
    ELSE [missing |-> From(t.missing, sequence),
          expected |-> IF ~t.started \/ sequence > t.expected
                       THEN sequence ELSE t.expected,
          session |-> session,
          started |-> TRUE]

=============================================================================
