----------------------------- MODULE GapTracker -----------------------------
(* recovery/gap_tracker.hpp as a state machine: one channel, fed any packets *)
(* and snapshots, with the counters an operator audits it by.                *)
EXTENDS TrackerOps

CONSTANTS
    Session,            \* session numbers
    MaxSequence,        \* bound: packets and snapshots end at most here
    MaxPackets          \* bound: packets and snapshots fed

ASSUME TrackerAssumption ==
    Session \subseteq Nat /\ MaxSequence \in Nat /\ MaxPackets \in Nat

VARIABLES
    tracker,            \* missing, expected, session, started
    tally,              \* messages_missed, messages_recovered, messages_abandoned
    baseline,           \* history: where this session's account starts
    arrived,            \* history: sequence numbers of the packets accepted
    fed                 \* packets and snapshots fed so far

trackerVars == <<tracker, tally, baseline, arrived, fed>>

\* [first, end) of a packet; a heartbeat is the empty range at its sequence.
Packets == {r \in [first : 0 .. MaxSequence, end : 0 .. MaxSequence] : r.first <= r.end}

Init ==
    /\ tracker = Fresh
    /\ tally = [missed |-> 0, recovered |-> 0, abandoned |-> 0]
    /\ baseline = 0 /\ arrived = {} /\ fed = 0

Tallied(seen) ==
    [missed    |-> tally.missed + Count(IF seen.outcome = "gap_opened"
                                        THEN seen.range ELSE NoRange),
     recovered |-> tally.recovered + seen.recovered,
     abandoned |-> tally.abandoned + IF seen.outcome = "session_reset"
                                     THEN Cardinality(tracker.missing) ELSE 0]

Packet(session, p) ==
    LET seen == Observe(tracker, session, p)
    IN  /\ fed < MaxPackets
        /\ fed' = fed + 1
        /\ tracker' = seen.tracker
        /\ tally' = Tallied(seen)
        /\ IF seen.outcome \in {"established", "session_reset"}
           THEN baseline' = p.first /\ arrived' = Numbers(p)
           ELSE /\ UNCHANGED baseline
                /\ arrived' = IF seen.outcome = "capacity_exceeded" THEN arrived
                              ELSE arrived \cup Numbers(p)

Snapshot(session, sequence) ==
    LET other == tracker.started /\ session # tracker.session
        gone == IF other THEN tracker.missing ELSE Below(tracker.missing, sequence)
    IN  /\ fed < MaxPackets
        /\ fed' = fed + 1
        /\ tracker' = SnapshotAt(tracker, session, sequence)
        /\ tally' = [tally EXCEPT !.abandoned = @ + Cardinality(gone)]
        /\ baseline' = IF other \/ sequence > baseline THEN sequence ELSE baseline
        /\ arrived' = IF other THEN {} ELSE arrived

Next ==
    \/ \E session \in Session, p \in Packets : Packet(session, p)
    \/ \E session \in Session, s \in 0 .. MaxSequence : Snapshot(session, s)

Spec == Init /\ [][Next]_trackerVars

-----------------------------------------------------------------------------
(* Properties                                                                *)

\* Types, and nothing at or above the expectation is missing.
TypeOK ==
    /\ \A n \in tracker.missing : n < tracker.expected
    /\ tracker \in [missing : SUBSET Nat, expected : Nat, session : Nat,
                    started : BOOLEAN]
    /\ tally \in [missed : Nat, recovered : Nat, abandoned : Nat]
    /\ baseline \in Nat /\ arrived \in SUBSET Nat /\ fed \in Nat

\* "Knows exactly what it is missing": what the tracker calls missing is
\* every number of the session below the expectation that has not arrived and
\* that no snapshot made obsolete - none too many, none forgotten - also after
\* a packet it had no room to account for.
MissingIsExact ==
    tracker.missing = (baseline .. tracker.expected - 1) \ arrived

\* The audit adds up: everything ever counted missed was recovered, was given
\* up to a snapshot or a session change, or is missing now.
AuditBalances ==
    tally.missed = tally.recovered + tally.abandoned + Cardinality(tracker.missing)

\* Within a session the expectation never moves back: no packet or snapshot
\* makes a number that was accounted for look new.
ExpectationAdvances == [][
    tracker.started /\ tracker'.session = tracker.session
        => tracker'.expected >= tracker.expected]_trackerVars
=============================================================================
