---------------------------- MODULE RequesterOps ----------------------------
(* recovery/requester.hpp and recovery/retransmit_policy.hpp as functions of *)
(* the entry array.  Instants are kept relative to now: an entry carries its *)
(* age (now - discovered) and its wait (next_attempt - now, zero when due),  *)
(* which is all the code ever compares.  Requester is the state machine.     *)
EXTENDS HoleSet, Sequences, SequencesExt

CONSTANTS               \* retransmit_policy, in clock ticks
    SettleDelay, FirstTimeout, MaxTimeout,
    BackoffNumerator, BackoffDenominator,
    MaxAttempts, RetentionWindow, MaxMessagesPerRequest

\* retransmit_policy::validate, which the constructor asserts.
ASSUME PolicyValid ==
    /\ BackoffDenominator \in Nat \ {0} /\ BackoffNumerator \in Nat \ {0}
    /\ BackoffNumerator >= BackoffDenominator
    /\ MaxAttempts \in Nat \ {0} /\ MaxMessagesPerRequest \in Nat \ {0}
    /\ FirstTimeout \in Nat \ {0} /\ MaxTimeout \in Nat /\ MaxTimeout >= FirstTimeout
    /\ SettleDelay \in Nat
    /\ RetentionWindow \in Nat /\ RetentionWindow > SettleDelay + FirstTimeout

\* timeout_for: the ratio applied once per earlier attempt, in integers, up to
\* the ceiling.
TimeoutFor(attempt) ==
    LET wait[n \in 1 .. attempt] ==
            IF n = 1 THEN FirstTimeout
            ELSE IF wait[n - 1] >= MaxTimeout THEN MaxTimeout
            ELSE Lesser(MaxTimeout,
                        (wait[n - 1] \div BackoffDenominator) * BackoffNumerator)
    IN  wait[attempt]

-----------------------------------------------------------------------------
(* on_gap                                                                    *)
NewEntry(chunk) == [range |-> chunk, age |-> 0, wait |-> SettleDelay, attempts |-> 0]

Joins(e, chunk) ==
    /\ Touches(e.range, chunk)
    /\ Count(Merge(e.range, chunk)) <= MaxMessagesPerRequest

\* The entry keeps its age and starts its attempts again.
Extended(e, chunk) ==
    [e EXCEPT !.range = Merge(e.range, chunk), !.attempts = 0, !.wait = SettleDelay]

\* The first entry the chunk joins within one request is extended; otherwise
\* the chunk is an entry of its own.
Admit(acc, chunk) ==
    LET es == acc.entries
        fits == {i \in DOMAIN es : Joins(es[i], chunk)}
        i == CHOOSE j \in fits : \A k \in fits : j <= k
    IN  IF acc.error # "ok" THEN acc
        ELSE IF fits # {}
        THEN [acc EXCEPT !.entries = [es EXCEPT ![i] = Extended(es[i], chunk)]]
        ELSE IF Len(es) >= MaxOutstandingGaps
        THEN [acc EXCEPT !.error = "capacity_exceeded"]
        ELSE [acc EXCEPT !.entries = Append(es, NewEntry(chunk))]

\* The hole cut in pieces one wire request can ask for.
Chunks(hole) ==
    LET pieces == (Count(hole) + MaxMessagesPerRequest - 1) \div MaxMessagesPerRequest
        start(i) == hole.first + (i - 1) * MaxMessagesPerRequest
    IN  [i \in 1 .. pieces |->
            SequenceRange(start(i), Lesser(start(i) + MaxMessagesPerRequest, hole.end))]

OnGap(es, hole) == FoldLeft(Admit, [entries |-> es, error |-> "ok"], Chunks(hole))

-----------------------------------------------------------------------------
(* on_filled: both halves of a split entry inherit its attempts.             *)
Side(e, left) == IF Empty(left) THEN <<>> ELSE <<[e EXCEPT !.range = left]>>

\* Mutant: only what is left before the arrival is kept.
HalvesBefore(e, arrived) == Side(e, Subtract(e.range, arrived).before)

Halves(e, arrived) ==
    LET left == Subtract(e.range, arrived)
    IN  Side(e, left.before) \o Side(e, left.after)

OnFilled(es, arrived) ==
    LET rest == FlattenSeq([i \in DOMAIN es |-> Halves(es[i], arrived)])
    IN  IF Empty(arrived) \/ es = <<>>
        THEN [entries |-> es, error |-> "ok"]
        ELSE IF Len(rest) > MaxOutstandingGaps
        THEN [entries |-> es, error |-> "capacity_exceeded"]
        ELSE [entries |-> rest, error |-> "ok"]

-----------------------------------------------------------------------------
(* poll                                                                      *)
\* Mutant: the last attempt gets no time.
GiveUpReasonAtOnce(e) ==
    IF e.age >= RetentionWindow THEN "retransmit_window_exceeded"
    ELSE IF e.attempts >= MaxAttempts THEN "retransmit_timed_out"
    ELSE "ok"

\* Mutant: one attempt too many is waited for, and the window is not looked at.
GiveUpReasonTooLate(e) ==
    IF e.attempts > MaxAttempts /\ e.wait = 0 THEN "retransmit_timed_out" ELSE "ok"

GiveUpReason(e) ==
    IF e.age >= RetentionWindow THEN "retransmit_window_exceeded"
    ELSE IF e.attempts >= MaxAttempts /\ e.wait = 0 THEN "retransmit_timed_out"
    ELSE "ok"

Due(e) == e.attempts < MaxAttempts /\ e.wait = 0

\* The entry discovered earliest, the first in the array among equals.
Oldest(es, candidates) ==
    CHOOSE i \in candidates : \A j \in candidates :
        es[i].age > es[j].age \/ (es[i].age = es[j].age /\ i <= j)

Idle(es) == [entries |-> es, what |-> "idle", range |-> NoRange,
             attempt |-> 0, reason |-> "ok"]

TakeAbandoned(es, candidates) ==
    LET i == Oldest(es, candidates)
    IN  [entries |-> RemoveAt(es, i), what |-> "abandon", range |-> es[i].range,
         attempt |-> 0, reason |-> GiveUpReason(es[i])]

TakeDue(es, candidates) ==
    LET i == Oldest(es, candidates)
        attempt == es[i].attempts + 1
    IN  [entries |-> [es EXCEPT ![i].attempts = attempt, ![i].wait = TimeoutFor(attempt)],
         what |-> "send", range |-> es[i].range, attempt |-> attempt, reason |-> "ok"]

\* Mutant: asking again comes first.
DecideAskFirst(es) ==
    LET lost == {i \in DOMAIN es : GiveUpReason(es[i]) # "ok"}
        due == {i \in DOMAIN es : Due(es[i])}
    IN  IF due # {} THEN TakeDue(es, due)
        ELSE IF lost # {} THEN TakeAbandoned(es, lost)
        ELSE Idle(es)

\* Giving up is considered before asking again.
Decide(es) ==
    LET lost == {i \in DOMAIN es : GiveUpReason(es[i]) # "ok"}
        due == {i \in DOMAIN es : Due(es[i])}
    IN  IF lost # {} THEN TakeAbandoned(es, lost)
        ELSE IF due # {} THEN TakeDue(es, due)
        ELSE Idle(es)

-----------------------------------------------------------------------------
\* One tick of the caller's clock, seen from every entry.
Aged(es) ==
    [i \in DOMAIN es |->
        [es[i] EXCEPT !.age = @ + 1, !.wait = IF @ > 0 THEN @ - 1 ELSE 0]]
Asked(es) == UNION {Numbers(es[i].range) : i \in DOMAIN es}
=============================================================================
