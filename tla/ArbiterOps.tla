----------------------------- MODULE ArbiterOps -----------------------------
(* recovery/arbiter.hpp as functions of the merged stream's state: the       *)
(* watermark and the ring of digests.  Arbiter is the state machine.         *)
EXTENDS Gap

CONSTANT DigestHistory      \* kDigestHistory

ASSUME ArbiterOpsAssumption == DigestHistory \in Nat \ {0}

\* delivered_before_, digests_, digest_next_, digest_count_
FreshStream ==
    [before |-> 0,
     digests |-> [i \in 0 .. DigestHistory - 1 |-> [range |-> NoRange, digest |-> 0]],
     next |-> 0, count |-> 0]

\* Mutant: the old session's digests stay in use.
ResetStreamKeepsDigests(a) == [a EXCEPT !.before = 0]

ResetStream(a) == [a EXCEPT !.before = 0, !.next = 0, !.count = 0]

Adopt(a, sequence) == [a EXCEPT !.before = Greater(@, sequence)]

\* Mutant: the entries after the ring's position are not compared.
DisagreesUpToNext(a, arrived, digest) ==
    \E i \in 0 .. a.next - 1 :
        a.digests[i].range = arrived /\ a.digests[i].digest # digest

\* check_agreement: only the same framing of the same messages is compared.
Disagrees(a, arrived, digest) ==
    \E i \in 0 .. a.count - 1 :
        a.digests[i].range = arrived /\ a.digests[i].digest # digest

Remember(a, arrived, digest) ==
    IF Empty(arrived) THEN a
    ELSE [a EXCEPT !.digests[a.next] = [range |-> arrived, digest |-> digest],
                   !.next = (@ + 1) % DigestHistory,
                   !.count = Lesser(@ + 1, DigestHistory)]

\* Mutant: a packet that reaches above the watermark is new as a whole.
NovelPartWhole(a, arrived) ==
    IF arrived.end <= a.before THEN NoRange ELSE arrived

\* The part of a packet above the watermark.
NovelPart(a, arrived) ==
    IF arrived.end <= a.before THEN NoRange
    ELSE SequenceRange(Greater(arrived.first, a.before), arrived.end)

Arbitration(a, outcome, deliver) ==
    [arbiter |-> a, outcome |-> outcome, deliver |-> deliver]

Offer(a, arrived, digest, detectDivergence) ==
    LET b == IF detectDivergence THEN Remember(a, arrived, digest) ELSE a
        fresh == NovelPart(b, arrived)
    IN  IF detectDivergence /\ Disagrees(a, arrived, digest)
        THEN Arbitration(a, "lines_diverged", NoRange)
        ELSE IF Empty(arrived) \/ Empty(fresh)
        THEN Arbitration(b, "duplicate", NoRange)
        ELSE Arbitration(Adopt(b, fresh.end),
                         IF fresh = arrived THEN "deliver" ELSE "partial", fresh)
=============================================================================
