----------------------------- MODULE Requester ------------------------------
(* recovery/requester.hpp as a state machine: which missing messages to ask  *)
(* for again, when, and when to give up.  Holes are reported in order and    *)
(* once, as gap_tracker does; answers, duplicates and polls come at any time.*)
EXTENDS RequesterOps

CONSTANTS
    LastSequence,       \* bound: sequence numbers are below it
    OldestAge           \* bound: the clock waits for a poll of an entry this old

ASSUME RequesterAssumption ==
    LastSequence \in Nat /\ OldestAge \in Nat /\ OldestAge > RetentionWindow

VARIABLES
    entries,            \* entries_[0 .. count_ - 1]
    decision,           \* what the last poll decided
    frontier,           \* history: every hole reported so far ends here or below
    wanted,             \* history: reported, and neither arrived nor given up
    sinceFound,         \* history: ticks since each wanted number was reported
    sinceAsked,         \* history: ticks since each was last asked for
    asks                \* history: how often each was asked for

historyVars == <<frontier, wanted, sinceFound, sinceAsked, asks>>
requesterVars == <<entries, decision, historyVars>>

Number == 0 .. LastSequence - 1
NoDecision == [what |-> "idle", range |-> NoRange, attempt |-> 0, reason |-> "ok"]

RequesterInit ==
    /\ entries = <<>> /\ decision = NoDecision
    /\ frontier = 0 /\ wanted = {}
    /\ sinceFound = [n \in Number |-> 0]
    /\ sinceAsked = [n \in Number |-> 0]
    /\ asks = [n \in Number |-> 0]

\* The history of a number that is no longer wanted is forgotten.
Kept(f) == [n \in Number |-> IF n \in wanted' THEN f[n] ELSE 0]
KeepHistory ==
    sinceFound' = Kept(sinceFound) /\ sinceAsked' = Kept(sinceAsked) /\ asks' = Kept(asks)

-----------------------------------------------------------------------------
\* A refusal keeps the chunks admitted before it; the client then escalates.
GapReported(hole) ==
    LET done == OnGap(entries, hole)
    IN  /\ hole.first >= frontier /\ ~Empty(hole)
        /\ frontier' = hole.end
        /\ entries' = done.entries
        /\ wanted' = wanted \cup IF done.error = "ok" THEN Numbers(hole)
                                 ELSE Numbers(hole) \cap Asked(done.entries)
        /\ decision' = NoDecision
        /\ KeepHistory

Arrival(arrived) ==
    LET done == OnFilled(entries, arrived)
    IN  /\ entries' = done.entries
        /\ wanted' = IF done.error = "ok" THEN wanted \ Numbers(arrived) ELSE wanted
        /\ decision' = NoDecision
        /\ KeepHistory
        /\ UNCHANGED frontier

PollEntries ==
    LET next == Decide(entries)
        about == Numbers(next.range)
    IN  /\ entries' = next.entries
        /\ decision' = [what |-> next.what, range |-> next.range,
                        attempt |-> next.attempt, reason |-> next.reason]
        /\ wanted' = IF next.what = "abandon" THEN wanted \ about ELSE wanted
        /\ sinceAsked' = [n \in Number |-> IF next.what = "send" /\ n \in about
                                           THEN 0 ELSE sinceAsked[n]]
        /\ asks' = [n \in Number |-> IF next.what = "send" /\ n \in about
                                     THEN asks[n] + 1 ELSE asks[n]]
        /\ UNCHANGED <<frontier, sinceFound>>

ClockTick ==
    /\ \A i \in DOMAIN entries : entries[i].age < OldestAge
    /\ entries' = Aged(entries)
    /\ sinceFound' = [n \in Number |-> IF n \in wanted THEN sinceFound[n] + 1 ELSE 0]
    /\ sinceAsked' = [n \in Number |-> IF n \in wanted THEN sinceAsked[n] + 1 ELSE 0]
    /\ asks' = [n \in Number |-> IF n \in wanted THEN asks[n] ELSE 0]
    /\ decision' = NoDecision
    /\ UNCHANGED <<frontier, wanted>>

Arrivals == {r \in [first : 0 .. LastSequence, end : 0 .. LastSequence] : r.first <= r.end}

RequesterNext ==
    \/ \E hole \in Arrivals : GapReported(hole)
    \/ \E arrived \in Arrivals : Arrival(arrived)
    \/ PollEntries
    \/ ClockTick

RequesterSpec == RequesterInit /\ [][RequesterNext]_requesterVars

\* The client's owner polls and its clock advances; the network owes nothing.
FairSpec == RequesterSpec /\ WF_requesterVars(PollEntries) /\ WF_requesterVars(ClockTick)

-----------------------------------------------------------------------------
(* Properties                                                                *)
\* The entries cut the wanted messages into disjoint requests, each within the
\* wire's limit: nothing wanted is forgotten, nothing that arrived is asked
\* for again, nothing is asked for in two requests at once.
EntriesPartitionWanted ==
    /\ Asked(entries) = wanted
    /\ \A i, j \in DOMAIN entries :
           i # j => ~Overlaps(entries[i].range, entries[j].range)
    /\ \A i \in DOMAIN entries : Count(entries[i].range) \in 1 .. MaxMessagesPerRequest

\* A message is asked for only after it has had its settle delay, and never
\* once the publisher's retention window has passed it by.
AsksAreTimely ==
    decision.what = "send" => \A n \in Numbers(decision.range) :
        sinceFound[n] >= SettleDelay /\ sinceFound[n] < RetentionWindow

\* A message is given up only when the retention window has passed for the
\* request it is part of, or when every attempt was made for it and the last
\* one had its whole timeout.
GivesUpLast ==
    decision.what = "abandon" => \A n \in Numbers(decision.range) :
        \/ decision.reason = "retransmit_window_exceeded"
        \/ /\ asks[n] >= MaxAttempts
           /\ sinceAsked[n] >= TimeoutFor(MaxAttempts)

\* No hole is chased for ever: every wanted message arrives or is given up,
\* although merging with a new hole starts an entry's attempts again.
NothingWantedForEver == \A n \in Number : n \in wanted ~> n \notin wanted
=============================================================================
