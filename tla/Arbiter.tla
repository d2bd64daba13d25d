------------------------------ MODULE Arbiter -------------------------------
(* recovery/arbiter.hpp as a state machine: two or more lines carry the same *)
(* stream, and the first copy of each message goes downstream.               *)
EXTENDS ArbiterOps, Sequences

CONSTANTS
    Digest,             \* digests of payloads
    DetectDivergence,   \* arbiter_options::detect_divergence
    LastSequence,       \* bound: packets end at most here
    MaxOffers           \* bound: packets, snapshots and session changes

ASSUME ArbiterAssumption ==
    /\ DetectDivergence \in BOOLEAN
    /\ LastSequence \in Nat /\ MaxOffers \in Nat

VARIABLES
    arbiter,            \* the merged stream
    outcome,            \* of the last offer
    crossed,            \* history: how often each number went downstream
    others,             \* history: below this, messages crossed by another route
    recent,             \* history: range and digest of the packets of this stream
    offered

arbiterVars == <<arbiter, outcome, crossed, others, recent, offered>>

Number == 0 .. LastSequence - 1
Copies == {r \in [first : 0 .. LastSequence, end : 0 .. LastSequence] : r.first <= r.end}

ArbiterInit ==
    /\ arbiter = FreshStream
    /\ outcome = "duplicate"
    /\ crossed = [n \in Number |-> 0] /\ others = 0
    /\ recent = <<>>
    /\ offered = 0

Feeding == offered < MaxOffers /\ outcome # "lines_diverged" /\ offered' = offered + 1

\* offer, for a packet of either line: which one it is matters to the line
\* statistics only.  Divergence is fatal: the client then offers nothing more.
OfferCopy(arrived, digest) ==
    LET merged == Offer(arbiter, arrived, digest, DetectDivergence)
    IN  /\ Feeding
        /\ arbiter' = merged.arbiter
        /\ outcome' = merged.outcome
        /\ crossed' = [n \in Number |-> IF n \in Numbers(merged.deliver)
                                        THEN crossed[n] + 1 ELSE crossed[n]]
        /\ recent' = IF Empty(arrived) THEN recent
                     ELSE Append(recent, <<arrived, digest>>)
        /\ UNCHANGED others

\* adopt: a snapshot, or the replay on top of it, delivered what is below.
DeliveredElsewhere(sequence) ==
    /\ Feeding
    /\ arbiter' = Adopt(arbiter, sequence)
    /\ others' = Greater(others, sequence)
    /\ UNCHANGED <<outcome, crossed, recent>>

\* reset_stream: numbers start again.
NewSession ==
    /\ Feeding
    /\ arbiter' = ResetStream(arbiter)
    /\ crossed' = [n \in Number |-> 0] /\ others' = 0
    /\ recent' = <<>>
    /\ UNCHANGED outcome

ArbiterNext ==
    \/ \E p \in Copies, d \in Digest : OfferCopy(p, d)
    \/ \E s \in 1 .. LastSequence : DeliveredElsewhere(s)
    \/ NewSession

ArbiterSpec == ArbiterInit /\ [][ArbiterNext]_arbiterVars

-----------------------------------------------------------------------------
(* Properties                                                                *)
\* However the lines' copies, framings and snapshots interleave, no message
\* crosses twice, and nothing at or above the watermark has crossed.
CrossesOnce ==
    \A n \in Number :
        /\ crossed[n] <= 1
        /\ n >= arbiter.before => crossed[n] = 0 /\ n >= others

\* Of the last DigestHistory packets accepted on this stream no two carry the
\* same messages with different digests: the ring checks all of them, also
\* after it has wrapped and after a reset left old entries in it.
DivergenceIsCaught ==
    LET n == Len(recent)
        from == IF n > DigestHistory THEN n - DigestHistory + 1 ELSE 1
    IN  DetectDivergence /\ outcome # "lines_diverged" =>
            \A i, j \in from .. n : recent[i][1] = recent[j][1] => recent[i][2] = recent[j][2]

\* And lines that agree are never reported: divergence is found only where two
\* packets of this stream really differ.
NoFalseAlarm ==
    outcome = "lines_diverged" =>
        \E i \in 1 .. Len(recent) - 1 :
            /\ recent[i][1] = recent[Len(recent)][1]
            /\ recent[i][2] # recent[Len(recent)][2]
=============================================================================
